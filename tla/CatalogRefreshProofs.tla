------------------------- MODULE CatalogRefreshProofs -------------------------
(***************************************************************************)
(* What holds of a catalog refresh for every set of beatmaps, every number *)
(* of changes and every capacity of the launcher's queue: once the events  *)
(* of a finished pass are drained, the screen shows the database; once no  *)
(* change is left to be noticed, the database matches the directory; and a *)
(* row is removed only when its file is gone. A read or a write that fails *)
(* excuses the maps it was about: the history variables name them.         *)
(*                                                                         *)
(* The proof follows a row on its way. Fingerprints: no two writes of a    *)
(* file look alike, so a row with the version of the file is about that    *)
(* file. Work: what the pass still has to import, to declare broken and to *)
(* rate. Listing: what the queue last says of a row is what the database   *)
(* has. Directory: what was compared and not changed since agrees, or is   *)
(* still to be imported. Requested, Cancelled, Progress and NotYet say     *)
(* which request the pass serves and that nothing of a later one was       *)
(* reported before it began.                                               *)
(***************************************************************************)
EXTENDS CatalogRefresh, Integers, FiniteSetTheorems, TLAPS

(* The tuples in which the actions name what they leave alone.               *)
USE DEF vars, settings, directory, world, screen, control, pass, reading, telling, history

-----------------------------------------------------------------------------
(* Rows, reports and events.                                                 *)

VisibleRows == {r \in Rows : Visible(r) = r}
Changes == UNION {[S -> VisibleRows] : S \in SUBSET Maps}
Snapshots == [kind : {"snapshot"}, generation : Nat, rows : [Maps -> VisibleRows],
              callbacks : SUBSET Callbacks]
Deltas == [kind : {"delta"}, generation : Nat, rows : Changes,
           callbacks : SUBSET Callbacks]
Reports == Snapshots \cup Deltas
Errors == [kind : {"error"}, generation : Nat]
Events == Reports \cup Errors \cup {[kind |-> "changed"]}
Posts == {NoEvent} \cup [e : Reports \cup Errors, operation : BOOLEAN]
Requests == [generation : Nat, callbacks : SUBSET Callbacks]

(* What a row of a version is, and what catalog reads make of it.            *)
LEMMA RowFacts ==
    /\ NoRow \in Rows /\ Row("stable", 0) \in Rows
    /\ \A v \in 1..MaxVersion :
          Row("complete", v) \in Rows /\ Row("invalid", v) \in Rows
    /\ \A v : /\ Row("complete", v) # NoRow /\ Row("complete", v).state = "complete"
              /\ Row("stable", v) # NoRow /\ Row("stable", v).state = "stable"
              /\ Row("invalid", v) # NoRow /\ Row("invalid", v).state = "invalid"
              /\ Row("invalid", v).version = v
              /\ Row("complete", v).version = v
    /\ NoRow.state = "none"
<1>1. NoRow \in Rows /\ Row("stable", 0) \in Rows
  BY DEF Rows
<1>2. \A v \in 1..MaxVersion :
         Row("complete", v) \in Rows /\ Row("invalid", v) \in Rows
  BY DEF Rows
<1>3. \A v : /\ Row("complete", v) # NoRow /\ Row("complete", v).state = "complete"
             /\ Row("stable", v) # NoRow /\ Row("stable", v).state = "stable"
             /\ Row("invalid", v) # NoRow /\ Row("invalid", v).state = "invalid"
             /\ Row("invalid", v).version = v
             /\ Row("complete", v).version = v
  BY DEF Row, NoRow
<1>4. NoRow.state = "none"
  BY DEF NoRow
<1> QED BY <1>1, <1>2, <1>3, <1>4

LEMMA RowShape ==
    ASSUME NEW r \in Rows
    PROVE  /\ r.state \in {"none", "complete", "invalid", "stable"}
           /\ r.state = "none" <=> r = NoRow
           /\ r.state = "complete" => r = Row("complete", r.version)
           /\ r.state = "invalid" => r = Row("invalid", r.version)
           /\ r.state \in {"complete", "invalid"} => r.version \in 1..MaxVersion
BY DEF Rows, Row, NoRow

LEMMA VisibleFacts ==
    /\ \A r \in Rows : Visible(r) \in VisibleRows /\ Visible(Visible(r)) = Visible(r)
    /\ \A r : r.state # "invalid" => Visible(r) = r
    /\ \A r : r.state = "invalid" => Visible(r) = NoRow
    /\ VisibleRows \subseteq Rows
    /\ NoRow \in VisibleRows
BY RowFacts DEF Visible, VisibleRows

(* Changes to some rows.                                                     *)
LEMMA ChangeFacts ==
    ASSUME NEW f
    PROVE  f \in Changes <=> /\ DOMAIN f \subseteq Maps
                             /\ f \in [DOMAIN f -> VisibleRows]
BY DEF Changes

LEMMA EventFacts ==
    ASSUME NEW e \in Events
    PROVE  /\ e.kind \in {"snapshot", "delta", "error", "changed"}
           /\ e.kind \in {"snapshot", "delta"} => e \in Reports
           /\ e \in Reports => /\ e.kind \in {"snapshot", "delta"}
                               /\ e.generation \in Nat
                               /\ DOMAIN e.rows \subseteq Maps
                               /\ \A m \in DOMAIN e.rows : e.rows[m] \in VisibleRows
                               /\ e.callbacks \subseteq Callbacks
           /\ e.kind = "snapshot" => e.rows \in [Maps -> VisibleRows]
BY ChangeFacts DEF Events, Reports, Snapshots, Deltas, Errors

LEMMA PostFacts ==
    /\ \A e, b : [e |-> e, operation |-> b] # NoEvent
    /\ \A p \in Posts : p # NoEvent => /\ p.e \in Reports \cup Errors
                                       /\ p.operation \in BOOLEAN
                                       /\ p = [e |-> p.e, operation |-> p.operation]
    /\ \A e \in Reports \cup Errors : e \in Events /\ e.kind # "changed"
<1>1. \A e, b : [e |-> e, operation |-> b] # NoEvent
  <2> SUFFICES ASSUME NEW e, NEW b, [e |-> e, operation |-> b] = NoEvent PROVE FALSE
    OBVIOUS
  <2>1. DOMAIN [e |-> e, operation |-> b] = {"e", "operation"}
    OBVIOUS
  <2>2. DOMAIN NoEvent = {"kind"}
    BY DEF NoEvent
  <2>3. "e" \in {"kind"}
    BY <2>1, <2>2
  <2> QED BY <2>3
<1>2. \A p \in Posts : p # NoEvent => /\ p.e \in Reports \cup Errors
                                      /\ p.operation \in BOOLEAN
                                      /\ p = [e |-> p.e, operation |-> p.operation]
  BY DEF Posts
<1>3. \A e \in Reports \cup Errors : e \in Events /\ e.kind # "changed"
  BY DEF Events, Reports, Snapshots, Deltas, Errors
<1> QED BY <1>1, <1>2, <1>3

-----------------------------------------------------------------------------
(* Types, a part for each group of variables.                                *)

Reporting == {"cache", "seed", "unpack", "scan", "import", "report", "rate",
              "rating", "finish"}
Steps == Reporting \cup {"idle", "take", "arm", "done"}
Abortable == {"seed", "unpack", "scan", "import", "rate", "rating"}

FlagTypes ==
    /\ fsEvents \in BOOLEAN /\ skipMapUpdate \in BOOLEAN
    /\ beatmapDirUpdated \in BOOLEAN /\ wake \in BOOLEAN
    /\ activeCancel \in BOOLEAN /\ canceled \in BOOLEAN /\ closed \in BOOLEAN
    /\ databaseReady \in BOOLEAN /\ served \in BOOLEAN

WorldTypes ==
    /\ disk \in [Maps -> Versions] /\ archives \in [Maps -> Versions]
    /\ acts \in 0..MaxActs /\ stableMaps \subseteq Maps
    /\ watch \in {"none", "posting", "queued"}

RowTypes ==
    /\ db \in [Maps -> Rows] /\ catalog \in [Maps -> VisibleRows]
    /\ mapsInDB \in [Maps -> Rows]

RequestTypes ==
    /\ catalogGeneration \in Nat \ {0}
    /\ snapshotGeneration \in 0..catalogGeneration
    /\ pending \in Requests /\ request \in Requests
    /\ pending.generation \in {0, catalogGeneration}
    /\ request.generation \in 0..catalogGeneration
    /\ at \in Steps /\ (activeCancel <=> at \in Reporting)

PassTypes ==
    /\ DOMAIN toImport \subseteq Maps /\ DOMAIN corruptNew \subseteq Maps
    /\ rated \in Changes
    /\ \A m \in DOMAIN toImport : toImport[m] \in 1..MaxVersion
    /\ \A m \in DOMAIN corruptNew : corruptNew[m] \in 1..MaxVersion
    /\ \A m \in DOMAIN rated : \E v \in 1..MaxVersion : rated[m] = Row("complete", v)

QueueTypes ==
    /\ runtimeEvents \in Seq(Events) /\ Len(runtimeEvents) <= QueueCapacity
    /\ event \in Posts

(* No report is of a generation to come.                                     *)
Past(e) == e.kind \in {"snapshot", "delta"} => e.generation <= catalogGeneration

GenerationTypes ==
    /\ \A i \in DOMAIN runtimeEvents : Past(runtimeEvents[i])
    /\ event # NoEvent => Past(event.e)

HistoryTypes ==
    /\ skipped \subseteq Maps /\ misread \subseteq Maps /\ packed \subseteq Maps
    /\ untold \subseteq Maps /\ unsaid \subseteq Maps

Types == /\ FlagTypes /\ WorldTypes /\ RowTypes /\ RequestTypes /\ PassTypes
         /\ QueueTypes /\ GenerationTypes /\ HistoryTypes

LEMMA TypesImplyTypeOK == Types => TypeOK
<1> SUFFICES ASSUME Types PROVE TypeOK
  OBVIOUS
<1>1. disk \in [Maps -> Versions] /\ archives \in [Maps -> Versions]
      /\ watch \in {"none", "posting", "queued"}
  BY DEF Types, WorldTypes
<1>2. /\ catalog \in [Maps -> Rows] /\ db \in [Maps -> Rows]
      /\ \A m \in Maps : Visible(catalog[m]) = catalog[m]
  BY DEF Types, RowTypes, VisibleRows
<1>3. /\ snapshotGeneration \in 0..catalogGeneration
      /\ Len(runtimeEvents) <= QueueCapacity
      /\ pending.generation \in {0, catalogGeneration}
      /\ request.generation \in 0..catalogGeneration
      /\ request.callbacks \cup pending.callbacks \subseteq Callbacks
  BY DEF Types, RequestTypes, QueueTypes, Requests
<1>4. activeCancel = (at \notin {"idle", "take", "arm", "done"})
  <2>1. activeCancel \in BOOLEAN /\ (activeCancel <=> at \in Reporting) /\ at \in Steps
    BY DEF Types, RequestTypes, FlagTypes
  <2>2. at \in Reporting <=> at \notin {"idle", "take", "arm", "done"}
    BY <2>1 DEF Steps, Reporting
  <2> QED BY <2>1, <2>2, Zenon
<1>5. /\ DOMAIN toImport \subseteq Maps
      /\ DOMAIN rated \subseteq Maps /\ DOMAIN corruptNew \subseteq Maps
  BY ChangeFacts DEF Types, PassTypes
<1>6. skipped \cup misread \cup packed \cup untold \cup unsaid \subseteq Maps
  BY DEF Types, HistoryTypes
<1> QED BY <1>1, <1>2, <1>3, <1>4, <1>5, <1>6 DEF TypeOK

LEMMA InitTypes == Init => Types
<1> SUFFICES ASSUME Init PROVE Types
  OBVIOUS
<1> USE CatalogAssumption
<1>1. FlagTypes
  BY ZenonT(60) DEF Init, FlagTypes
<1>2. WorldTypes
  BY DEF Init, WorldTypes, Every, Versions, MaxVersion
<1>3. RowTypes
  <2>1. db \in [Maps -> {NoRow, Row("complete", 1)}]
        /\ catalog = [m \in Maps |-> NoRow] /\ mapsInDB = [m \in Maps |-> NoRow]
    BY DEF Init
  <2>2. 1 \in 1..MaxVersion
    BY DEF MaxVersion
  <2> QED BY <2>1, <2>2, RowFacts, VisibleFacts DEF RowTypes
<1>4. RequestTypes
  <2>1. activeCancel <=> at \in Reporting
    BY DEF Init, Reporting
  <2> QED BY <2>1 DEF Init, RequestTypes, Requests, NoRequest, Callbacks, Steps
<1>5. PassTypes
  <2>1. Nothing \in Changes
    BY ChangeFacts DEF Nothing
  <2> QED BY <2>1 DEF Init, PassTypes, Nothing
<1>6. QueueTypes
  BY DEF Init, QueueTypes, Posts
<1>7. GenerationTypes
  BY DEF Init, GenerationTypes
<1>8. HistoryTypes
  BY DEF Init, HistoryTypes
<1> QED BY <1>1, <1>2, <1>3, <1>4, <1>5, <1>6, <1>7, <1>8 DEF Types

-----------------------------------------------------------------------------
(* What the coordinator writes and reports.                                  *)

LEMMA EveryChange ==
    ASSUME NEW S \in SUBSET Maps, NEW r \in VisibleRows
    PROVE  /\ Every(S, r) \in Changes /\ DOMAIN Every(S, r) = S
           /\ \A m \in S : Every(S, r)[m] = r
<1>1. DOMAIN Every(S, r) = S /\ \A m \in S : Every(S, r)[m] = r
  BY DEF Every
<1>2. Every(S, r) \in [S -> VisibleRows]
  BY DEF Every
<1> QED BY <1>1, <1>2, ChangeFacts

LEMMA WithChange ==
    ASSUME NEW rows \in [Maps -> Rows], NEW change \in Changes
    PROVE  /\ With(rows, change) \in [Maps -> Rows]
           /\ \A m \in Maps : With(rows, change)[m] =
                IF m \in DOMAIN change THEN change[m] ELSE rows[m]
<1>1. \A m \in DOMAIN change : m \in Maps /\ change[m] \in Rows
  BY ChangeFacts, VisibleFacts
<1>2. \A m \in Maps : (IF m \in DOMAIN change THEN change[m] ELSE rows[m]) \in Rows
  BY <1>1
<1> QED BY <1>2 DEF With

(* Rows are written and, if any, reported, alone or with all the others, or  *)
(* to nobody.                                                                *)
Announced(change) ==
    /\ change \in Changes /\ event = NoEvent
    /\ \E lost \in BOOLEAN : Announce(With(db, change), change, lost)

(* The report tells of the rows what the database has now.                   *)
LEMMA Reported ==
    ASSUME Types, NEW change, Announced(change)
    PROVE  /\ db' \in [Maps -> Rows]
           /\ \A m \in Maps : db'[m] = IF m \in DOMAIN change THEN change[m] ELSE db[m]
           /\ DOMAIN change \subseteq Maps
           /\ \A m \in DOMAIN change : change[m] \in VisibleRows
           /\ event' \in Posts
           /\ untold' \subseteq Maps
           /\ event' = NoEvent => untold' = untold \cup DOMAIN change
           /\ event' # NoEvent =>
                /\ untold \subseteq untold' \cup DOMAIN event'.e.rows
                /\ event'.e \in Reports /\ event'.operation = TRUE
                /\ event'.e.generation = request.generation
                /\ event'.e.callbacks = {}
                /\ DOMAIN change \subseteq DOMAIN event'.e.rows
                /\ \A m \in DOMAIN event'.e.rows :
                      m \in Maps /\ event'.e.rows[m] = Visible(db'[m])
<1>1. /\ change \in Changes /\ event = NoEvent
      /\ db \in [Maps -> Rows] /\ request.generation \in Nat /\ untold \subseteq Maps
  BY DEF Announced, Types, RowTypes, RequestTypes, Requests, HistoryTypes
<1>2. /\ db' = With(db, change) /\ db' \in [Maps -> Rows]
      /\ \A m \in Maps : db'[m] = IF m \in DOMAIN change THEN change[m] ELSE db[m]
  BY <1>1, WithChange DEF Announced, Announce
<1>3. /\ DOMAIN change \subseteq Maps
      /\ \A m \in DOMAIN change : change[m] \in VisibleRows /\ Visible(change[m]) = change[m]
  BY <1>1, ChangeFacts DEF VisibleRows
<1>4. CASE event' = event /\ untold' = untold \cup DOMAIN change
  BY <1>1, <1>2, <1>3, <1>4 DEF Posts
<1>5. CASE Publish(Delta(change)) /\ untold' = untold \ DOMAIN change
  <2>1. Delta(change) \in Reports
    BY <1>1 DEF Delta, Report, Reports, Deltas
  <2>2. event' = [e |-> Delta(change), operation |-> TRUE]
    BY <1>5 DEF Publish
  <2>3. event' \in Posts /\ event' # NoEvent
    BY <2>1, <2>2, PostFacts DEF Posts
  <2>4. /\ event'.e.rows = change /\ event'.e.generation = request.generation
        /\ event'.e.callbacks = {}
    BY <2>2 DEF Delta, Report
  <2> QED BY <1>1, <1>2, <1>3, <1>5, <2>1, <2>2, <2>3, <2>4
<1>6. CASE Publish(Snapshot(With(db, change))) /\ untold' = {}
  <2>1. /\ Shown(db') = [m \in Maps |-> Visible(db'[m])]
        /\ Shown(db') \in [Maps -> VisibleRows]
    <3>1. \A m \in Maps : Visible(db'[m]) \in VisibleRows
      BY <1>2, VisibleFacts
    <3>2. Shown(db') = [m \in Maps |-> Visible(db'[m])]
      BY DEF Shown
    <3> QED BY <3>1, <3>2
  <2>2. Snapshot(db') \in Reports
    BY <1>1, <2>1 DEF Snapshot, Report, Reports, Snapshots, ContinuationsOfSnapshot
  <2>3. event' = [e |-> Snapshot(db'), operation |-> TRUE]
    BY <1>2, <1>6 DEF Publish
  <2>4. event' \in Posts /\ event' # NoEvent
    BY <2>2, <2>3, PostFacts DEF Posts
  <2>5. /\ event'.e.rows = Shown(db') /\ event'.e.generation = request.generation
        /\ event'.e.callbacks = {}
    BY <2>3 DEF Snapshot, Report, ContinuationsOfSnapshot
  <2> QED BY <1>1, <1>2, <1>3, <1>6, <2>1, <2>2, <2>3, <2>4, <2>5
<1>7. \/ event' = event /\ untold' = untold \cup DOMAIN change
      \/ Publish(Delta(change)) /\ untold' = untold \ DOMAIN change
      \/ Publish(Snapshot(With(db, change))) /\ untold' = {}
  BY DEF Announced, Announce
<1> QED BY <1>4, <1>5, <1>6, <1>7

(* What the steps that write rows announce.                                  *)
LEMMA SeedsAnnounced ==
    ASSUME Types, SeedFromStable \/ UnpackMaps
    PROVE  \E seeds :
             /\ Announced(seeds)
             /\ DOMAIN seeds # {} => Listed(db) = {} /\ DOMAIN seeds = stableMaps
             /\ \A m \in DOMAIN seeds : seeds[m] = Row("stable", 0)
<1>1. PICK seeds \in {Seeds, Nothing} :
         event = NoEvent /\ \E lost \in BOOLEAN : Announce(With(db, seeds), seeds, lost)
  BY DEF SeedFromStable, UnpackMaps, Seed, Going, Ready
<1>2. Row("stable", 0) \in VisibleRows
  BY RowFacts, VisibleFacts
<1>3. stableMaps \in SUBSET Maps
  BY DEF Types, WorldTypes
<1>4. CASE seeds = Every(stableMaps, Row("stable", 0)) /\ Listed(db) = {}
  BY <1>1, <1>2, <1>3, <1>4, EveryChange DEF Announced
<1>5. CASE seeds = Nothing
  <2>1. DOMAIN Nothing = {} /\ Nothing \in [{} -> VisibleRows]
    BY DEF Nothing
  <2>2. seeds \in Changes
    BY <1>5, <2>1, ChangeFacts
  <2> QED BY <1>1, <1>5, <2>1, <2>2 DEF Announced
<1> QED BY <1>4, <1>5 DEF Seeds

LEMMA ScanAnnounced ==
    ASSUME Types, Scan
    PROVE  \/ \E unreadable \in SUBSET Present, removed \in SUBSET Maps :
                /\ Announced(Every(removed, NoRow))
                /\ removed \in {Leftover(unreadable), {}}
                /\ DOMAIN Every(removed, NoRow) = removed
                /\ toImport' = [m \in {c \in Candidates(unreadable) : ~Unchanged(c)}
                                   |-> disk[m]]
                /\ mapsInDB' = db /\ unread' = unreadable /\ silent' = {}
                /\ gone' = Maps \ Present
                /\ skipped' = Leftover(unreadable) \ removed
                /\ at' = IF DOMAIN toImport' = {} THEN "report" ELSE "import"
           \/ /\ at' = "finish" /\ event' = [e |-> CatalogError, operation |-> FALSE]
              /\ UNCHANGED <<toImport, mapsInDB, unread, silent, db, skipped, untold>>
<1>1. CASE /\ at' = "finish" /\ event' = [e |-> CatalogError, operation |-> FALSE]
           /\ UNCHANGED <<toImport, mapsInDB, unread, silent, db, skipped, untold>>
  BY <1>1
<1>2. ASSUME NEW unreadable \in SUBSET Present, NEW lost \in BOOLEAN,
             NEW removed \in {Leftover(unreadable), {}},
             /\ toImport' = [m \in {c \in Candidates(unreadable) : ~Unchanged(c)}
                                |-> disk[m]]
             /\ Announce(Without(removed), Every(removed, NoRow), lost)
             /\ mapsInDB' = db
             /\ unread' = unreadable /\ silent' = {} /\ gone' = Maps \ Present
             /\ skipped' = Leftover(unreadable) \ removed
             /\ at' = IF DOMAIN toImport' = {} THEN "report" ELSE "import"
      PROVE  \E u \in SUBSET Present, r \in SUBSET Maps :
                /\ Announced(Every(r, NoRow)) /\ r \in {Leftover(u), {}}
                /\ DOMAIN Every(r, NoRow) = r
                /\ toImport' = [m \in {c \in Candidates(u) : ~Unchanged(c)} |-> disk[m]]
                /\ mapsInDB' = db /\ unread' = u /\ silent' = {}
                /\ gone' = Maps \ Present
                /\ skipped' = Leftover(u) \ r
                /\ at' = IF DOMAIN toImport' = {} THEN "report" ELSE "import"
  <2>1. removed \in SUBSET Maps
    BY DEF Leftover, Known
  <2>2. event = NoEvent
    BY DEF Scan, Going, Ready
  <2>3. Every(removed, NoRow) \in Changes /\ DOMAIN Every(removed, NoRow) = removed
    BY <2>1, EveryChange, VisibleFacts
  <2>4. Announced(Every(removed, NoRow))
    BY <1>2, <2>2, <2>3 DEF Announced, Without
  <2> QED BY <1>2, <2>1, <2>3, <2>4
<1> QED BY <1>1, <1>2 DEF Scan, GoTo, PublishAlways

LEMMA InsertAnnounced ==
    ASSUME Types, event = NoEvent, NEW m \in Maps, InsertMap(m)
    PROVE  Announced(Every({m}, Row("complete", disk[m])))
<1>1. disk[m] \in 1..MaxVersion
  BY CatalogAssumption DEF InsertMap, Types, WorldTypes, Versions, MaxVersion
<1>2. Row("complete", disk[m]) \in VisibleRows
  BY <1>1, RowFacts, VisibleFacts
<1>3. Every({m}, Row("complete", disk[m])) \in Changes
  BY <1>2, EveryChange
<1> QED BY <1>3 DEF InsertMap, Announced

LEMMA ImportAnnounced ==
    ASSUME Types, NEW m \in Maps, Import(m)
    PROVE  \/ /\ disk[m] # 0 /\ disk[m] \notin Corrupt
              /\ Announced(Every({m}, Row("complete", disk[m])))
              /\ misread' = misread \ {m}
              /\ UNCHANGED <<corruptNew, skipped>>
           \/ RejectMap(m)
           \/ SkipMap(m)
<1>1. event = NoEvent
  BY DEF Import, Going, Ready
<1> QED BY <1>1, InsertAnnounced DEF Import, InsertMap

LEMMA RatingsAnnounced ==
    ASSUME Types, WriteRatings
    PROVE  Announced(rated)
BY DEF WriteRatings, Going, Ready, Announced, Types, PassTypes

-----------------------------------------------------------------------------
(* Requests.                                                                 *)

LEMMA NoRequestFacts ==
    NoRequest \in Requests /\ NoRequest.generation = 0
BY DEF NoRequest, Requests

(* A request supersedes what is under way and keeps what waits with it.      *)
LEMMA RequestMade ==
    ASSUME RequestTypes, NEW calls \in SUBSET Callbacks, Request(calls)
    PROVE  /\ catalogGeneration' = catalogGeneration + 1
           /\ pending' \in Requests /\ pending' # NoRequest
           /\ pending'.generation = catalogGeneration'
BY NoRequestFacts DEF RequestTypes, Request, Merged, Requests

-----------------------------------------------------------------------------
(* The steps of a pass after its start and before its end: they leave the    *)
(* requests and the queue alone.                                             *)

PassStep == \/ PublishCached \/ SeedFromStable \/ UnpackMaps \/ Scan \/ ImportBeatmaps
            \/ Tombstone \/ ReportDone \/ LoadRatings \/ WriteRatings
            \/ \E step \in Abortable : Abort(step)

LEMMA PassMoves ==
    ASSUME PassStep
    PROVE  /\ at \in Reporting /\ at' \in Reporting \ {"cache"} /\ event = NoEvent
           /\ UNCHANGED <<catalogGeneration, snapshotGeneration, pending, request, wake,
                          activeCancel, canceled, closed, runtimeEvents, databaseReady>>
<1>1. CASE PublishCached \/ SeedFromStable \/ UnpackMaps \/ Tombstone \/ ReportDone
  BY <1>1 DEF PublishCached, SeedFromStable, UnpackMaps, Tombstone, ReportDone, Going,
              Ready, GoTo, Reporting
<1>2. CASE Scan \/ LoadRatings \/ WriteRatings
  BY <1>2 DEF Scan, LoadRatings, WriteRatings, Going, Ready, GoTo, Reporting
<1>3. CASE ImportBeatmaps
  BY <1>3 DEF ImportBeatmaps, Import, Going, Ready, Reporting
<1>4. CASE \E step \in Abortable : Abort(step)
  BY <1>4 DEF Abort, Abortable, Ready, GoTo, Reporting
<1> QED BY <1>1, <1>2, <1>3, <1>4 DEF PassStep

(* A failure is one of the bounded actions.                                  *)
LEMMA PassCosts ==
    ASSUME PassStep
    PROVE  UNCHANGED acts \/ (acts < MaxActs /\ acts' = acts + 1)
<1>1. \A failed : Costs(failed) => UNCHANGED acts \/ (acts < MaxActs /\ acts' = acts + 1)
  BY DEF Costs, Failure
<1>2. CASE PublishCached \/ Scan \/ Tombstone \/ WriteRatings
  BY <1>1, <1>2 DEF PublishCached, Scan, Tombstone, WriteRatings, Failure
<1>3. CASE SeedFromStable \/ UnpackMaps
  BY <1>1, <1>3 DEF SeedFromStable, UnpackMaps, Seed
<1>4. CASE ImportBeatmaps
  BY <1>1, <1>4 DEF ImportBeatmaps, Import, InsertMap, RejectMap, SkipMap
<1>5. CASE ReportDone \/ LoadRatings \/ \E step \in Abortable : Abort(step)
  BY <1>5 DEF ReportDone, LoadRatings, Abort
<1> QED BY <1>2, <1>3, <1>4, <1>5 DEF PassStep

-----------------------------------------------------------------------------
(* The main thread's queue.                                                  *)

IsReport(e) == e.kind \in {"snapshot", "delta"}

(* What taking an event does with it: only a current report is shown.        *)
LEMMA Drained ==
    ASSUME Types, DrainEvent, NEW e, e = Head(runtimeEvents)
    PROVE  /\ e \in Events /\ Past(e) /\ 1 \in DOMAIN runtimeEvents
           /\ e = runtimeEvents[1] /\ Len(runtimeEvents) \in Nat
           /\ DOMAIN runtimeEvents = 1..Len(runtimeEvents)
           /\ runtimeEvents' \in Seq(Events)
           /\ Len(runtimeEvents') = Len(runtimeEvents) - 1
           /\ DOMAIN runtimeEvents' = 1..Len(runtimeEvents) - 1
           /\ \A i \in DOMAIN runtimeEvents' :
                 i + 1 \in DOMAIN runtimeEvents /\ runtimeEvents'[i] = runtimeEvents[i + 1]
           /\ \/ /\ e \in Reports /\ Current(e) /\ e.generation = catalogGeneration
                 /\ catalog' = IF e.kind = "snapshot" THEN e.rows ELSE Applied(e.rows)
                 /\ snapshotGeneration' = IF e.kind = "snapshot" THEN e.generation
                                          ELSE snapshotGeneration
                 /\ UNCHANGED <<beatmapDirUpdated, watch>>
              \/ /\ IsReport(e) => ~Current(e)
                 /\ e.kind # "changed"
                 /\ UNCHANGED <<snapshotGeneration, catalog, beatmapDirUpdated, watch>>
              \/ /\ e.kind = "changed" /\ watch' = "none" /\ beatmapDirUpdated' = TRUE
                 /\ UNCHANGED <<snapshotGeneration, catalog>>
<1>1. runtimeEvents \in Seq(Events) /\ runtimeEvents # <<>>
      /\ runtimeEvents' = Tail(runtimeEvents)
  BY DEF DrainEvent, Types, QueueTypes
<1>2. /\ e \in Events /\ 1 \in DOMAIN runtimeEvents
      /\ e = runtimeEvents[1] /\ Len(runtimeEvents) \in Nat
      /\ DOMAIN runtimeEvents = 1..Len(runtimeEvents)
      /\ runtimeEvents' \in Seq(Events)
      /\ Len(runtimeEvents') = Len(runtimeEvents) - 1
      /\ DOMAIN runtimeEvents' = 1..Len(runtimeEvents) - 1
      /\ \A i \in DOMAIN runtimeEvents' :
            i + 1 \in DOMAIN runtimeEvents /\ runtimeEvents'[i] = runtimeEvents[i + 1]
  BY <1>1
<1>3. Past(e)
  BY <1>2 DEF Types, GenerationTypes
<1>4. IsReport(e) => e \in Reports /\ e.generation \in Nat /\ catalogGeneration \in Nat
  BY <1>2, EventFacts DEF Types, RequestTypes, IsReport
<1>5. IsReport(e) /\ Current(e) => e.generation = catalogGeneration
  BY <1>3, <1>4 DEF Past, Current, IsReport
<1> QED BY <1>2, <1>3, <1>4, <1>5 DEF DrainEvent, IsReport

(* What adding an event does, and what posting does.                         *)
LEMMA Pushed ==
    ASSUME Types, NEW e \in Events, HasRoom, runtimeEvents' = Append(runtimeEvents, e)
    PROVE  /\ runtimeEvents' \in Seq(Events) /\ Len(runtimeEvents) \in Nat
           /\ Len(runtimeEvents') = Len(runtimeEvents) + 1
           /\ Len(runtimeEvents') <= QueueCapacity
           /\ DOMAIN runtimeEvents = 1..Len(runtimeEvents)
           /\ DOMAIN runtimeEvents' = 1..Len(runtimeEvents) + 1
           /\ \A i \in DOMAIN runtimeEvents : runtimeEvents'[i] = runtimeEvents[i]
           /\ runtimeEvents'[Len(runtimeEvents) + 1] = e
<1>1. runtimeEvents \in Seq(Events) /\ Len(runtimeEvents) < QueueCapacity
  BY DEF HasRoom, Types, QueueTypes
<1> QED BY <1>1, CatalogAssumption

LEMMA Posted ==
    ASSUME Types, PostEvent
    PROVE  /\ event # NoEvent /\ event' = NoEvent /\ event.e \in Events
           /\ event.e.kind # "changed" /\ Past(event.e)
           /\ \/ HasRoom /\ runtimeEvents' = Append(runtimeEvents, event.e)
              \/ ContextDone /\ UNCHANGED runtimeEvents
BY PostFacts DEF PostEvent, Types, QueueTypes, GenerationTypes

LEMMA ChangedFacts == [kind |-> "changed"] \in Events /\ ~IsReport([kind |-> "changed"])
BY DEF Events, IsReport

(* The events of the coordinator itself.                                     *)
LEMMA ErrorPosted ==
    ASSUME Types, PublishAlways(CatalogError)
    PROVE  event' \in Posts /\ event' # NoEvent /\ ~IsReport(event'.e) /\ ~event'.operation
<1>1. CatalogError \in Errors /\ ~IsReport(CatalogError)
  BY DEF CatalogError, Errors, Types, RequestTypes, Requests, IsReport
<1>2. event' = [e |-> CatalogError, operation |-> FALSE]
  BY DEF PublishAlways
<1>3. event' \in Posts /\ event' # NoEvent
  BY <1>1, <1>2, PostFacts DEF Posts
<1> QED BY <1>1, <1>2, <1>3

LEMMA CachePosted ==
    ASSUME Types, PublishAlways(Snapshot(db))
    PROVE  /\ event' \in Posts /\ event' # NoEvent /\ event'.operation = FALSE
           /\ event'.e \in Reports /\ event'.e.generation = request.generation
           /\ event'.e.kind = "snapshot" /\ event'.e.callbacks = {}
           /\ DOMAIN event'.e.rows = Maps
           /\ \A m \in Maps : event'.e.rows[m] = Visible(db[m])
<1>1. db \in [Maps -> Rows] /\ request.generation \in Nat
  BY DEF Types, RowTypes, RequestTypes, Requests
<1>2. Shown(db) = [m \in Maps |-> Visible(db[m])] /\ Shown(db) \in [Maps -> VisibleRows]
  <2>1. \A m \in Maps : Visible(db[m]) \in VisibleRows
    BY <1>1, VisibleFacts
  <2>2. Shown(db) = [m \in Maps |-> Visible(db[m])]
    BY DEF Shown
  <2> QED BY <2>1, <2>2
<1>3. Snapshot(db) \in Reports
  BY <1>1, <1>2 DEF Snapshot, Report, Reports, Snapshots, ContinuationsOfSnapshot
<1>4. event' = [e |-> Snapshot(db), operation |-> FALSE]
  BY DEF PublishAlways
<1>5. event' \in Posts /\ event' # NoEvent
  BY <1>3, <1>4, PostFacts DEF Posts
<1>6. /\ event'.e.rows = Shown(db) /\ event'.e.generation = request.generation
      /\ event'.e.kind = "snapshot" /\ event'.operation = FALSE
      /\ event'.e.callbacks = {}
  BY <1>4 DEF Snapshot, Report, ContinuationsOfSnapshot
<1> QED BY <1>2, <1>3, <1>4, <1>5, <1>6

LEMMA DonePosted ==
    ASSUME Types, Publish(Report("delta", Nothing, request.callbacks))
    PROVE  /\ event' \in Posts /\ event' # NoEvent /\ event'.operation = TRUE
           /\ event'.e \in Reports /\ event'.e.generation = request.generation
           /\ DOMAIN event'.e.rows = {}
<1> DEFINE e == Report("delta", Nothing, request.callbacks)
<1>1. Nothing \in Changes /\ DOMAIN Nothing = {}
  BY ChangeFacts DEF Nothing
<1>2. e \in Reports /\ e.rows = Nothing /\ e.generation = request.generation
  BY <1>1 DEF Report, Reports, Deltas, Types, RequestTypes, Requests
<1>3. event' = [e |-> e, operation |-> TRUE]
  BY DEF Publish
<1> HIDE DEF e
<1>4. event' \in Posts /\ event' # NoEvent
  BY <1>2, <1>3, PostFacts DEF Posts
<1>5. event'.e = e /\ event'.operation = TRUE
  BY <1>3
<1> QED BY <1>1, <1>2, <1>4, <1>5

(* What the scan finds to import, and the versions of the rest of a pass.    *)
LEMMA VersionFacts ==
    ASSUME Types, NEW m \in Maps
    PROVE  /\ disk[m] \in Nat /\ archives[m] \in Nat
           /\ disk[m] <= MaxVersion /\ archives[m] <= MaxVersion
           /\ disk[m] # 0 => disk[m] \in 1..MaxVersion
           /\ MaxVersion \in Nat
BY CatalogAssumption DEF Types, WorldTypes, Versions, MaxVersion

(* The tombstones are written, all or none.                                  *)
LEMMA TombstoneWrites ==
    ASSUME Tombstone
    PROVE  \E S \in {DOMAIN corruptNew, {}} :
             /\ db' = [m \in Maps |-> IF m \in S THEN Row("invalid", corruptNew[m]) ELSE db[m]]
             /\ skipped' = skipped \cup (DOMAIN corruptNew \ S)
<1>1. CASE /\ db' = With(db, [m \in DOMAIN corruptNew |-> Row("invalid", corruptNew[m])])
           /\ skipped' = skipped \cup (DOMAIN corruptNew \ DOMAIN corruptNew)
  BY <1>1 DEF With
<1>2. CASE /\ db' = With(db, [m \in DOMAIN Nothing |-> Row("invalid", Nothing[m])])
           /\ skipped' = skipped \cup (DOMAIN corruptNew \ DOMAIN Nothing)
  <2>1. DOMAIN Nothing = {}
    BY DEF Nothing
  <2> QED BY <1>2, <2>1 DEF With
<1> QED BY <1>1, <1>2 DEF Tombstone

LEMMA NextFlagTypes == Types /\ [Next]_vars => FlagTypes'
<1> SUFFICES ASSUME Types, [Next]_vars PROVE FlagTypes'
  OBVIOUS
<1>1. CASE UNCHANGED <<fsEvents, skipMapUpdate, beatmapDirUpdated, wake,
                        activeCancel, canceled, closed, databaseReady, served>>
  BY <1>1, ZenonT(60) DEF FlagTypes, Types
<1>2. ASSUME NEW m \in Maps, NEW v \in Versions, ChangeFile(m, v) PROVE FlagTypes'
  BY <1>2, ZenonT(60) DEF FlagTypes, ChangeFile, Types
<1>3. CASE WatcherWakes
  BY <1>3, ZenonT(60) DEF FlagTypes, WatcherWakes, Types
<1>4. ASSUME NEW m \in Maps, NEW v \in Versions, DropArchive(m, v) PROVE FlagTypes'
  BY <1>4, ZenonT(60) DEF FlagTypes, DropArchive, Request, Types
<1>5. CASE UnpackMaps
  BY <1>5, ZenonT(60) DEF FlagTypes, UnpackMaps, Going, Ready, GoTo, Types
<1>6. CASE DrainEvent
  BY <1>6, ZenonT(60) DEF FlagTypes, DrainEvent, Types
<1>7. CASE AutoRefresh
  BY <1>7, ZenonT(60) DEF FlagTypes, AutoRefresh, Request, Types
<1>8. ASSUME NEW m \in Maps, SelectMap(m) PROVE FlagTypes'
  BY <1>8, ZenonT(60) DEF FlagTypes, SelectMap, Request, NoRequestMade, Types
<1>9. CASE Idle
  BY <1>9, ZenonT(60) DEF FlagTypes, Idle, Ready, GoTo, Types
<1>10. CASE SetActiveCancel
  BY <1>10, ZenonT(60) DEF FlagTypes, SetActiveCancel, Ready, GoTo,
         InitDatabase, PublishAlways, Types
<1>11. CASE Finish
  BY <1>11, ZenonT(60) DEF FlagTypes, Finish, Ready, GoTo, Types
<1>12. CASE Close
  BY <1>12, ZenonT(60) DEF FlagTypes, Close, Types
<1>13. CASE ReportDone
  BY <1>13, ZenonT(60) DEF FlagTypes, ReportDone, Ready, GoTo, Publish, Types
<1>14. \/ UNCHANGED vars
      \/ WatcherPosts \/ PostEvent \/ TakePending \/ PublishCached
      \/ SeedFromStable \/ Scan \/ (\E m \in Maps : Import(m)) \/ Tombstone
      \/ LoadRatings \/ WriteRatings
      \/ (\E step \in Abortable : Abort(step))
     => UNCHANGED <<fsEvents, skipMapUpdate, beatmapDirUpdated, wake,
                    activeCancel, canceled, closed, databaseReady, served>>
  BY ZenonT(60) DEF WatcherPosts, PostEvent, TakePending, Ready, GoTo,
         PublishCached, PublishAlways, SeedFromStable, Going, Publish, Scan,
         Import, Tombstone, LoadRatings, WriteRatings, Abort
<1> QED BY <1>1, <1>2, <1>3, <1>4, <1>5, <1>6, <1>7, <1>8, <1>9, <1>10, <1>11,
           <1>12, <1>13, <1>14
        DEF Next, User, Refresh, ImportBeatmaps, AtRest, Abortable

LEMMA NextWorldTypes == Types /\ [Next]_vars => WorldTypes'
<1> SUFFICES ASSUME Types, [Next]_vars PROVE WorldTypes'
  OBVIOUS
<1>1. CASE UNCHANGED <<disk, archives, acts, stableMaps, watch>>
  BY <1>1 DEF WorldTypes, Types
<1>2. ASSUME NEW m \in Maps, NEW v \in Versions, ChangeFile(m, v) PROVE WorldTypes'
  BY <1>2, CatalogAssumption DEF WorldTypes, ChangeFile, Types, New, Versions,
         MaxVersion
<1>3. CASE WatcherWakes
  BY <1>3, CatalogAssumption DEF WorldTypes, WatcherWakes, Types
<1>4. CASE WatcherPosts
  BY <1>4, CatalogAssumption DEF WorldTypes, WatcherPosts, Types
<1>5. CASE DrainEvent
  BY <1>5, CatalogAssumption DEF WorldTypes, DrainEvent, Types
<1>6. ASSUME NEW m \in Maps, SelectMap(m) PROVE WorldTypes'
  BY <1>6, CatalogAssumption DEF WorldTypes, SelectMap, Request,
         NoRequestMade, Types
<1>7. ASSUME NEW m \in Maps, NEW v \in Versions, DropArchive(m, v) PROVE WorldTypes'
  BY <1>7, CatalogAssumption DEF WorldTypes, DropArchive, Request, Types, New,
         Versions, MaxVersion
<1>8. CASE UnpackMaps
  <2>1. /\ disk' = [m \in Maps |-> IF m \in mustCheck' THEN archives[m] ELSE disk[m]]
        /\ archives' = [m \in Maps |-> IF m \in mustCheck' THEN 0 ELSE archives[m]]
        /\ UNCHANGED <<watch, stableMaps>>
    BY <1>8 DEF UnpackMaps
  <2>2. disk' \in [Maps -> Versions] /\ archives' \in [Maps -> Versions]
    BY <2>1, CatalogAssumption DEF WorldTypes, Types, Versions, MaxVersion
  <2>3. acts' \in 0..MaxActs
    BY <1>8, PassCosts, CatalogAssumption DEF PassStep, WorldTypes, Types
  <2> QED BY <2>1, <2>2, <2>3 DEF WorldTypes, Types
<1>9. CASE PassStep /\ ~UnpackMaps
  <2>1. acts' \in 0..MaxActs
    BY <1>9, PassCosts, CatalogAssumption DEF WorldTypes, Types
  <2>2. UNCHANGED <<disk, archives, watch, stableMaps>>
    BY <1>9 DEF PassStep, PublishCached, SeedFromStable, Scan, ImportBeatmaps, Import,
                Tombstone, ReportDone, LoadRatings, WriteRatings, Abort
  <2> QED BY <2>1, <2>2 DEF WorldTypes, Types
<1>10. CASE SetActiveCancel
  BY <1>10, CatalogAssumption DEF WorldTypes, SetActiveCancel, Ready, GoTo,
         InitDatabase, PublishAlways, Types, Failure
<1>11. \/ UNCHANGED vars
      \/ AutoRefresh \/ Close \/ PostEvent \/ Idle \/ TakePending \/ Finish
     => UNCHANGED <<disk, archives, acts, stableMaps, watch>>
  BY DEF AutoRefresh, Request, Close, PostEvent, Idle, Ready, GoTo, TakePending, Finish
<1> QED BY <1>1, <1>2, <1>3, <1>4, <1>5, <1>6, <1>7, <1>8, <1>9, <1>10, <1>11
        DEF Next, User, Refresh, AtRest, Abortable, PassStep

LEMMA NextRowTypes == Types /\ [Next]_vars => RowTypes'
<1> SUFFICES ASSUME Types, [Next]_vars PROVE RowTypes'
  OBVIOUS
<1>0. RowTypes
  BY DEF Types
<1>1. CASE UNCHANGED <<db, catalog, mapsInDB>>
  BY <1>1 DEF RowTypes, Types
<1>2. ASSUME NEW m \in Maps, SelectMap(m) PROVE RowTypes'
  <2>1. db' = db \/ db' = Without({m})
    BY <1>2 DEF SelectMap
  <2>2. Without({m}) \in [Maps -> Rows]
    <3>1. Every({m}, NoRow) \in Changes
      <4>1. {m} \in SUBSET Maps /\ NoRow \in VisibleRows
        BY VisibleFacts
      <4> QED BY <4>1, EveryChange, Zenon
    <3>2. db \in [Maps -> Rows]
      BY <1>0 DEF RowTypes
    <3>3. With(db, Every({m}, NoRow)) \in [Maps -> Rows]
      BY <3>1, <3>2, WithChange
    <3> QED BY <3>3 DEF Without
  <2>3. catalog' = catalog \/ catalog' = [catalog EXCEPT ![m] = NoRow]
    BY <1>2 DEF SelectMap
  <2>4. mapsInDB' = mapsInDB
    BY <1>2 DEF SelectMap
  <2> QED BY <1>0, <2>1, <2>2, <2>3, <2>4, VisibleFacts DEF RowTypes
<1>3. CASE DrainEvent
  <2> DEFINE e == Head(runtimeEvents)
  <2>1. e \in Events
    BY <1>3 DEF DrainEvent, Types, QueueTypes
  <2>2. db' = db /\ mapsInDB' = mapsInDB
    BY <1>3 DEF DrainEvent
  <2>3. CASE catalog' = catalog
    BY <1>0, <2>2, <2>3 DEF RowTypes
  <2>4. CASE e.kind \in {"snapshot", "delta"}
             /\ catalog' = IF e.kind = "snapshot" THEN e.rows ELSE Applied(e.rows)
    <3>1. e.kind = "snapshot" => e.rows \in [Maps -> VisibleRows]
      BY <2>1, EventFacts
    <3>2. \A m \in DOMAIN e.rows : e.rows[m] \in VisibleRows
      BY <2>1, <2>4, EventFacts
    <3>3. Applied(e.rows) \in [Maps -> VisibleRows]
      BY <1>0, <3>2 DEF Applied, RowTypes
    <3> QED BY <1>0, <2>2, <2>4, <3>1, <3>3 DEF RowTypes
  <2> QED BY <1>3, <2>3, <2>4 DEF DrainEvent
<1>4. CASE SeedFromStable
  <2>1. db' \in [Maps -> Rows]
    BY <1>4, SeedsAnnounced, Reported
  <2> QED BY <1>0, <1>4, <2>1 DEF RowTypes, SeedFromStable
<1>5. CASE UnpackMaps
  <2>1. db' \in [Maps -> Rows]
    BY <1>5, SeedsAnnounced, Reported
  <2> QED BY <1>0, <1>5, <2>1 DEF RowTypes, UnpackMaps
<1>6. CASE Scan
  <2>1. db' \in [Maps -> Rows] /\ mapsInDB' \in [Maps -> Rows]
    BY <1>0, <1>6, ScanAnnounced, Reported DEF RowTypes
  <2>2. catalog' = catalog
    BY <1>6 DEF Scan
  <2> QED BY <1>0, <2>1, <2>2 DEF RowTypes
<1>7. ASSUME NEW m \in Maps, Import(m) PROVE RowTypes'
  <2>1. db' \in [Maps -> Rows]
    BY <1>0, <1>7, ImportAnnounced, Reported DEF RowTypes, RejectMap, SkipMap
  <2> QED BY <1>0, <1>7, <2>1 DEF RowTypes, Import
<1>8. CASE Tombstone
  <2>1. \A m \in DOMAIN corruptNew : Row("invalid", corruptNew[m]) \in Rows
    BY RowFacts DEF Types, PassTypes
  <2>2. \E S \in SUBSET DOMAIN corruptNew :
           db' = [m \in Maps |-> IF m \in S THEN Row("invalid", corruptNew[m]) ELSE db[m]]
    BY <1>8, TombstoneWrites
  <2>3. db' \in [Maps -> Rows]
    BY <1>0, <2>1, <2>2 DEF RowTypes
  <2> QED BY <1>0, <1>8, <2>3 DEF RowTypes, Tombstone
<1>9. CASE WriteRatings
  <2>1. db' \in [Maps -> Rows]
    BY <1>9, RatingsAnnounced, Reported
  <2> QED BY <1>0, <1>9, <2>1 DEF RowTypes, WriteRatings
<1>10. CASE Finish
  BY <1>0, <1>10, RowFacts DEF RowTypes, Finish
<1>11. \/ UNCHANGED vars
      \/ (\E m \in Maps, v \in Versions : ChangeFile(m, v)) \/ WatcherWakes
      \/ WatcherPosts \/ AutoRefresh \/ Close
      \/ (\E m \in Maps, v \in Versions : DropArchive(m, v)) \/ PostEvent
      \/ Idle \/ TakePending \/ SetActiveCancel \/ PublishCached
      \/ ReportDone \/ LoadRatings \/ (\E step \in Abortable : Abort(step))
     => UNCHANGED <<db, catalog, mapsInDB>>
  BY DEF ChangeFile, WatcherWakes, WatcherPosts, AutoRefresh, Request, Close,
         DropArchive, PostEvent, Idle, Ready, GoTo, TakePending,
         SetActiveCancel, InitDatabase, PublishAlways, PublishCached,
         ReportDone, Publish, LoadRatings, Going, Abort
<1> QED BY <1>1, <1>2, <1>3, <1>4, <1>5, <1>6, <1>7, <1>8, <1>9, <1>10, <1>11
        DEF Next, User, Refresh, ImportBeatmaps, AtRest, Abortable

LEMMA NextRequestTypes == Types /\ [Next]_vars => RequestTypes'
<1> SUFFICES ASSUME Types, [Next]_vars PROVE RequestTypes'
  OBVIOUS
<1>0. RequestTypes
  BY DEF Types
<1>1. CASE UNCHANGED <<catalogGeneration, snapshotGeneration, pending,
                        request, at, activeCancel>>
  BY <1>1 DEF RequestTypes, Types
<1>2. CASE DrainEvent
  <2>1. \/ UNCHANGED snapshotGeneration
        \/ snapshotGeneration' = catalogGeneration
    BY <1>2, Drained
  <2>2. UNCHANGED <<catalogGeneration, pending, request, at, activeCancel>>
    BY <1>2 DEF DrainEvent
  <2> QED BY <1>0, <2>1, <2>2 DEF RequestTypes
<1>3. CASE AutoRefresh
  <2>1. Request({}) /\ UNCHANGED <<snapshotGeneration, activeCancel, at, request>>
    BY <1>3 DEF AutoRefresh
  <2> QED BY <1>0, <2>1, RequestMade DEF RequestTypes
<1>4. ASSUME NEW m \in Maps, SelectMap(m) PROVE RequestTypes'
  <2>1. UNCHANGED <<snapshotGeneration, activeCancel, at, request>>
    BY <1>4 DEF SelectMap
  <2>2. CASE NoRequestMade
    BY <1>0, <2>1, <2>2 DEF RequestTypes, NoRequestMade
  <2>3. CASE Request({})
    BY <1>0, <2>1, <2>3, RequestMade DEF RequestTypes
  <2> QED BY <1>4, <2>2, <2>3 DEF SelectMap
<1>5. ASSUME NEW m \in Maps, NEW v \in Versions, DropArchive(m, v) PROVE RequestTypes'
  <2>1. Request({m}) /\ UNCHANGED <<snapshotGeneration, activeCancel, at, request>>
    BY <1>5 DEF DropArchive
  <2>2. {m} \in SUBSET Callbacks
    BY DEF Callbacks
  <2> QED BY <1>0, <2>1, <2>2, RequestMade DEF RequestTypes
<1>6. CASE Idle
  BY <1>6, <1>0 DEF RequestTypes, Idle, Ready, GoTo, Steps, Reporting
<1>7. CASE TakePending
  <2>1. \/ UNCHANGED <<pending, request>> /\ at' = "idle"
        \/ pending' = NoRequest /\ request' = pending /\ at' = "arm"
    BY <1>7 DEF TakePending, GoTo, PendingAfter
  <2>2. UNCHANGED <<catalogGeneration, snapshotGeneration, activeCancel>> /\ at = "take"
    BY <1>7 DEF TakePending, Ready
  <2> QED BY <1>0, <2>1, <2>2, NoRequestFacts DEF RequestTypes, Steps, Reporting
<1>8. CASE SetActiveCancel
  BY <1>8, <1>0 DEF RequestTypes, SetActiveCancel, Ready, GoTo, InitDatabase,
         PublishAlways, Steps, Reporting
<1>9. CASE PassStep
  BY <1>9, <1>0, PassMoves DEF RequestTypes, Steps
<1>10. CASE Finish
  <2>1. request' = NoRequest /\ at' = "take" /\ activeCancel' = FALSE
        /\ UNCHANGED <<catalogGeneration, snapshotGeneration, pending>>
    BY <1>10 DEF Finish, GoTo
  <2> QED BY <1>0, <2>1, NoRequestFacts DEF RequestTypes, Steps, Reporting
<1>11. \/ UNCHANGED vars
      \/ (\E m \in Maps, v \in Versions : ChangeFile(m, v)) \/ WatcherWakes
      \/ WatcherPosts \/ Close \/ PostEvent
     => UNCHANGED <<catalogGeneration, snapshotGeneration, pending, request,
                    at, activeCancel>>
  BY DEF ChangeFile, WatcherWakes, WatcherPosts, Close, PostEvent
<1> QED BY <1>1, <1>2, <1>3, <1>4, <1>5, <1>6, <1>7, <1>8, <1>9, <1>10, <1>11
        DEF Next, User, Refresh, ImportBeatmaps, AtRest, Abortable, PassStep

LEMMA NextPassTypes == Types /\ [Next]_vars => PassTypes'
<1> SUFFICES ASSUME Types, [Next]_vars PROVE PassTypes'
  OBVIOUS
<1>0. PassTypes
  BY DEF Types
<1>1. CASE UNCHANGED <<toImport, corruptNew, rated>>
  BY <1>1, <1>0 DEF PassTypes
<1>2. CASE Scan
  <2>1. UNCHANGED <<corruptNew, rated>>
    BY <1>2 DEF Scan
  <2>2. \/ UNCHANGED toImport
        \/ \E S \in SUBSET Present : toImport' = [m \in S |-> disk[m]]
    <3>1. \A u : {c \in Candidates(u) : ~Unchanged(c)} \in SUBSET Present
      BY DEF Candidates
    <3> QED BY <1>2, <3>1, ScanAnnounced
  <2>3. \A m \in Present : m \in Maps /\ disk[m] \in 1..MaxVersion
    BY VersionFacts DEF Present
  <2> QED BY <1>0, <2>1, <2>2, <2>3 DEF PassTypes
<1>3. ASSUME NEW m \in Maps, Import(m) PROVE PassTypes'
  <2>1. UNCHANGED rated
    BY <1>3 DEF Import
  <2>2. /\ DOMAIN toImport' \subseteq DOMAIN toImport
        /\ \A n \in DOMAIN toImport' : toImport'[n] = toImport[n]
    BY <1>3 DEF Import
  <2>3. \/ UNCHANGED corruptNew
        \/ /\ m \in DOMAIN toImport
           /\ corruptNew' = [n \in DOMAIN corruptNew \cup {m} |->
                               IF n = m THEN toImport[m] ELSE corruptNew[n]]
    BY <1>3 DEF Import, InsertMap, RejectMap, SkipMap
  <2>4. \A n \in DOMAIN corruptNew' : n \in Maps /\ corruptNew'[n] \in 1..MaxVersion
    BY <1>0, <2>3 DEF PassTypes
  <2>5. DOMAIN corruptNew' \subseteq Maps /\ DOMAIN toImport' \subseteq Maps
    BY <1>0, <2>2, <2>4 DEF PassTypes
  <2> QED BY <1>0, <2>1, <2>2, <2>4, <2>5 DEF PassTypes
<1>4. CASE Tombstone
  BY <1>4, <1>0 DEF PassTypes, Tombstone, Nothing
<1>5. CASE LoadRatings
  <2>1. UNCHANGED <<toImport, corruptNew>>
    BY <1>5 DEF LoadRatings
  <2>2. PICK stale \in SUBSET Listed(db) : rated' = Calculated({m \in stale : Loads(m)})
    BY <1>5 DEF LoadRatings
  <2> DEFINE S == {m \in stale : Loads(m)}
  <2>3. /\ rated' = [m \in S |-> Row("complete", disk[m])]
        /\ S \in SUBSET Maps
    BY <2>2 DEF Calculated, Listed
  <2>4. \A m \in S : disk[m] \in 1..MaxVersion
    BY <2>3, VersionFacts DEF Loads
  <2>5. \A m \in S : Row("complete", disk[m]) \in VisibleRows
    BY <2>4, RowFacts, VisibleFacts
  <2>6. rated' \in Changes
    BY <2>3, <2>5 DEF Changes
  <2> QED BY <1>0, <2>1, <2>3, <2>4, <2>6 DEF PassTypes
<1>6. CASE WriteRatings
  <2>1. Nothing \in Changes /\ DOMAIN Nothing = {}
    BY ChangeFacts DEF Nothing
  <2> QED BY <1>6, <1>0, <2>1 DEF PassTypes, WriteRatings
<1>7. CASE Finish
  <2>1. Nothing \in Changes /\ DOMAIN Nothing = {}
    BY ChangeFacts DEF Nothing
  <2> QED BY <1>7, <1>0, <2>1 DEF PassTypes, Finish
<1>8. \/ UNCHANGED vars
      \/ (\E m \in Maps, v \in Versions : ChangeFile(m, v)) \/ WatcherWakes
      \/ WatcherPosts \/ DrainEvent \/ AutoRefresh \/ Close
      \/ (\E m \in Maps : SelectMap(m))
      \/ (\E m \in Maps, v \in Versions : DropArchive(m, v)) \/ PostEvent
      \/ Idle \/ TakePending \/ SetActiveCancel \/ PublishCached
      \/ SeedFromStable \/ UnpackMaps \/ ReportDone
      \/ (\E step \in Abortable : Abort(step))
     => UNCHANGED <<toImport, corruptNew, rated>>
  BY DEF ChangeFile, WatcherWakes, WatcherPosts, DrainEvent, AutoRefresh,
         Request, Close, SelectMap, NoRequestMade, DropArchive, PostEvent,
         Idle, Ready, GoTo, TakePending, SetActiveCancel, InitDatabase,
         PublishAlways, PublishCached, SeedFromStable, Going, Publish,
         UnpackMaps, ReportDone, Abort
<1> QED BY <1>1, <1>2, <1>3, <1>4, <1>5, <1>6, <1>7, <1>8
        DEF Next, User, Refresh, ImportBeatmaps, AtRest, Abortable

LEMMA NextQueueTypes == Types /\ [Next]_vars => QueueTypes'
<1> SUFFICES ASSUME Types, [Next]_vars PROVE QueueTypes'
  OBVIOUS
<1>0. QueueTypes
  BY DEF Types
<1>1. CASE UNCHANGED <<runtimeEvents, event>>
  BY <1>1, <1>0 DEF QueueTypes
<1>2. CASE WatcherPosts
  <2>1. UNCHANGED event
    BY <1>2 DEF WatcherPosts
  <2>2. CASE HasRoom /\ runtimeEvents' = Append(runtimeEvents, [kind |-> "changed"])
    BY <1>0, <2>1, <2>2, Pushed, ChangedFacts DEF QueueTypes
  <2> QED BY <1>0, <1>2, <2>1, <2>2 DEF QueueTypes, WatcherPosts
<1>3. CASE DrainEvent
  <2>1. UNCHANGED event
    BY <1>3 DEF DrainEvent
  <2>2. runtimeEvents' \in Seq(Events) /\ Len(runtimeEvents') = Len(runtimeEvents) - 1
        /\ Len(runtimeEvents) \in Nat
    BY <1>3, Drained
  <2> QED BY <1>0, <2>1, <2>2, CatalogAssumption DEF QueueTypes
<1>4. CASE PostEvent
  <2>1. event' \in Posts
    BY <1>4, Posted DEF Posts
  <2>2. CASE HasRoom /\ runtimeEvents' = Append(runtimeEvents, event.e)
    BY <1>4, <2>1, <2>2, Posted, Pushed DEF QueueTypes
  <2> QED BY <1>0, <1>4, <2>1, <2>2, Posted DEF QueueTypes
<1>5. CASE SetActiveCancel
  <2>1. UNCHANGED runtimeEvents
    BY <1>5 DEF SetActiveCancel
  <2>2. UNCHANGED event \/ PublishAlways(CatalogError)
    BY <1>5 DEF SetActiveCancel, InitDatabase
  <2>3. event' \in Posts
    BY <1>0, <2>2, ErrorPosted DEF QueueTypes
  <2> QED BY <1>0, <2>1, <2>3 DEF QueueTypes
<1>6. CASE PublishCached
  <2>1. UNCHANGED runtimeEvents
    BY <1>6 DEF PublishCached
  <2>2. UNCHANGED event \/ PublishAlways(Snapshot(db)) \/ PublishAlways(CatalogError)
    BY <1>6 DEF PublishCached
  <2>3. event' \in Posts
    BY <1>0, <2>2, CachePosted, ErrorPosted DEF QueueTypes
  <2> QED BY <1>0, <2>1, <2>3 DEF QueueTypes
<1>7. CASE SeedFromStable
  <2>1. UNCHANGED runtimeEvents
    BY <1>7 DEF SeedFromStable
  <2>2. event' \in Posts
    BY <1>7, SeedsAnnounced, Reported
  <2> QED BY <1>0, <2>1, <2>2 DEF QueueTypes
<1>8. CASE UnpackMaps
  <2>1. UNCHANGED runtimeEvents
    BY <1>8 DEF UnpackMaps
  <2>2. event' \in Posts
    BY <1>8, SeedsAnnounced, Reported
  <2> QED BY <1>0, <2>1, <2>2 DEF QueueTypes
<1>9. CASE WriteRatings
  <2>1. UNCHANGED runtimeEvents
    BY <1>9 DEF WriteRatings
  <2>2. event' \in Posts
    BY <1>9, RatingsAnnounced, Reported
  <2> QED BY <1>0, <2>1, <2>2 DEF QueueTypes
<1>10. CASE ReportDone
  <2>1. UNCHANGED runtimeEvents
    BY <1>10 DEF ReportDone
  <2>2. event' \in Posts
    BY <1>10, DonePosted DEF ReportDone
  <2> QED BY <1>0, <2>1, <2>2 DEF QueueTypes
<1>11. CASE Scan
  <2>1. UNCHANGED runtimeEvents
    BY <1>11 DEF Scan
  <2>2. CASE PublishAlways(CatalogError)
    BY <1>0, <2>1, <2>2, ErrorPosted DEF QueueTypes
  <2>3. ASSUME NEW change, Announced(change) PROVE event' \in Posts
    BY <2>3, Reported
  <2>4. event' \in Posts
    BY <1>11, <2>2, <2>3, ScanAnnounced DEF PublishAlways, QueueTypes
  <2> QED BY <1>0, <2>1, <2>4 DEF QueueTypes
<1>12. ASSUME NEW m \in Maps, Import(m) PROVE QueueTypes'
  <2>1. UNCHANGED runtimeEvents
    BY <1>12 DEF Import
  <2>2. event' \in Posts
    BY <1>0, <1>12, ImportAnnounced, Reported DEF QueueTypes, RejectMap, SkipMap
  <2> QED BY <1>0, <2>1, <2>2 DEF QueueTypes
<1>13. \/ UNCHANGED vars
      \/ (\E m \in Maps, v \in Versions : ChangeFile(m, v)) \/ WatcherWakes
      \/ AutoRefresh \/ Close \/ (\E m \in Maps : SelectMap(m))
      \/ (\E m \in Maps, v \in Versions : DropArchive(m, v)) \/ Idle
      \/ TakePending \/ Tombstone \/ LoadRatings \/ Finish
      \/ (\E step \in Abortable : Abort(step))
     => UNCHANGED <<runtimeEvents, event>>
  BY DEF ChangeFile, WatcherWakes, AutoRefresh, Request, Close, SelectMap,
         NoRequestMade, DropArchive, Idle, Ready, GoTo, TakePending,
         Tombstone, Going, LoadRatings, Finish, Abort
<1> QED BY <1>1, <1>2, <1>3, <1>4, <1>5, <1>6, <1>7, <1>8, <1>9, <1>10, <1>11,
           <1>12, <1>13
        DEF Next, User, Refresh, ImportBeatmaps, AtRest, Abortable

LEMMA LaterStillPast ==
    ASSUME Types, catalogGeneration' \in {catalogGeneration, catalogGeneration + 1},
           UNCHANGED <<runtimeEvents, event>>
    PROVE  GenerationTypes'
<1>1. \A e \in Events : Past(e) /\ IsReport(e) => e.generation <= catalogGeneration'
  BY EventFacts DEF Past, Types, RequestTypes, IsReport
<1>2. \A i \in DOMAIN runtimeEvents : runtimeEvents[i] \in Events /\ Past(runtimeEvents[i])
  BY DEF Types, QueueTypes, GenerationTypes
<1>3. event # NoEvent => event.e \in Events /\ Past(event.e)
  BY PostFacts DEF Types, QueueTypes, GenerationTypes
<1> QED BY <1>1, <1>2, <1>3 DEF GenerationTypes, Past, IsReport

LEMMA NextGenerationTypes == Types /\ [Next]_vars => GenerationTypes'
<1> SUFFICES ASSUME Types, [Next]_vars PROVE GenerationTypes'
  OBVIOUS
<1>0. GenerationTypes
  BY DEF Types
<1>00. request.generation <= catalogGeneration
  BY DEF Types, RequestTypes
<1>1. CASE UNCHANGED <<catalogGeneration, runtimeEvents, event>>
  BY <1>1, <1>0 DEF GenerationTypes, Past
<1>2. CASE WatcherPosts
  <2>1. UNCHANGED <<catalogGeneration, event>>
    BY <1>2 DEF WatcherPosts
  <2>2. CASE HasRoom /\ runtimeEvents' = Append(runtimeEvents, [kind |-> "changed"])
    BY <1>0, <2>1, <2>2, Pushed, ChangedFacts DEF GenerationTypes, Past, IsReport
  <2> QED BY <1>0, <1>2, <2>1, <2>2 DEF GenerationTypes, Past, WatcherPosts
<1>3. CASE DrainEvent
  <2>1. UNCHANGED <<catalogGeneration, event>>
    BY <1>3 DEF DrainEvent
  <2>2. \A i \in DOMAIN runtimeEvents' :
           i + 1 \in DOMAIN runtimeEvents /\ runtimeEvents'[i] = runtimeEvents[i + 1]
    BY <1>3, Drained
  <2> QED BY <1>0, <2>1, <2>2 DEF GenerationTypes, Past
<1>4. CASE PostEvent
  <2>1. UNCHANGED catalogGeneration /\ event' = NoEvent /\ Past(event.e)
    BY <1>4, Posted DEF PostEvent
  <2>2. CASE HasRoom /\ runtimeEvents' = Append(runtimeEvents, event.e)
    BY <1>0, <1>4, <2>1, <2>2, Pushed, Posted DEF GenerationTypes, Past
  <2> QED BY <1>0, <1>4, <2>1, <2>2, Posted DEF GenerationTypes, Past
<1>5. CASE AutoRefresh
  <2>1. catalogGeneration' \in {catalogGeneration, catalogGeneration + 1}
        /\ UNCHANGED <<runtimeEvents, event>>
    BY <1>5 DEF AutoRefresh, Request
  <2> QED BY <1>0, <2>1, LaterStillPast
<1>6. ASSUME NEW m \in Maps, SelectMap(m) PROVE GenerationTypes'
  <2>1. catalogGeneration' \in {catalogGeneration, catalogGeneration + 1}
        /\ UNCHANGED <<runtimeEvents, event>>
    BY <1>6 DEF SelectMap, Request, NoRequestMade
  <2> QED BY <1>0, <2>1, LaterStillPast
<1>7. ASSUME NEW m \in Maps, NEW v \in Versions, DropArchive(m, v) PROVE GenerationTypes'
  <2>1. catalogGeneration' \in {catalogGeneration, catalogGeneration + 1}
        /\ UNCHANGED <<runtimeEvents, event>>
    BY <1>7 DEF DropArchive, Request
  <2> QED BY <1>0, <2>1, LaterStillPast
<1>8. CASE SetActiveCancel
  <2>1. UNCHANGED <<catalogGeneration, runtimeEvents>>
    BY <1>8 DEF SetActiveCancel
  <2>2. event' # NoEvent => event' = event \/ ~IsReport(event'.e)
    BY <1>8, ErrorPosted DEF SetActiveCancel, InitDatabase
  <2> QED BY <1>0, <2>1, <2>2 DEF GenerationTypes, Past, IsReport
<1>9. CASE PublishCached
  <2>1. UNCHANGED <<catalogGeneration, runtimeEvents>>
    BY <1>9 DEF PublishCached
  <2>2. event' # NoEvent => \/ event' = event \/ ~IsReport(event'.e)
                            \/ event'.e.generation = request.generation
    BY <1>9, CachePosted, ErrorPosted DEF PublishCached
  <2> QED BY <1>0, <1>00, <2>1, <2>2 DEF GenerationTypes, Past, IsReport
<1>10. CASE SeedFromStable
  <2>1. UNCHANGED <<catalogGeneration, runtimeEvents>>
    BY <1>10 DEF SeedFromStable
  <2>2. event' # NoEvent => event' = event \/ event'.e.generation = request.generation
    BY <1>10, SeedsAnnounced, Reported
  <2> QED BY <1>0, <1>00, <2>1, <2>2 DEF GenerationTypes, Past
<1>11. CASE UnpackMaps
  <2>1. UNCHANGED <<catalogGeneration, runtimeEvents>>
    BY <1>11 DEF UnpackMaps
  <2>2. event' # NoEvent => event' = event \/ event'.e.generation = request.generation
    BY <1>11, SeedsAnnounced, Reported
  <2> QED BY <1>0, <1>00, <2>1, <2>2 DEF GenerationTypes, Past
<1>12. CASE WriteRatings
  <2>1. UNCHANGED <<catalogGeneration, runtimeEvents>>
    BY <1>12 DEF WriteRatings
  <2>2. event' # NoEvent => event' = event \/ event'.e.generation = request.generation
    BY <1>12, RatingsAnnounced, Reported
  <2> QED BY <1>0, <1>00, <2>1, <2>2 DEF GenerationTypes, Past
<1>13. CASE ReportDone
  <2>1. UNCHANGED <<catalogGeneration, runtimeEvents>>
    BY <1>13 DEF ReportDone
  <2>2. event' # NoEvent => event' = event \/ event'.e.generation = request.generation
    BY <1>13, DonePosted DEF ReportDone
  <2> QED BY <1>0, <1>00, <2>1, <2>2 DEF GenerationTypes, Past
<1>14. ASSUME NEW m \in Maps, Import(m) PROVE GenerationTypes'
  <2>1. UNCHANGED <<catalogGeneration, runtimeEvents>>
    BY <1>14 DEF Import
  <2>2. event' # NoEvent => event' = event \/ event'.e.generation = request.generation
    BY <1>14, ImportAnnounced, Reported DEF RejectMap, SkipMap
  <2> QED BY <1>0, <1>00, <2>1, <2>2 DEF GenerationTypes, Past
<1>15. CASE Scan
  <2>1. UNCHANGED <<catalogGeneration, runtimeEvents>>
    BY <1>15 DEF Scan
  <2>2. \/ \E change : Announced(change)
        \/ PublishAlways(CatalogError)
    BY <1>15, ScanAnnounced DEF PublishAlways
  <2>3. \/ event' = NoEvent \/ event'.e.generation = request.generation
        \/ ~IsReport(event'.e)
    BY <2>2, Reported, ErrorPosted
  <2> QED BY <1>0, <1>00, <2>1, <2>3 DEF GenerationTypes, Past, IsReport
<1>16. \/ UNCHANGED vars
      \/ (\E m \in Maps, v \in Versions : ChangeFile(m, v)) \/ WatcherWakes
      \/ Close \/ Idle \/ TakePending \/ Tombstone \/ LoadRatings \/ Finish
      \/ (\E step \in Abortable : Abort(step))
     => UNCHANGED <<catalogGeneration, runtimeEvents, event>>
  BY DEF ChangeFile, WatcherWakes, Close, Idle, Ready, GoTo, TakePending,
         Tombstone, Going, LoadRatings, Finish, Abort
<1> QED BY <1>1, <1>2, <1>3, <1>4, <1>5, <1>6, <1>7, <1>8, <1>9, <1>10, <1>11,
           <1>12, <1>13, <1>14, <1>15, <1>16
        DEF Next, User, Refresh, ImportBeatmaps, AtRest, Abortable

LEMMA NextHistoryTypes == Types /\ [Next]_vars => HistoryTypes'
<1> SUFFICES ASSUME Types, [Next]_vars PROVE HistoryTypes'
  OBVIOUS
<1>0. HistoryTypes
  BY DEF Types
<1>1. CASE UNCHANGED <<skipped, misread, packed, untold, unsaid>>
  BY <1>0, <1>1 DEF HistoryTypes
<1>2. ASSUME NEW m \in Maps, NEW v \in Versions, ChangeFile(m, v) PROVE HistoryTypes'
  BY <1>0, <1>2 DEF HistoryTypes, ChangeFile
<1>3. ASSUME NEW m \in Maps, NEW v \in Versions, DropArchive(m, v) PROVE HistoryTypes'
  BY <1>0, <1>3 DEF HistoryTypes, DropArchive
<1>4. CASE PublishCached
  BY <1>0, <1>4 DEF HistoryTypes, PublishCached
<1>5. CASE SeedFromStable
  BY <1>0, <1>5, SeedsAnnounced, Reported DEF HistoryTypes, SeedFromStable
<1>6. CASE UnpackMaps
  BY <1>0, <1>6, SeedsAnnounced, Reported DEF HistoryTypes, UnpackMaps, Archived
<1>7. CASE Scan
  <2>1. untold' \subseteq Maps
    BY <1>0, <1>7, ScanAnnounced, Reported DEF HistoryTypes
  <2>2. skipped' \subseteq Maps
    BY <1>0, <1>7, ScanAnnounced DEF HistoryTypes, Leftover, Known
  <2> QED BY <1>0, <1>7, <2>1, <2>2 DEF HistoryTypes, Scan
<1>8. ASSUME NEW m \in Maps, Import(m) PROVE HistoryTypes'
  <2>1. untold' \subseteq Maps
    BY <1>0, <1>8, ImportAnnounced, Reported DEF HistoryTypes, RejectMap, SkipMap
  <2> QED BY <1>0, <1>8, <2>1 DEF HistoryTypes, Import, InsertMap, RejectMap, SkipMap
<1>9. CASE Tombstone
  <2>1. DOMAIN corruptNew \subseteq Maps
    BY DEF Types, PassTypes
  <2> QED BY <1>0, <1>9, <2>1 DEF HistoryTypes, Tombstone
<1>10. CASE ReportDone
  BY <1>0, <1>10 DEF HistoryTypes, ReportDone
<1>11. CASE WriteRatings
  BY <1>0, <1>11, RatingsAnnounced, Reported DEF HistoryTypes, WriteRatings
<1>12. \/ UNCHANGED vars
      \/ WatcherWakes \/ WatcherPosts \/ DrainEvent \/ AutoRefresh \/ Close
      \/ (\E m \in Maps : SelectMap(m)) \/ PostEvent \/ Idle \/ TakePending
      \/ SetActiveCancel \/ LoadRatings \/ Finish
      \/ (\E step \in Abortable : Abort(step))
     => UNCHANGED <<skipped, misread, packed, untold, unsaid>>
  BY DEF WatcherWakes, WatcherPosts, DrainEvent, AutoRefresh, Close, SelectMap, PostEvent,
         Idle, TakePending, SetActiveCancel, LoadRatings, Finish, Abort
<1> QED BY <1>1, <1>2, <1>3, <1>4, <1>5, <1>6, <1>7, <1>8, <1>9, <1>10, <1>11, <1>12
        DEF Next, User, Refresh, ImportBeatmaps, AtRest, Abortable

LEMMA NextTypes == Types /\ [Next]_vars => Types'
BY NextFlagTypes, NextWorldTypes, NextRowTypes, NextRequestTypes, NextPassTypes,
   NextQueueTypes, NextGenerationTypes, NextHistoryTypes DEF Types

-----------------------------------------------------------------------------
(* Requests and their passes.  What waits is of the latest generation; when  *)
(* nothing waits, so is what is under way.                                   *)

Requested ==
    /\ pending = NoRequest \/ pending.generation = catalogGeneration
    /\ pending = NoRequest => request = NoRequest \/ request.generation = catalogGeneration
    /\ pending # NoRequest => /\ wake \/ at # "idle"
                              /\ request.generation < catalogGeneration
    /\ at \in {"idle", "take", "done"} <=> request = NoRequest

(* Only a superseded pass is cancelled before the shutdown.                  *)
Cancelled ==
    /\ canceled /\ ~closed => at \in Reporting /\ pending # NoRequest
    /\ closed /\ at \in Reporting => canceled
    /\ event # NoEvent /\ event.operation => at \in Reporting

Progress ==
    /\ ~databaseReady => at \in {"idle", "take", "arm", "finish", "done"}
    /\ served => /\ databaseReady /\ pending = NoRequest
                 /\ at \in {"rate", "rating", "finish", "take", "idle", "done"}

(* A request is newer than what is under way.                                *)
LEMMA RequestAdvances ==
    ASSUME Types, Requested, NEW calls \in SUBSET Callbacks, Request(calls),
           UNCHANGED <<at, request>>
    PROVE  /\ catalogGeneration' = catalogGeneration + 1
           /\ pending' # NoRequest /\ pending'.generation = catalogGeneration'
           /\ request.generation < catalogGeneration' /\ wake' /\ ~served'
           /\ Requested'
<1>1. RequestTypes
  BY DEF Types
<1>2. /\ catalogGeneration' = catalogGeneration + 1
      /\ pending' # NoRequest /\ pending'.generation = catalogGeneration'
  BY <1>1, RequestMade
<1>3. request.generation < catalogGeneration'
  BY <1>1, <1>2 DEF RequestTypes, Requests
<1>4. wake' /\ ~served'
  BY DEF Request
<1> QED BY <1>2, <1>3, <1>4 DEF Requested

LEMMA NextRequested == Types /\ Requested /\ [Next]_vars => Requested'
<1> SUFFICES ASSUME Types /\ Requested, [Next]_vars PROVE Requested'
  OBVIOUS
<1>0. Types /\ Requested
  OBVIOUS
<1>1. CASE UNCHANGED <<catalogGeneration, pending, request, at, wake>>
  BY <1>1, <1>0 DEF Requested
<1>2. CASE AutoRefresh
  <2>1. Request({}) /\ UNCHANGED <<at, request>>
    BY <1>2 DEF AutoRefresh
  <2> QED BY <1>0, <2>1, RequestAdvances
<1>3. ASSUME NEW m \in Maps, SelectMap(m) PROVE Requested'
  <2>1. UNCHANGED <<at, request>>
    BY <1>3 DEF SelectMap
  <2>2. CASE Request({})
    BY <1>0, <2>1, <2>2, RequestAdvances
  <2>3. CASE NoRequestMade
    BY <1>0, <2>1, <2>3 DEF NoRequestMade, Requested
  <2> QED BY <1>3, <2>2, <2>3 DEF SelectMap
<1>4. ASSUME NEW m \in Maps, NEW v \in Versions, DropArchive(m, v) PROVE Requested'
  <2>1. Request({m}) /\ UNCHANGED <<at, request>>
    BY <1>4 DEF DropArchive
  <2>2. {m} \in SUBSET Callbacks
    BY DEF Callbacks
  <2> QED BY <1>0, <2>1, <2>2, RequestAdvances
<1>5. CASE Idle
  <2>1. /\ UNCHANGED <<catalogGeneration, pending, request>> /\ at = "idle"
        /\ \/ wake /\ at' = "take"
           \/ closed /\ UNCHANGED wake /\ at' = "done"
    BY <1>5 DEF Idle, Ready, GoTo
  <2> QED BY <1>0, <2>1 DEF Requested
<1>6. CASE TakePending
  <2>1. /\ UNCHANGED <<catalogGeneration, wake>> /\ at = "take"
        /\ \/ pending = NoRequest /\ at' = "idle" /\ UNCHANGED <<pending, request>>
           \/ /\ pending # NoRequest /\ at' = "arm"
              /\ request' = pending /\ pending' = NoRequest
    BY <1>6 DEF TakePending, Ready, GoTo, PendingAfter
  <2>2. catalogGeneration \in Nat \ {0} /\ NoRequest.generation = 0
    BY <1>0, NoRequestFacts DEF Types, RequestTypes
  <2> QED BY <1>0, <2>1, <2>2 DEF Requested
<1>7. CASE SetActiveCancel
  <2>1. UNCHANGED <<catalogGeneration, pending, request, wake>>
    BY <1>7 DEF SetActiveCancel
  <2>2. at = "arm" /\ at' \in {"cache", "finish"}
    BY <1>7 DEF SetActiveCancel, Ready, InitDatabase, GoTo
  <2> QED BY <1>0, <2>1, <2>2 DEF Requested
<1>8. CASE PassStep
  BY <1>8, <1>0, PassMoves DEF Requested, Reporting
<1>9. CASE Finish
  <2>1. /\ UNCHANGED <<catalogGeneration, pending, wake>> /\ request' = NoRequest
        /\ at' = "take"
    BY <1>9 DEF Finish, GoTo
  <2>2. catalogGeneration \in Nat \ {0} /\ NoRequest.generation = 0
    BY <1>0, NoRequestFacts DEF Types, RequestTypes
  <2> QED BY <1>0, <2>1, <2>2 DEF Requested
<1>10. \/ UNCHANGED vars
      \/ (\E m \in Maps, v \in Versions : ChangeFile(m, v)) \/ WatcherWakes
      \/ WatcherPosts \/ DrainEvent \/ Close \/ PostEvent
     => UNCHANGED <<catalogGeneration, pending, request, at, wake>>
  BY DEF ChangeFile, WatcherWakes, WatcherPosts, DrainEvent, Close, PostEvent
<1> QED BY <1>1, <1>2, <1>3, <1>4, <1>5, <1>6, <1>7, <1>8, <1>9, <1>10
        DEF Next, User, Refresh, ImportBeatmaps, AtRest, Abortable, PassStep

LEMMA RequestCancels ==
    ASSUME Types, Requested, Cancelled, NEW calls \in SUBSET Callbacks, Request(calls),
           UNCHANGED <<at, request, closed, event>>
    PROVE  Cancelled'
<1>1. /\ pending' # NoRequest /\ request.generation < catalogGeneration'
  BY RequestAdvances
<1>2. canceled' => canceled \/ activeCancel
  BY DEF Request
<1>3. canceled => canceled'
  BY DEF Request
<1>4. activeCancel => at \in Reporting
  BY DEF Types, RequestTypes
<1> QED BY <1>1, <1>2, <1>3, <1>4 DEF Cancelled

LEMMA NextCancelled == Types /\ Requested /\ Cancelled /\ [Next]_vars => Cancelled'
<1> SUFFICES ASSUME Types /\ Requested /\ Cancelled, [Next]_vars PROVE Cancelled'
  OBVIOUS
<1>0. Types /\ Requested /\ Cancelled
  OBVIOUS
<1>1. CASE UNCHANGED <<canceled, closed, at, pending, request,
                        catalogGeneration, event>>
  BY <1>1, <1>0 DEF Cancelled
<1>2. CASE AutoRefresh
  <2>1. Request({}) /\ UNCHANGED <<at, request, closed, event>>
    BY <1>2 DEF AutoRefresh
  <2> QED BY <1>0, <2>1, RequestCancels
<1>3. ASSUME NEW m \in Maps, SelectMap(m) PROVE Cancelled'
  <2>1. UNCHANGED <<at, request, closed, event>>
    BY <1>3 DEF SelectMap
  <2>2. CASE Request({})
    BY <1>0, <2>1, <2>2, RequestCancels
  <2>3. CASE NoRequestMade
    BY <1>0, <2>1, <2>3 DEF NoRequestMade, Cancelled
  <2> QED BY <1>3, <2>2, <2>3 DEF SelectMap
<1>4. ASSUME NEW m \in Maps, NEW v \in Versions, DropArchive(m, v) PROVE Cancelled'
  <2>1. Request({m}) /\ UNCHANGED <<at, request, closed, event>>
    BY <1>4 DEF DropArchive
  <2>2. {m} \in SUBSET Callbacks
    BY DEF Callbacks
  <2> QED BY <1>0, <2>1, <2>2, RequestCancels
<1>5. CASE Close
  <2>1. closed' = TRUE /\ canceled' = TRUE /\ UNCHANGED <<at, event>>
    BY <1>5 DEF Close
  <2> QED BY <1>0, <2>1 DEF Cancelled
<1>6. CASE PostEvent
  <2>1. event' = NoEvent /\ UNCHANGED <<at, canceled, closed, pending, request, catalogGeneration>>
    BY <1>6 DEF PostEvent
  <2> QED BY <1>0, <2>1 DEF Cancelled
<1>7. CASE Idle
  <2>1. /\ UNCHANGED <<canceled, closed, event>> /\ event = NoEvent
        /\ at = "idle" /\ at' \in {"take", "done"}
    BY <1>7 DEF Idle, Ready, GoTo
  <2> QED BY <1>0, <2>1 DEF Cancelled, Reporting
<1>8. CASE TakePending
  <2>1. /\ UNCHANGED <<canceled, closed, event>> /\ event = NoEvent
        /\ at = "take" /\ at' \in {"idle", "arm"}
    BY <1>8 DEF TakePending, Ready, GoTo
  <2> QED BY <1>0, <2>1 DEF Cancelled, Reporting
<1>9. CASE SetActiveCancel
  <2>1. /\ canceled' = closed /\ UNCHANGED closed
        /\ at' \in {"cache", "finish"}
    BY <1>9 DEF SetActiveCancel, InitDatabase, GoTo
  <2> QED BY <1>0, <2>1 DEF Cancelled, Reporting
<1>10. CASE PassStep
  BY <1>10, <1>0, PassMoves DEF Cancelled
<1>11. CASE Finish
  <2>1. /\ canceled' = closed /\ UNCHANGED <<closed, event>> /\ event = NoEvent
        /\ at' = "take"
    BY <1>11 DEF Finish, Ready, GoTo
  <2> QED BY <1>0, <2>1 DEF Cancelled, Reporting
<1>12. \/ UNCHANGED vars
      \/ (\E m \in Maps, v \in Versions : ChangeFile(m, v)) \/ WatcherWakes
      \/ WatcherPosts \/ DrainEvent
     => UNCHANGED <<canceled, closed, at, pending, request,
                    catalogGeneration, event>>
  BY DEF ChangeFile, WatcherWakes, WatcherPosts, DrainEvent
<1> QED BY <1>1, <1>2, <1>3, <1>4, <1>5, <1>6, <1>7, <1>8, <1>9, <1>10, <1>11,
           <1>12
        DEF Next, User, Refresh, ImportBeatmaps, AtRest, Abortable, PassStep

LEMMA NextProgress == Types /\ Requested /\ Cancelled /\ Progress /\ [Next]_vars => Progress'
<1> SUFFICES ASSUME Types /\ Requested /\ Cancelled /\ Progress, [Next]_vars PROVE Progress'
  OBVIOUS
<1>0. Types /\ Requested /\ Cancelled /\ Progress
  OBVIOUS
<1>1. CASE UNCHANGED <<databaseReady, served, at, pending>>
  BY <1>1, <1>0 DEF Progress
<1>2. CASE AutoRefresh
  <2>1. Request({}) /\ UNCHANGED <<at, databaseReady>>
    BY <1>2 DEF AutoRefresh
  <2> QED BY <1>0, <2>1 DEF Request, Progress
<1>3. ASSUME NEW m \in Maps, NEW v \in Versions, DropArchive(m, v) PROVE Progress'
  <2>1. Request({m}) /\ UNCHANGED <<at, databaseReady>>
    BY <1>3 DEF DropArchive
  <2> QED BY <1>0, <2>1 DEF Request, Progress
<1>4. ASSUME NEW m \in Maps, SelectMap(m) PROVE Progress'
  <2>1. UNCHANGED <<at, databaseReady>>
    BY <1>4 DEF SelectMap
  <2>2. CASE Request({})
    BY <1>0, <2>1, <2>2 DEF Request, Progress
  <2>3. CASE NoRequestMade
    BY <1>0, <2>1, <2>3 DEF NoRequestMade, Progress
  <2> QED BY <1>4, <2>2, <2>3 DEF SelectMap
<1>5. CASE Idle
  BY <1>5, <1>0 DEF Progress, Idle, Ready, GoTo
<1>6. CASE TakePending
  <2>1. /\ UNCHANGED <<databaseReady, served>>
        /\ \/ pending = NoRequest /\ at' = "idle" /\ UNCHANGED pending
           \/ pending # NoRequest /\ at' = "arm"
    BY <1>6 DEF TakePending, GoTo
  <2> QED BY <1>0, <2>1 DEF Progress
<1>7. CASE SetActiveCancel
  <2>1. /\ UNCHANGED <<pending, served>> /\ at = "arm"
        /\ \/ at' = "cache" /\ databaseReady'
           \/ at' = "finish" /\ ~databaseReady'
    BY <1>7 DEF SetActiveCancel, Ready, GoTo, InitDatabase
  <2> QED BY <1>0, <2>1 DEF Progress
<1>8. CASE PassStep
  <2>1. CASE ReportDone
    <3>1. /\ UNCHANGED <<pending, databaseReady>> /\ at = "report"
          /\ served' => request.generation = catalogGeneration
          /\ at' \in {"rate", "finish"}
      BY <2>1 DEF ReportDone, Ready, GoTo
    <3>2. served' => pending = NoRequest
      BY <1>0, <3>1 DEF Types, RequestTypes, Requests, Requested
    <3> QED BY <1>0, <3>1, <3>2 DEF Progress
  <2>2. CASE ~ReportDone
    <3>1. UNCHANGED served
      BY <1>8, <2>2 DEF PassStep, PublishCached, SeedFromStable, UnpackMaps, Scan,
                        ImportBeatmaps, Import, Tombstone, LoadRatings, WriteRatings, Abort
    <3>2. /\ at \in {"rate", "rating"} => at' \in {"rate", "rating", "finish"}
          /\ at # "finish"
      BY <1>8 DEF PassStep, PublishCached, SeedFromStable, UnpackMaps, Scan,
                  ImportBeatmaps, Import, Tombstone, ReportDone, LoadRatings, WriteRatings,
                  Abort, Abortable, Going, Ready, GoTo
    <3>3. at \notin {"arm", "idle", "take", "done"}
      BY <1>8, PassMoves DEF Reporting
    <3> QED BY <1>0, <1>8, <3>1, <3>2, <3>3, PassMoves DEF Progress
  <2> QED BY <2>1, <2>2
<1>9. CASE Finish
  <2>1. /\ UNCHANGED <<pending, databaseReady, served>> /\ at' = "take"
    BY <1>9 DEF Finish, GoTo
  <2> QED BY <1>0, <2>1 DEF Progress
<1>10. \/ UNCHANGED vars
      \/ (\E m \in Maps, v \in Versions : ChangeFile(m, v)) \/ WatcherWakes
      \/ WatcherPosts \/ DrainEvent \/ Close \/ PostEvent
     => UNCHANGED <<databaseReady, served, at, pending>>
  BY DEF ChangeFile, WatcherWakes, WatcherPosts, DrainEvent, Close, PostEvent
<1> QED BY <1>1, <1>2, <1>3, <1>4, <1>5, <1>6, <1>7, <1>8, <1>9, <1>10
        DEF Next, User, Refresh, ImportBeatmaps, AtRest, Abortable, PassStep

-----------------------------------------------------------------------------
(* Reports of the latest generation.  There is none before its first one.    *)

Fresh(e) == IsReport(e) /\ Current(e)

NoneFresh ==
    /\ snapshotGeneration < catalogGeneration
    /\ \A i \in DOMAIN runtimeEvents : ~Fresh(runtimeEvents[i])
    /\ event # NoEvent => ~Fresh(event.e)

Unseen == \/ pending # NoRequest
          \/ at \in {"arm", "cache"} /\ request.generation = catalogGeneration

NotYet == Unseen => NoneFresh

(* A request makes every report one of an earlier generation.                *)
LEMMA RequestSupersedes ==
    ASSUME Types, catalogGeneration' = catalogGeneration + 1,
           UNCHANGED <<snapshotGeneration, runtimeEvents, event>>
    PROVE  NoneFresh'
<1>1. /\ catalogGeneration \in Nat /\ snapshotGeneration \in Nat
      /\ snapshotGeneration <= catalogGeneration
  BY DEF Types, RequestTypes
<1>2. \A e \in Events : Past(e) => ~(IsReport(e) /\ e.generation >= catalogGeneration')
  BY <1>1, EventFacts DEF Past, IsReport
<1>3. \A i \in DOMAIN runtimeEvents : runtimeEvents[i] \in Events /\ Past(runtimeEvents[i])
  BY DEF Types, QueueTypes, GenerationTypes
<1>4. event # NoEvent => event.e \in Events /\ Past(event.e)
  BY PostFacts DEF Types, QueueTypes, GenerationTypes
<1> QED BY <1>1, <1>2, <1>3, <1>4 DEF NoneFresh, Fresh, Current

(* What a pass posts is of its own generation.                               *)
Passing == \/ PublishCached \/ SeedFromStable \/ UnpackMaps \/ Scan \/ ImportBeatmaps
           \/ ReportDone \/ WriteRatings

LEMMA PassPosts ==
    ASSUME Types, Passing
    PROVE  /\ event = NoEvent /\ at \in Reporting /\ at' \in Reporting \ {"arm", "cache"}
           /\ UNCHANGED <<catalogGeneration, snapshotGeneration, pending, request,
                          runtimeEvents, databaseReady, closed>>
           /\ event' # NoEvent => \/ ~IsReport(event'.e)
                                  \/ event'.e.generation = request.generation
<1>1. CASE PublishCached
  <2>1. UNCHANGED event \/ PublishAlways(Snapshot(db)) \/ PublishAlways(CatalogError)
    BY <1>1 DEF PublishCached
  <2> QED BY <1>1, <2>1, CachePosted, ErrorPosted DEF PublishCached, Ready, GoTo, Reporting
<1>2. CASE SeedFromStable
  BY <1>2, SeedsAnnounced, Reported DEF SeedFromStable, Going, Ready, GoTo, Reporting
<1>3. CASE UnpackMaps
  BY <1>3, SeedsAnnounced, Reported DEF UnpackMaps, Going, Ready, GoTo, Reporting
<1>4. CASE Scan
  <2>1. (\E change : Announced(change)) \/ PublishAlways(CatalogError)
    BY <1>4, ScanAnnounced DEF PublishAlways
  <2>2. event' # NoEvent => \/ ~IsReport(event'.e)
                            \/ event'.e.generation = request.generation
    BY <2>1, Reported, ErrorPosted
  <2> QED BY <1>4, <2>2 DEF Scan, Going, Ready, GoTo, Reporting
<1>5. ASSUME NEW m \in Maps, Import(m)
      PROVE  /\ event = NoEvent /\ at \in Reporting /\ at' \in Reporting \ {"arm", "cache"}
             /\ UNCHANGED <<catalogGeneration, snapshotGeneration, pending, request,
                            runtimeEvents, databaseReady, closed>>
             /\ event' # NoEvent => \/ ~IsReport(event'.e)
                                    \/ event'.e.generation = request.generation
  BY <1>5, ImportAnnounced, Reported
     DEF Import, RejectMap, SkipMap, Going, Ready, Reporting
<1>6. CASE ReportDone
  BY <1>6, DonePosted DEF ReportDone, Ready, GoTo, Reporting
<1>7. CASE WriteRatings
  BY <1>7, RatingsAnnounced, Reported DEF WriteRatings, Going, Ready, GoTo, Reporting
<1> QED BY <1>1, <1>2, <1>3, <1>4, <1>5, <1>6, <1>7 DEF Passing, ImportBeatmaps

LEMMA NextNotYet == Types /\ Requested /\ NotYet /\ [Next]_vars => NotYet'
<1> SUFFICES ASSUME Types, Requested, NotYet, [Next]_vars, Unseen' PROVE NoneFresh'
  BY DEF NotYet
<1>1. CASE UNCHANGED vars
  BY <1>1 DEF NotYet, Unseen, NoneFresh, Fresh, Current
<1>2. CASE \/ \E m \in Maps, v \in Versions : ChangeFile(m, v)
           \/ WatcherWakes \/ Close
  <2>1. UNCHANGED <<catalogGeneration, snapshotGeneration, pending, request, at,
                    runtimeEvents, event>>
    BY <1>2 DEF ChangeFile, WatcherWakes, Close
  <2> QED BY <2>1 DEF NotYet, Unseen, NoneFresh, Fresh, Current
<1>3. CASE AutoRefresh \/ \E m \in Maps, v \in Versions : DropArchive(m, v)
  BY <1>3, RequestSupersedes DEF AutoRefresh, DropArchive, Request
<1>4. ASSUME NEW m \in Maps, SelectMap(m) PROVE NoneFresh'
  <2>1. UNCHANGED <<snapshotGeneration, runtimeEvents, event, request, at>>
    BY <1>4 DEF SelectMap
  <2>2. CASE Request({})
    BY <2>1, <2>2, RequestSupersedes DEF Request
  <2>3. CASE NoRequestMade
    BY <2>1, <2>3 DEF NoRequestMade, NotYet, Unseen, NoneFresh, Fresh, Current
  <2> QED BY <1>4, <2>2, <2>3 DEF SelectMap
<1>5. CASE DrainEvent
  <2>1. UNCHANGED <<catalogGeneration, pending, request, at, event>>
    BY <1>5 DEF DrainEvent
  <2>2. NoneFresh
    BY <2>1 DEF NotYet, Unseen
  <2> DEFINE e == Head(runtimeEvents)
  <2>3. /\ e = runtimeEvents[1] /\ 1 \in DOMAIN runtimeEvents
        /\ \A i \in DOMAIN runtimeEvents' :
              i + 1 \in DOMAIN runtimeEvents /\ runtimeEvents'[i] = runtimeEvents[i + 1]
        /\ UNCHANGED snapshotGeneration \/ (e \in Reports /\ Current(e))
    BY <1>5, Drained
  <2>4. e \in Reports => IsReport(e)
    BY <1>5, Drained, EventFacts DEF IsReport
  <2>5. UNCHANGED snapshotGeneration
    BY <2>2, <2>3, <2>4 DEF NoneFresh, Fresh
  <2> QED BY <2>1, <2>2, <2>3, <2>5 DEF NoneFresh, Fresh, Current
<1>6. CASE WatcherPosts
  <2>1. UNCHANGED <<catalogGeneration, snapshotGeneration, pending, request, at, event>>
    BY <1>6 DEF WatcherPosts
  <2>2. NoneFresh
    BY <2>1 DEF NotYet, Unseen
  <2>3. CASE HasRoom /\ runtimeEvents' = Append(runtimeEvents, [kind |-> "changed"])
    BY <2>1, <2>2, <2>3, Pushed, ChangedFacts DEF NoneFresh, Fresh, Current
  <2> QED BY <1>6, <2>1, <2>2, <2>3 DEF WatcherPosts, NoneFresh, Fresh, Current
<1>7. CASE PostEvent
  <2>1. UNCHANGED <<catalogGeneration, snapshotGeneration, pending, request, at>>
    BY <1>7 DEF PostEvent
  <2>2. NoneFresh
    BY <2>1 DEF NotYet, Unseen
  <2>3. event # NoEvent /\ event' = NoEvent /\ event.e \in Events
    BY <1>7, Posted
  <2>4. CASE HasRoom /\ runtimeEvents' = Append(runtimeEvents, event.e)
    BY <2>1, <2>2, <2>3, <2>4, Pushed DEF NoneFresh, Fresh, Current
  <2> QED BY <1>7, <2>1, <2>2, <2>3, <2>4 DEF PostEvent, NoneFresh, Fresh, Current
<1>8. CASE Idle \/ Finish \/ (\E step \in Abortable : Abort(step)) \/ Tombstone \/ LoadRatings
  <2>1. UNCHANGED <<catalogGeneration, snapshotGeneration, pending, runtimeEvents, event>>
    BY <1>8 DEF Idle, Finish, Abort, Tombstone, LoadRatings
  <2>2. at' \notin {"arm", "cache"}
    BY <1>8 DEF Idle, Finish, Abort, Tombstone, LoadRatings, GoTo
  <2> QED BY <2>1, <2>2 DEF NotYet, Unseen, NoneFresh, Fresh, Current
<1>9. CASE TakePending
  <2>1. /\ UNCHANGED <<catalogGeneration, snapshotGeneration, runtimeEvents, event>>
        /\ \/ UNCHANGED pending /\ at' = "idle"
           \/ pending # NoRequest
    BY <1>9 DEF TakePending, GoTo
  <2> QED BY <2>1 DEF NotYet, Unseen, NoneFresh, Fresh, Current
<1>10. CASE SetActiveCancel
  <2>1. /\ UNCHANGED <<catalogGeneration, snapshotGeneration, pending, request, runtimeEvents>>
        /\ at = "arm"
        /\ UNCHANGED event \/ PublishAlways(CatalogError)
    BY <1>10 DEF SetActiveCancel, InitDatabase, Ready
  <2>2. NoneFresh
    BY <2>1 DEF NotYet, Unseen
  <2>3. event' # NoEvent => event' = event \/ ~IsReport(event'.e)
    BY <2>1, ErrorPosted
  <2> QED BY <2>1, <2>2, <2>3 DEF NoneFresh, Fresh, Current
<1>11. CASE Passing
  <2>1. /\ at' \notin {"arm", "cache"}
        /\ UNCHANGED <<catalogGeneration, snapshotGeneration, pending, request,
                       runtimeEvents>>
        /\ event' # NoEvent => \/ ~IsReport(event'.e)
                               \/ event'.e.generation = request.generation
    BY <1>11, PassPosts
  <2>2. pending # NoRequest /\ request.generation < catalogGeneration
    BY <2>1 DEF Unseen, Requested
  <2>3. request.generation \in Nat /\ catalogGeneration \in Nat
    BY DEF Types, RequestTypes, Requests
  <2> QED BY <2>1, <2>2, <2>3 DEF NotYet, Unseen, NoneFresh, Fresh, Current
<1> QED BY <1>1, <1>2, <1>3, <1>4, <1>5, <1>6, <1>7, <1>8, <1>9, <1>10, <1>11
        DEF Next, User, Refresh, AtRest, Abortable, Passing

-----------------------------------------------------------------------------
(* The last word on a map: of the event being posted, else of the queue,     *)
(* else the catalog shown.                                                   *)

Says(e, m) == Fresh(e) /\ m \in DOMAIN e.rows
EventSays(m) == event # NoEvent /\ Says(event.e, m)
Said(i, m) == Says(runtimeEvents[i], m)
SilentAfter(i, m) == \A j \in DOMAIN runtimeEvents : j > i => ~Said(j, m)

LastWord(m, row) ==
    \/ EventSays(m) /\ event.e.rows[m] = row
    \/ /\ ~EventSays(m)
       /\ \E i \in DOMAIN runtimeEvents : /\ Said(i, m)
                                          /\ runtimeEvents[i].rows[m] = row
                                          /\ SilentAfter(i, m)
    \/ ~EventSays(m) /\ SilentAfter(0, m) /\ catalog[m] = row

(* What the last word depends on.                                            *)
LEMMA SameWord ==
    ASSUME NEW m \in Maps, NEW row, LastWord(m, row),
           UNCHANGED <<catalogGeneration, runtimeEvents>>, catalog'[m] = catalog[m],
           EventSays(m)' => EventSays(m) /\ event' = event,
           EventSays(m) => EventSays(m)'
    PROVE  LastWord(m, row)'
BY DEF LastWord, SilentAfter, Said, Says, Fresh, Current

(* Taking an event, the launcher shows what it says.                         *)
LEMMA DrainShows ==
    ASSUME Types, DrainEvent, NEW m \in Maps, NEW e, e = Head(runtimeEvents)
    PROVE  catalog'[m] = IF Says(e, m) THEN e.rows[m] ELSE catalog[m]
<1>1. /\ e \in Events
      /\ \/ /\ e \in Reports /\ Current(e)
            /\ catalog' = IF e.kind = "snapshot" THEN e.rows ELSE Applied(e.rows)
         \/ UNCHANGED catalog /\ (IsReport(e) => ~Current(e))
         \/ UNCHANGED catalog /\ e.kind = "changed"
  BY Drained
<1>2. CASE e \in Reports /\ Current(e)
           /\ catalog' = IF e.kind = "snapshot" THEN e.rows ELSE Applied(e.rows)
  <2>1. IsReport(e) /\ (e.kind = "snapshot" => DOMAIN e.rows = Maps)
    BY <1>1, <1>2, EventFacts DEF IsReport
  <2>2. Says(e, m) <=> m \in DOMAIN e.rows
    BY <1>2, <2>1 DEF Says, Fresh
  <2> QED BY <1>2, <2>1, <2>2 DEF Applied
<1>3. CASE UNCHANGED catalog /\ (IsReport(e) => ~Current(e))
  BY <1>3 DEF Says, Fresh
<1>4. CASE UNCHANGED catalog /\ e.kind = "changed"
  BY <1>4 DEF Says, Fresh, IsReport
<1> QED BY <1>1, <1>2, <1>3, <1>4

LEMMA DrainKeepsWord ==
    ASSUME Types, DrainEvent, NEW m \in Maps, NEW row, LastWord(m, row)
    PROVE  LastWord(m, row)'
<1> DEFINE q == runtimeEvents
           e == Head(q)
<1>1. UNCHANGED <<catalogGeneration, event>>
  BY DEF DrainEvent
<1>2. /\ e \in Events /\ 1 \in DOMAIN q /\ e = q[1] /\ Len(q) \in Nat
      /\ DOMAIN q = 1..Len(q) /\ DOMAIN q' = 1..Len(q) - 1
      /\ \A i \in DOMAIN q' : i + 1 \in DOMAIN q /\ q'[i] = q[i + 1]
  BY Drained
<1>3. EventSays(m)' <=> EventSays(m)
  BY <1>1 DEF EventSays, Says, Fresh, Current
<1>4. \A i \in DOMAIN q' : Said(i, m)' <=> Said(i + 1, m)
  BY <1>1, <1>2 DEF Said, Says, Fresh, Current
<1>5. catalog'[m] = IF Says(e, m) THEN e.rows[m] ELSE catalog[m]
  BY DrainShows
<1>6. CASE EventSays(m) /\ event.e.rows[m] = row
  BY <1>1, <1>3, <1>6 DEF LastWord
<1>7. CASE ~EventSays(m) /\ \E i \in DOMAIN q : /\ Said(i, m) /\ q[i].rows[m] = row
                                                /\ SilentAfter(i, m)
  <2>1. PICK i \in DOMAIN q : Said(i, m) /\ q[i].rows[m] = row /\ SilentAfter(i, m)
    BY <1>7
  <2>2. CASE i = 1
    <3>1. catalog'[m] = row
      BY <1>2, <1>5, <2>1, <2>2 DEF Said
    <3>2. \A j \in DOMAIN q' : ~Said(j, m)'
      BY <1>2, <1>4, <2>1, <2>2 DEF SilentAfter
    <3> QED BY <1>3, <1>7, <3>1, <3>2 DEF LastWord, SilentAfter
  <2>3. CASE i # 1
    <3>1. /\ i - 1 \in DOMAIN q' /\ q'[i - 1] = q[i]
          /\ \A j \in DOMAIN q' : j > i - 1 => j + 1 > i
      BY <1>2, <2>3
    <3>2. \A j \in DOMAIN q' : j > i - 1 => ~Said(j, m)'
      BY <1>2, <1>4, <2>1, <3>1 DEF SilentAfter
    <3>3. Said(i - 1, m)' /\ q'[i - 1].rows[m] = row
      BY <1>2, <1>4, <2>1, <3>1
    <3> QED BY <1>3, <1>7, <3>1, <3>2, <3>3 DEF LastWord, SilentAfter
  <2> QED BY <2>2, <2>3
<1>8. CASE ~EventSays(m) /\ SilentAfter(0, m) /\ catalog[m] = row
  <2>1. \A j \in DOMAIN q : ~Said(j, m)
    BY <1>2, <1>8 DEF SilentAfter
  <2>2. catalog'[m] = row /\ \A j \in DOMAIN q' : ~Said(j, m)'
    BY <1>2, <1>4, <1>5, <1>8, <2>1 DEF Said
  <2> QED BY <1>3, <1>8, <2>2 DEF LastWord, SilentAfter
<1> QED BY <1>6, <1>7, <1>8 DEF LastWord

(* Adding an event that says nothing of the map, or what the poster said.    *)
LEMMA PushKeepsWord ==
    ASSUME Types, HasRoom, NEW e \in Events, runtimeEvents' = Append(runtimeEvents, e),
           UNCHANGED <<catalogGeneration, catalog>>,
           \/ ~IsReport(e) /\ UNCHANGED event
           \/ event # NoEvent /\ e = event.e /\ event' = NoEvent,
           NEW m \in Maps, NEW row, LastWord(m, row)
    PROVE  LastWord(m, row)'
<1> DEFINE q == runtimeEvents
<1>0. PICK n : n = Len(q) + 1
  OBVIOUS
<1>1. /\ Len(q) \in Nat /\ DOMAIN q = 1..Len(q) /\ DOMAIN q' = 1..Len(q) + 1
      /\ \A i \in DOMAIN q : q'[i] = q[i]
      /\ q'[n] = e
  BY <1>0, Pushed
<1>2. \A i \in DOMAIN q : Said(i, m)' <=> Said(i, m)
  BY <1>1 DEF Said, Says, Fresh, Current
<1>3. Said(n, m)' <=> Says(e, m)
  BY <1>1 DEF Said, Says, Fresh, Current
<1>4. \A i \in DOMAIN q' : i \in DOMAIN q \/ i = n
  BY <1>0, <1>1
<1>5. CASE Says(e, m)
  <2>1. EventSays(m) /\ e = event.e /\ event' = NoEvent
    BY <1>5 DEF Says, Fresh, EventSays
  <2>2. q'[n].rows[m] = row /\ ~EventSays(m)'
    BY <1>1, <2>1 DEF LastWord, EventSays
  <2>3. \A j \in DOMAIN q' : ~(j > n)
    BY <1>0, <1>1
  <2>4. n \in DOMAIN q'
    BY <1>0, <1>1
  <2> QED BY <1>3, <1>5, <2>2, <2>3, <2>4 DEF LastWord, SilentAfter
<1>6. CASE ~Says(e, m)
  <2>1. EventSays(m)' <=> EventSays(m)
    BY <1>6 DEF EventSays, Says, Fresh, Current
  <2>2. ASSUME NEW i \in DOMAIN q \cup {0}, SilentAfter(i, m) PROVE SilentAfter(i, m)'
    BY <1>0, <1>1, <1>2, <1>3, <1>4, <1>6, <2>2 DEF SilentAfter
  <2>3. EventSays(m) => event' = event
    BY <1>6 DEF EventSays
  <2>4. \A i \in DOMAIN q : i \in DOMAIN q' /\ q'[i] = q[i]
    BY <1>1
  <2>5. CASE EventSays(m)
    BY <2>1, <2>3, <2>5 DEF LastWord
  <2>6. CASE ~EventSays(m) /\ SilentAfter(0, m) /\ catalog[m] = row
    BY <2>1, <2>2, <2>6 DEF LastWord
  <2>7. CASE ~EventSays(m) /\ \E i \in DOMAIN q : /\ Said(i, m) /\ q[i].rows[m] = row
                                                  /\ SilentAfter(i, m)
    <3>1. PICK i \in DOMAIN q : Said(i, m) /\ q[i].rows[m] = row /\ SilentAfter(i, m)
      BY <2>7
    <3>2. /\ i \in DOMAIN q' /\ Said(i, m)' /\ q'[i].rows[m] = row
          /\ SilentAfter(i, m)'
      BY <1>2, <2>2, <2>4, <3>1
    <3> QED BY <2>1, <2>7, <3>2 DEF LastWord
  <2> QED BY <2>5, <2>6, <2>7 DEF LastWord
<1> QED BY <1>5, <1>6

(* The last word is what the database has; or the row was removed for its    *)
(* missing file, and older reports still show it; or the report was lost.    *)
TrueWord(m) == \/ LastWord(m, Visible(db[m]))
               \/ m \in ghosts /\ Visible(db[m]) = NoRow
               \/ m \in untold

(* A report of what is written becomes the last word on it.                  *)
LEMMA ReportKeepsWord ==
    ASSUME Types, NEW change, Announced(change), request.generation = catalogGeneration,
           UNCHANGED <<catalogGeneration, runtimeEvents, catalog, ghosts>>,
           NEW m \in Maps, TrueWord(m)
    PROVE  TrueWord(m)'
<1>1. /\ event = NoEvent /\ event' \in Posts
      /\ db'[m] = IF m \in DOMAIN change THEN change[m] ELSE db[m]
      /\ event' = NoEvent => untold' = untold \cup DOMAIN change
      /\ event' # NoEvent => /\ untold \subseteq untold' \cup DOMAIN event'.e.rows
                             /\ event'.e \in Reports
                             /\ event'.e.generation = request.generation
                             /\ DOMAIN change \subseteq DOMAIN event'.e.rows
                             /\ \A n \in DOMAIN event'.e.rows :
                                   n \in Maps /\ event'.e.rows[n] = Visible(db'[n])
  BY Reported DEF Announced
<1>2. event' # NoEvent => Fresh(event.e)'
  <2>1. event' # NoEvent => IsReport(event'.e)
    BY <1>1, EventFacts DEF IsReport, Events
  <2>2. catalogGeneration \in Nat
    BY DEF Types, RequestTypes
  <2> QED BY <1>1, <2>1, <2>2 DEF Fresh, Current
<1>3. CASE event' # NoEvent /\ m \in DOMAIN event'.e.rows
  BY <1>1, <1>2, <1>3 DEF TrueWord, LastWord, EventSays, Says
<1>4. CASE m \in untold'
  BY <1>4 DEF TrueWord
<1>5. CASE m \notin untold' /\ ~(event' # NoEvent /\ m \in DOMAIN event'.e.rows)
  <2>1. db'[m] = db[m] /\ m \notin untold /\ ~EventSays(m)' /\ ~EventSays(m)
    BY <1>1, <1>5 DEF EventSays, Says
  <2>2. LastWord(m, Visible(db[m])) => LastWord(m, Visible(db[m]))'
    BY <2>1, SameWord
  <2> QED BY <2>1, <2>2 DEF TrueWord
<1> QED BY <1>3, <1>4, <1>5

-----------------------------------------------------------------------------
(* Versions.  The last change so far made the latest one; the fingerprint of *)
(* a rejected file is never again that of a good one, unless that one was    *)
(* misread.                                                                  *)

Latest == 2 * acts + 1
Spent(m, v) == v \notin Corrupt => (v # disk[m] \/ m \in misread) /\ v # archives[m]

FileVersions ==
    \A m \in Maps : /\ disk[m] <= Latest /\ archives[m] <= Latest
                    /\ archives[m] # 0 => archives[m] # disk[m]

RowVersions ==
    \A m \in Maps : db[m].state = "invalid" =>
                        db[m].version <= Latest /\ Spent(m, db[m].version)

WorkVersions ==
    /\ \A m \in DOMAIN toImport : toImport[m] <= Latest /\ toImport[m] # archives[m]
    /\ \A m \in DOMAIN corruptNew : corruptNew[m] <= Latest /\ Spent(m, corruptNew[m])

Fingerprints == FileVersions /\ RowVersions /\ WorkVersions

LEMMA VisibleState == \A r \in VisibleRows : r.state # "invalid"
BY RowFacts DEF VisibleRows, Visible

LEMMA NewVersions ==
    ASSUME Types, acts' = acts + 1, NEW v \in New(acts')
    PROVE  v \in Nat /\ v > Latest /\ v <= Latest' /\ v # 0 /\ Latest \in Nat
BY CatalogAssumption DEF New, Latest, Types, WorldTypes

LEMMA Doubled ==
    ASSUME NEW a \in Nat, NEW b \in Nat, a <= b
    PROVE  2 * a + 1 \in Nat /\ 2 * b + 1 \in Nat /\ 2 * a + 1 <= 2 * b + 1
OBVIOUS

LEMMA LatestGrows ==
    ASSUME Types, acts' \in {acts, acts + 1}
    PROVE  Latest \in Nat /\ Latest' \in Nat /\ Latest <= Latest'
<1>1. acts \in Nat
  BY CatalogAssumption DEF Types, WorldTypes
<1>2. PICK b \in Nat : b = acts' /\ acts <= b
  BY <1>1
<1>3. Latest = 2 * acts + 1 /\ Latest' = 2 * b + 1
  BY <1>2 DEF Latest
<1> QED BY <1>1, <1>2, <1>3, Doubled

(* With the files as they were.                                              *)
LEMMA SpentStays ==
    ASSUME Types, acts' \in {acts, acts + 1}, UNCHANGED <<disk, archives, misread>>
    PROVE  /\ Latest \in Nat /\ Latest <= Latest'
           /\ \A m \in Maps : \A v : Spent(m, v) => Spent(m, v)'
           /\ FileVersions => FileVersions'
           /\ WorkVersions /\ UNCHANGED <<toImport, corruptNew>> => WorkVersions'
<1>1. Latest \in Nat /\ Latest <= Latest' /\ Latest' \in Nat
  BY LatestGrows
<1>2. \A m \in Maps : \A v : Spent(m, v) => Spent(m, v)'
  BY DEF Spent
<1>3. \A m \in Maps : disk[m] \in Nat /\ archives[m] \in Nat
  BY VersionFacts
<1>4. FileVersions => FileVersions'
  BY <1>1, <1>3 DEF FileVersions
<1>5. ASSUME WorkVersions, UNCHANGED <<toImport, corruptNew>> PROVE WorkVersions'
  <2>1. /\ DOMAIN toImport \subseteq Maps /\ DOMAIN corruptNew \subseteq Maps
        /\ \A m \in DOMAIN toImport : toImport[m] \in Nat
        /\ \A m \in DOMAIN corruptNew : corruptNew[m] \in Nat
    BY CatalogAssumption DEF Types, PassTypes, MaxVersion
  <2> QED BY <1>1, <1>2, <1>5, <2>1 DEF WorkVersions
<1> QED BY <1>1, <1>2, <1>4, <1>5

LEMMA AnnouncedVersions ==
    ASSUME Types, RowVersions, NEW change, Announced(change),
           acts' \in {acts, acts + 1}, UNCHANGED <<disk, archives>>,
           misread \subseteq misread' \cup DOMAIN change
    PROVE  RowVersions'
<1>1. \A m \in Maps : /\ db'[m] = IF m \in DOMAIN change THEN change[m] ELSE db[m]
                      /\ m \in DOMAIN change => change[m].state # "invalid"
                      /\ db[m].state = "invalid" => db[m].version \in Nat
  <2>1. \A m \in Maps : db[m].state = "invalid" => db[m].version \in Nat
    BY RowShape DEF Types, RowTypes
  <2> QED BY <2>1, Reported, VisibleState
<1>2. /\ Latest \in Nat /\ Latest' \in Nat /\ Latest <= Latest'
      /\ \A m \in Maps \ DOMAIN change : \A v : Spent(m, v) => Spent(m, v)'
  BY LatestGrows DEF Spent
<1> QED BY <1>1, <1>2 DEF RowVersions

(* A file gets a version it never had, or goes.                              *)
LEMMA FileRenewed ==
    ASSUME Types, Fingerprints, NEW m \in Maps, NEW v,
           acts' = acts + 1, v \in New(acts') \cup {0},
           \/ disk' = [disk EXCEPT ![m] = v] /\ UNCHANGED archives
           \/ archives' = [archives EXCEPT ![m] = v] /\ UNCHANGED disk /\ v # 0,
           misread \subseteq misread' \cup {m}, UNCHANGED disk => UNCHANGED misread,
           UNCHANGED <<db, toImport, corruptNew>>
    PROVE  Fingerprints'
<1>1. /\ Latest \in Nat /\ Latest' = Latest + 2
      /\ v \in Nat /\ v <= Latest' /\ (v # 0 => v > Latest)
  <2>1. acts \in Nat /\ Latest \in Nat /\ Latest' = Latest + 2
    BY CatalogAssumption DEF Types, WorldTypes, Latest
  <2> QED BY <2>1, NewVersions
<1>2. /\ disk \in [Maps -> Versions] /\ archives \in [Maps -> Versions]
      /\ \A n \in Maps : disk[n] \in Nat /\ archives[n] \in Nat
  BY VersionFacts DEF Types, WorldTypes
<1>3. \A n \in Maps : /\ disk'[n] = disk[n] \/ disk'[n] = 0 \/ disk'[n] > Latest
                      /\ archives'[n] = archives[n] \/ archives'[n] > Latest
                      /\ disk'[n] <= Latest' /\ archives'[n] <= Latest'
                      /\ UNCHANGED disk \/ archives'[n] = archives[n]
                      /\ disk'[n] \in Nat /\ archives'[n] \in Nat
  BY <1>1, <1>2 DEF Fingerprints, FileVersions
<1>4. FileVersions'
  <2> SUFFICES ASSUME NEW n \in Maps, archives'[n] # 0 PROVE archives'[n] # disk'[n]
    BY <1>3 DEF FileVersions
  <2>1. disk[n] <= Latest /\ archives[n] <= Latest /\ (archives[n] # 0 => archives[n] # disk[n])
    BY DEF Fingerprints, FileVersions
  <2> QED BY <1>1, <1>2, <1>3, <2>1
<1>5. ASSUME NEW n \in Maps, NEW w \in Nat, w # 0, w <= Latest, Spent(n, w)
      PROVE  w <= Latest' /\ Spent(n, w)'
  <2>1. w <= Latest' /\ (w \notin Corrupt => w # archives'[n])
    BY <1>1, <1>2, <1>3, <1>5 DEF Spent
  <2>2. ASSUME w \notin Corrupt, w = disk'[n] PROVE n \in misread'
    <3>1. disk'[n] = disk[n] /\ n \in misread
      BY <1>1, <1>2, <1>3, <1>5, <2>2 DEF Spent
    <3>2. n = m => UNCHANGED disk
      BY <1>1, <1>2, <1>5, <2>2
    <3> QED BY <3>1, <3>2
  <2> QED BY <2>1, <2>2 DEF Spent
<1>6. RowVersions'
  <2>1. \A n \in Maps : db[n].state = "invalid" => db[n].version \in Nat /\ db[n].version # 0
    BY RowShape, CatalogAssumption DEF Types, RowTypes, MaxVersion
  <2> QED BY <1>5, <2>1 DEF Fingerprints, RowVersions
<1>7. WorkVersions'
  <2>1. /\ DOMAIN toImport \subseteq Maps /\ DOMAIN corruptNew \subseteq Maps
        /\ \A n \in DOMAIN toImport : toImport[n] \in Nat /\ toImport[n] # 0
        /\ \A n \in DOMAIN corruptNew : corruptNew[n] \in Nat /\ corruptNew[n] # 0
    BY CatalogAssumption DEF Types, PassTypes, MaxVersion
  <2>2. ASSUME NEW n \in DOMAIN toImport
        PROVE  toImport[n] <= Latest' /\ toImport[n] # archives'[n]
    BY <1>1, <1>2, <1>3, <2>1 DEF Fingerprints, WorkVersions
  <2>3. ASSUME NEW n \in DOMAIN corruptNew
        PROVE  corruptNew[n] <= Latest' /\ Spent(n, corruptNew[n])'
    BY <1>5, <2>1 DEF Fingerprints, WorkVersions
  <2> QED BY <2>2, <2>3 DEF WorkVersions
<1> QED BY <1>4, <1>6, <1>7 DEF Fingerprints

(* An import writes a good row or remembers what the scan saw.               *)
LEMMA ImportVersions ==
    ASSUME Types, Fingerprints, DOMAIN toImport \cap DOMAIN corruptNew = {},
           NEW m \in Maps, Import(m)
    PROVE  Fingerprints'
<1>1. UNCHANGED <<disk, archives>> /\ acts' \in {acts, acts + 1}
  BY PassCosts DEF Import, PassStep, ImportBeatmaps
<1>2. /\ Latest \in Nat /\ Latest' \in Nat /\ Latest <= Latest'
      /\ \A n \in Maps : /\ disk[n] \in Nat /\ archives[n] \in Nat
                         /\ db[n].state = "invalid" => db[n].version \in Nat
      /\ DOMAIN toImport \subseteq Maps /\ DOMAIN corruptNew \subseteq Maps
      /\ \A n \in DOMAIN toImport : toImport[n] \in Nat
      /\ \A n \in DOMAIN corruptNew : corruptNew[n] \in Nat
  BY <1>1, LatestGrows, VersionFacts, RowShape, CatalogAssumption
     DEF Types, PassTypes, RowTypes, MaxVersion
<1>3. FileVersions'
  BY <1>1, <1>2 DEF Fingerprints, FileVersions
<1>4. /\ m \in DOMAIN toImport /\ m \notin DOMAIN corruptNew
      /\ toImport' = [n \in DOMAIN toImport \ {m} |-> toImport[n]]
  BY DEF Import
<1>5. ASSUME NEW n \in Maps, n # m \/ disk[m] \in Corrupt \/ m \in misread' \/ UNCHANGED misread,
             NEW v, Spent(n, v)
      PROVE  Spent(n, v)'
  <2>1. misread \subseteq misread' \cup {m}
    BY DEF Import, InsertMap, RejectMap, SkipMap
  <2> QED BY <1>1, <1>5, <2>1 DEF Spent
<1>6. CASE InsertMap(m)
  <2>1. RowVersions'
    <3>1. DOMAIN Every({m}, Row("complete", disk[m])) = {m}
      BY DEF Every
    <3>2. misread' = misread \ {m} /\ Announced(Every({m}, Row("complete", disk[m])))
      BY <1>6, InsertAnnounced DEF InsertMap, Import, Going, Ready
    <3> QED BY <1>1, <3>1, <3>2, AnnouncedVersions DEF Fingerprints
  <2>2. UNCHANGED corruptNew
    BY <1>6 DEF InsertMap
  <2>3. WorkVersions'
    BY <1>1, <1>2, <1>4, <1>5, <2>2 DEF Fingerprints, WorkVersions
  <2> QED BY <1>3, <2>1, <2>3 DEF Fingerprints
<1>7. CASE RejectMap(m) \/ SkipMap(m)
  <2>1. /\ UNCHANGED db
        /\ \/ UNCHANGED <<corruptNew, misread>>
           \/ /\ disk[m] \in Corrupt \/ m \in misread'
              /\ UNCHANGED corruptNew
           \/ /\ disk[m] \in Corrupt \/ m \in misread'
              /\ corruptNew' = [n \in DOMAIN corruptNew \cup {m} |->
                                  IF n = m THEN toImport[m] ELSE corruptNew[n]]
    BY <1>7 DEF RejectMap, SkipMap
  <2>2. \A n \in Maps : \A v : Spent(n, v) => Spent(n, v)'
    BY <1>5, <2>1
  <2>3. RowVersions'
    BY <1>2, <2>1, <2>2 DEF Fingerprints, RowVersions
  <2>4. ASSUME NEW n \in DOMAIN corruptNew'
        PROVE  (corruptNew[n] <= Latest /\ Spent(n, corruptNew[n]))'
    <3>1. CASE n \in DOMAIN corruptNew
      <4>1. corruptNew'[n] = corruptNew[n]
        BY <1>4, <2>1, <3>1
      <4>2. /\ corruptNew[n] <= Latest /\ Spent(n, corruptNew[n])
            /\ n \in Maps /\ corruptNew[n] \in Nat
        BY <1>2, <3>1 DEF Fingerprints, WorkVersions
      <4>3. PICK v : v = corruptNew[n]
        OBVIOUS
      <4>4. Spent(n, v)'
        BY <2>2, <4>2, <4>3
      <4> QED BY <1>2, <4>1, <4>2, <4>3, <4>4
    <3>2. CASE n \notin DOMAIN corruptNew
      <4>1. n = m /\ corruptNew'[n] = toImport[m] /\ (disk[m] \in Corrupt \/ m \in misread')
        BY <2>1, <2>4, <3>2
      <4>2. toImport[m] <= Latest /\ toImport[m] # archives[m] /\ toImport[m] \in Nat
        BY <1>2, <1>4 DEF Fingerprints, WorkVersions
      <4>3. Spent(n, corruptNew[n])'
        BY <1>1, <4>1, <4>2 DEF Spent
      <4> QED BY <1>2, <4>1, <4>2, <4>3
    <3> QED BY <3>1, <3>2
  <2>5. WorkVersions'
    BY <1>1, <1>2, <1>4, <2>4 DEF Fingerprints, WorkVersions
  <2> QED BY <1>3, <2>3, <2>5 DEF Fingerprints
<1> QED BY <1>6, <1>7 DEF Import

(* An unpacked archive takes the place of the file.                          *)
LEMMA UnpackVersions ==
    ASSUME Types, Fingerprints, UnpackMaps, DOMAIN toImport = {}, DOMAIN corruptNew = {}
    PROVE  Fingerprints'
<1>1. /\ disk' = [m \in Maps |-> IF m \in mustCheck' THEN archives[m] ELSE disk[m]]
      /\ archives' = [m \in Maps |-> IF m \in mustCheck' THEN 0 ELSE archives[m]]
      /\ misread' = misread \ mustCheck' /\ UNCHANGED <<toImport, corruptNew>>
  BY DEF UnpackMaps
<1>2. /\ Latest \in Nat /\ Latest' \in Nat /\ Latest <= Latest'
      /\ \A m \in Maps : disk[m] \in Nat /\ archives[m] \in Nat
  BY PassCosts, LatestGrows, VersionFacts DEF PassStep
<1>3. FileVersions'
  BY <1>1, <1>2 DEF Fingerprints, FileVersions
<1>4. RowVersions'
  <2>1. \A m \in Maps : db'[m] = db[m] \/ db'[m].state # "invalid"
    BY SeedsAnnounced, Reported, VisibleState
  <2>2. \A m \in Maps : db[m].state = "invalid" => db[m].version # 0 /\ db[m].version \in Nat
    BY RowShape, CatalogAssumption DEF Types, RowTypes, MaxVersion
  <2>3. ASSUME NEW m \in Maps, NEW v, v # 0, Spent(m, v) PROVE Spent(m, v)'
    BY <1>1, <2>3 DEF Spent
  <2> QED BY <1>2, <2>1, <2>2, <2>3 DEF Fingerprints, RowVersions
<1>5. WorkVersions'
  BY <1>1 DEF WorkVersions
<1> QED BY <1>3, <1>4, <1>5 DEF Fingerprints

(* The rows of rejected files take the fingerprints of the scan.             *)
LEMMA TombstoneVersions ==
    ASSUME Types, Fingerprints, Tombstone
    PROVE  Fingerprints'
<1>1. /\ UNCHANGED <<disk, archives, toImport, misread>> /\ acts' \in {acts, acts + 1}
      /\ corruptNew' = Nothing /\ DOMAIN Nothing = {}
  BY PassCosts DEF Tombstone, Nothing, PassStep
<1>2. PICK S \in SUBSET DOMAIN corruptNew :
         db' = [m \in Maps |-> IF m \in S THEN Row("invalid", corruptNew[m]) ELSE db[m]]
  BY TombstoneWrites
<1>3. /\ Latest \in Nat /\ Latest' \in Nat /\ Latest <= Latest'
      /\ \A n \in Maps : \A v : Spent(n, v) => Spent(n, v)'
      /\ FileVersions'
  BY <1>1, LatestGrows, SpentStays DEF Fingerprints
<1>4. /\ \A m \in Maps : db[m].state = "invalid" => db[m].version \in Nat
      /\ DOMAIN corruptNew \subseteq Maps /\ DOMAIN toImport \subseteq Maps
      /\ \A m \in DOMAIN corruptNew : corruptNew[m] \in Nat
      /\ \A m \in DOMAIN toImport : toImport[m] \in Nat
  BY RowShape, CatalogAssumption DEF Types, RowTypes, PassTypes, MaxVersion
<1>5. RowVersions'
  <2> SUFFICES ASSUME NEW m \in Maps, db'[m].state = "invalid"
               PROVE  (db[m].version <= Latest /\ Spent(m, db[m].version))'
    BY DEF RowVersions
  <2>1. PICK v : v = db'[m].version
    OBVIOUS
  <2>2. v <= Latest /\ Spent(m, v) /\ v \in Nat
    <3>1. CASE m \in S
      <4>1. v = corruptNew[m]
        BY <1>2, <2>1, <3>1, RowFacts
      <4> QED BY <1>4, <3>1, <4>1 DEF Fingerprints, WorkVersions
    <3>2. CASE m \notin S
      BY <1>2, <1>4, <2>1, <3>2 DEF Fingerprints, RowVersions
    <3> QED BY <3>1, <3>2
  <2>3. v <= Latest' /\ Spent(m, v)'
    BY <1>3, <2>2
  <2> QED BY <2>1, <2>3
<1>6. WorkVersions'
  BY <1>1, <1>3, <1>4 DEF Fingerprints, WorkVersions
<1> QED BY <1>3, <1>5, <1>6 DEF Fingerprints

(* What the scan finds to import has the version of the file.                *)
LEMMA ScanVersions ==
    ASSUME Types, Fingerprints, Scan
    PROVE  Fingerprints'
<1>1. UNCHANGED <<disk, archives, misread, corruptNew>> /\ acts' \in {acts, acts + 1}
  BY PassCosts DEF Scan, PassStep
<1>2. FileVersions'
  BY <1>1, SpentStays DEF Fingerprints
<1>3. RowVersions'
  <2>1. CASE UNCHANGED db
    <3>1. /\ Latest \in Nat /\ Latest' \in Nat /\ Latest <= Latest'
          /\ \A m \in Maps : \A v : Spent(m, v) => Spent(m, v)'
      BY <1>1, SpentStays, LatestGrows
    <3>2. \A m \in Maps : db[m].state = "invalid" => db[m].version \in Nat
      BY RowShape DEF Types, RowTypes
    <3> QED BY <2>1, <3>1, <3>2 DEF Fingerprints, RowVersions
  <2> QED BY <1>1, <2>1, ScanAnnounced, AnnouncedVersions DEF Fingerprints
<1>4. \/ UNCHANGED toImport
      \/ \E S \in SUBSET Present : toImport' = [m \in S |-> disk[m]]
  <2>1. \A u : {c \in Candidates(u) : ~Unchanged(c)} \in SUBSET Present
    BY DEF Candidates
  <2> QED BY <2>1, ScanAnnounced
<1>5. WorkVersions'
  <2>1. CASE UNCHANGED toImport
    BY <1>1, <2>1, SpentStays DEF Fingerprints
  <2>2. ASSUME NEW S \in SUBSET Present, toImport' = [m \in S |-> disk[m]]
        PROVE  WorkVersions'
    <3>1. /\ Latest \in Nat /\ Latest' \in Nat /\ Latest <= Latest'
          /\ \A m \in Maps : \A v : Spent(m, v) => Spent(m, v)'
      BY <1>1, SpentStays, LatestGrows
    <3>2. \A m \in S : /\ m \in Maps /\ disk[m] \in Nat /\ disk[m] # 0
                       /\ disk[m] <= Latest /\ disk[m] # archives[m]
      BY VersionFacts DEF Present, Fingerprints, FileVersions
    <3>3. \A m \in DOMAIN corruptNew : m \in Maps /\ corruptNew[m] \in Nat
      BY DEF Types, PassTypes
    <3> QED BY <1>1, <2>2, <3>1, <3>2, <3>3 DEF Fingerprints, WorkVersions
  <2> QED BY <1>4, <2>1, <2>2
<1> QED BY <1>2, <1>3, <1>5 DEF Fingerprints

-----------------------------------------------------------------------------
(* What a pass still has to do.                                              *)

Emptied == at \notin {"import", "finish"} \/ served
               => DOMAIN toImport = {} /\ DOMAIN corruptNew = {}

Unrated == at \notin {"rating", "finish"} => DOMAIN rated = {}

(* A map whose row a rejection would replace is shown with none.             *)
Hidden ==
    at = "import" =>
        \A m \in DOMAIN toImport \cup DOMAIN corruptNew :
            m \in DOMAIN corruptNew \/ mapsInDB[m] = NoRow => Visible(db[m]) = NoRow

Apart == DOMAIN toImport \cap DOMAIN corruptNew = {}

Work == Emptied /\ Unrated /\ Hidden /\ Apart

(* The row of a missing file goes at once, or nothing is written.            *)
LEMMA RemovedAtOnce ==
    ASSUME Types, NEW m \in Maps, SelectMap(m)
    PROVE  /\ \A n \in Maps \ {m} : db'[n] = db[n] /\ catalog'[n] = catalog[n]
           /\ \/ /\ disk[m] = 0 /\ db'[m] = NoRow /\ ghosts' = ghosts \cup {m}
                 /\ NoRequestMade
              \/ UNCHANGED <<db, catalog, ghosts>> /\ Request({})
<1>1. CASE /\ disk[m] = 0 /\ db' = Without({m}) /\ NoRequestMade
           /\ catalog' = [catalog EXCEPT ![m] = NoRow] /\ ghosts' = ghosts \cup {m}
  <2>1. \A n \in Maps : db'[n] = IF n = m THEN NoRow ELSE db[n]
    BY <1>1 DEF Without, With, Every
  <2> QED BY <1>1, <2>1 DEF Types, RowTypes
<1>2. CASE UNCHANGED <<db, catalog, ghosts>> /\ Request({})
  BY <1>2
<1> QED BY <1>1, <1>2 DEF SelectMap

LEMMA NextWork == Types /\ Progress /\ Work /\ [Next]_vars => Work'
<1> SUFFICES ASSUME Types /\ Progress /\ Work, [Next]_vars PROVE Work'
  OBVIOUS
<1>0. Types /\ Progress /\ Work
  OBVIOUS
<1>00. DOMAIN Nothing = {}
  BY DEF Nothing
<1>1. CASE UNCHANGED <<at, served, toImport, corruptNew, rated, mapsInDB, db>>
  BY <1>1, <1>0 DEF Work, Emptied, Unrated, Hidden, Apart
<1>2. CASE PublishCached
  <2>1. /\ at \notin {"import", "finish", "rating"} /\ at' \notin {"import", "finish", "rating"}
        /\ UNCHANGED <<toImport, corruptNew, rated>>
    BY <1>2 DEF PublishCached, Ready, GoTo
  <2> QED BY <1>0, <2>1 DEF Work, Emptied, Unrated, Hidden, Apart
<1>3. CASE SeedFromStable
  <2>1. /\ at \notin {"import", "finish", "rating"} /\ at' \notin {"import", "finish", "rating"}
        /\ UNCHANGED <<toImport, corruptNew, rated>>
    BY <1>3 DEF SeedFromStable, Going, Ready, GoTo
  <2> QED BY <1>0, <2>1 DEF Work, Emptied, Unrated, Hidden, Apart
<1>4. CASE UnpackMaps
  <2>1. /\ at \notin {"import", "finish", "rating"} /\ at' \notin {"import", "finish", "rating"}
        /\ UNCHANGED <<toImport, corruptNew, rated>>
    BY <1>4 DEF UnpackMaps, Going, Ready, GoTo
  <2> QED BY <1>0, <2>1 DEF Work, Emptied, Unrated, Hidden, Apart
<1>5. CASE Idle
  <2>1. at = "idle" /\ at' \in {"take", "done"} /\ UNCHANGED <<toImport, corruptNew, rated>>
    BY <1>5 DEF Idle, Ready, GoTo
  <2> QED BY <1>0, <2>1 DEF Work, Emptied, Unrated, Hidden, Apart
<1>6. CASE TakePending
  <2>1. at = "take" /\ at' \in {"idle", "arm"} /\ UNCHANGED <<toImport, corruptNew, rated>>
    BY <1>6 DEF TakePending, Ready, GoTo
  <2> QED BY <1>0, <2>1 DEF Work, Emptied, Unrated, Hidden, Apart
<1>7. CASE SetActiveCancel
  <2>1. at = "arm" /\ at' \in {"cache", "finish"} /\ UNCHANGED <<toImport, corruptNew, rated>>
    BY <1>7 DEF SetActiveCancel, Ready, InitDatabase, GoTo
  <2> QED BY <1>0, <2>1 DEF Work, Emptied, Unrated, Hidden, Apart
<1>8. CASE AutoRefresh
  <2>1. Request({}) /\ UNCHANGED <<at, toImport, corruptNew, rated, mapsInDB, db>>
    BY <1>8 DEF AutoRefresh
  <2>2. ~served'
    BY <2>1 DEF Request
  <2> QED BY <1>0, <2>1, <2>2 DEF Work, Emptied, Unrated, Hidden, Apart
<1>9. ASSUME NEW m \in Maps, NEW v \in Versions, DropArchive(m, v) PROVE Work'
  <2>1. Request({m}) /\ UNCHANGED <<at, toImport, corruptNew, rated, mapsInDB, db>>
    BY <1>9 DEF DropArchive
  <2>2. ~served'
    BY <2>1 DEF Request
  <2> QED BY <1>0, <2>1, <2>2 DEF Work, Emptied, Unrated, Hidden, Apart
<1>10. ASSUME NEW m \in Maps, SelectMap(m) PROVE Work'
  <2>1. UNCHANGED <<at, toImport, corruptNew, rated, mapsInDB>>
    BY <1>10 DEF SelectMap
  <2>2. \A n \in Maps : Visible(db[n]) = NoRow => Visible(db'[n]) = NoRow
    BY <1>0, <1>10, RemovedAtOnce, RowFacts DEF Visible
  <2>3. served' => served
    BY <1>10 DEF SelectMap, Request, NoRequestMade
  <2>4. DOMAIN toImport \subseteq Maps /\ DOMAIN corruptNew \subseteq Maps
    BY <1>0 DEF Types, PassTypes
  <2> QED BY <1>0, <2>1, <2>2, <2>3, <2>4 DEF Work, Emptied, Unrated, Hidden, Apart
<1>11. CASE Scan
  <2>1. at = "scan" /\ UNCHANGED <<corruptNew, rated, served>>
    BY <1>11 DEF Scan, Going, Ready
  <2>2. DOMAIN corruptNew = {} /\ DOMAIN toImport = {} /\ DOMAIN rated = {} /\ ~served
    BY <1>0, <2>1 DEF Work, Emptied, Unrated, Progress
  <2>3. CASE at' = "finish" /\ UNCHANGED toImport
    BY <1>0, <2>1, <2>2, <2>3 DEF Work, Emptied, Unrated, Hidden, Apart
  <2>4. ASSUME NEW u \in SUBSET Present, NEW removed \in SUBSET Maps,
               Announced(Every(removed, NoRow)),
               DOMAIN Every(removed, NoRow) = removed, mapsInDB' = db,
               toImport' = [m \in {c \in Candidates(u) : ~Unchanged(c)} |-> disk[m]],
               at' = IF DOMAIN toImport' = {} THEN "report" ELSE "import"
        PROVE  Work'
    <3>1. \A m \in Maps : db[m] = NoRow => db'[m] = NoRow
      <4> DEFINE change == Every(removed, NoRow)
      <4>1. DOMAIN change = removed /\ \A n \in removed : change[n] = NoRow
        BY DEF Every
      <4>2. Announced(change)
        BY <2>4
      <4> HIDE DEF change
      <4>3. \A n \in Maps : db'[n] = IF n \in DOMAIN change THEN change[n] ELSE db[n]
        BY <1>0, <4>2, Reported
      <4> QED BY <4>1, <4>3
    <3>2. DOMAIN toImport' \subseteq Maps
      BY <2>4 DEF Candidates, Present
    <3>3. Hidden'
      BY <2>1, <2>2, <2>4, <3>1, <3>2, VisibleFacts, RowFacts DEF Hidden, Visible
    <3> QED BY <2>1, <2>2, <2>4, <3>3 DEF Work, Emptied, Unrated, Apart
  <2> QED BY <1>0, <1>11, <2>3, <2>4, ScanAnnounced
<1>12. ASSUME NEW m \in Maps, Import(m) PROVE Work'
  <2>1. /\ at = "import" /\ at' = at /\ m \in DOMAIN toImport
        /\ UNCHANGED <<rated, served, mapsInDB>>
        /\ toImport' = [n \in DOMAIN toImport \ {m} |-> toImport[n]]
        /\ \/ UNCHANGED corruptNew
           \/ /\ UNCHANGED db /\ mapsInDB[m] = NoRow
              /\ DOMAIN corruptNew' = DOMAIN corruptNew \cup {m}
    BY <1>12 DEF Import, InsertMap, RejectMap, SkipMap, Going, Ready, KeepsRow
  <2>2. ~served
    BY <1>0, <2>1 DEF Progress
  <2>3. \A n \in Maps \ {m} : db'[n] = db[n]
    <3>1. CASE Announced(Every({m}, Row("complete", disk[m])))
      <4>1. DOMAIN Every({m}, Row("complete", disk[m])) = {m}
        BY DEF Every
      <4>2. \A n \in Maps : n \notin DOMAIN Every({m}, Row("complete", disk[m]))
                              => db'[n] = db[n]
        BY <1>0, <3>1, Reported
      <4> QED BY <3>1, <4>1, <4>2
    <3>2. CASE UNCHANGED db
      BY <3>2
    <3> QED BY <1>0, <1>12, <3>1, <3>2, ImportAnnounced DEF RejectMap, SkipMap
  <2>4. DOMAIN toImport \subseteq Maps /\ DOMAIN corruptNew \subseteq Maps
    BY <1>0 DEF Types, PassTypes
  <2>5. Hidden'
    BY <1>0, <2>1, <2>3, <2>4 DEF Work, Hidden, Apart
  <2> QED BY <1>0, <2>1, <2>2, <2>5 DEF Work, Emptied, Unrated, Apart
<1>13. CASE Tombstone
  <2>1. /\ at' = "report" /\ corruptNew' = Nothing /\ DOMAIN toImport = {} /\ at = "import"
        /\ UNCHANGED <<toImport, rated>>
    BY <1>13 DEF Tombstone, Going, Ready, GoTo
  <2> QED BY <1>0, <1>00, <2>1 DEF Work, Emptied, Unrated, Hidden, Apart
<1>14. CASE ReportDone
  <2>1. /\ at = "report" /\ at' \in {"finish", "rate"}
        /\ UNCHANGED <<toImport, corruptNew, rated>>
    BY <1>14 DEF ReportDone, Ready, GoTo
  <2> QED BY <1>0, <2>1 DEF Work, Emptied, Unrated, Hidden, Apart
<1>15. CASE LoadRatings
  <2>1. /\ at = "rate" /\ UNCHANGED <<toImport, corruptNew>>
        /\ at' = IF DOMAIN rated' = {} THEN "finish" ELSE "rating"
    BY <1>15 DEF LoadRatings, Going, Ready, GoTo
  <2> QED BY <1>0, <2>1 DEF Work, Emptied, Unrated, Hidden, Apart
<1>16. CASE WriteRatings
  <2>1. /\ at = "rating" /\ at' = "finish" /\ UNCHANGED <<toImport, corruptNew>>
    BY <1>16 DEF WriteRatings, Going, Ready, GoTo
  <2> QED BY <1>0, <2>1 DEF Work, Emptied, Unrated, Hidden, Apart
<1>17. CASE Finish
  <2>1. at' = "take" /\ toImport' = Nothing /\ corruptNew' = Nothing /\ rated' = Nothing
    BY <1>17 DEF Finish, GoTo
  <2> QED BY <1>00, <2>1 DEF Work, Emptied, Unrated, Hidden, Apart
<1>18. ASSUME NEW step \in Abortable, Abort(step) PROVE Work'
  <2>1. at' = "finish" /\ UNCHANGED <<toImport, corruptNew, served>> /\ at \in Abortable
    BY <1>18 DEF Abort, Ready, GoTo
  <2>2. served => DOMAIN toImport = {} /\ DOMAIN corruptNew = {}
    BY <1>0 DEF Work, Emptied
  <2> QED BY <1>0, <2>1, <2>2 DEF Work, Emptied, Unrated, Hidden, Apart
<1>19. \/ UNCHANGED vars
      \/ (\E m \in Maps, v \in Versions : ChangeFile(m, v)) \/ WatcherWakes
      \/ WatcherPosts \/ DrainEvent \/ Close \/ PostEvent
     => UNCHANGED <<at, served, toImport, corruptNew, rated, mapsInDB, db>>
  BY DEF ChangeFile, WatcherWakes, WatcherPosts, DrainEvent, Close, PostEvent
<1> QED BY <1>1, <1>2, <1>3, <1>4, <1>5, <1>6, <1>7, <1>8, <1>9, <1>10, <1>11,
           <1>12, <1>13, <1>14, <1>15, <1>16, <1>17, <1>18, <1>19
        DEF Next, User, Refresh, ImportBeatmaps, AtRest, Abortable

LEMMA NextFingerprints == Types /\ Work /\ Fingerprints /\ [Next]_vars => Fingerprints'
<1> SUFFICES ASSUME Types /\ Work /\ Fingerprints, [Next]_vars PROVE Fingerprints'
  OBVIOUS
<1>0. Types /\ Work /\ Fingerprints
  OBVIOUS
<1>1. CASE UNCHANGED <<disk, archives, acts, misread, db, toImport, corruptNew>>
  BY <1>1, <1>0
     DEF Fingerprints, FileVersions, RowVersions, WorkVersions, Spent, Latest
<1>2. ASSUME NEW m \in Maps, NEW v \in Versions, ChangeFile(m, v) PROVE Fingerprints'
  <2>1. /\ acts' = acts + 1 /\ v \in New(acts') \cup {0}
        /\ disk' = [disk EXCEPT ![m] = v] /\ UNCHANGED archives
        /\ UNCHANGED <<db, toImport, corruptNew>> /\ misread' = misread \ {m}
        /\ v # disk[m] /\ m \in Maps /\ disk \in [Maps -> Versions]
    BY <1>0, <1>2 DEF ChangeFile, Types, WorldTypes
  <2>2. disk' # disk /\ misread \subseteq misread' \cup {m}
    BY <2>1
  <2> QED BY <1>0, <2>1, <2>2, FileRenewed
<1>3. ASSUME NEW m \in Maps, NEW v \in Versions, DropArchive(m, v) PROVE Fingerprints'
  <2>1. /\ acts' = acts + 1 /\ v \in New(acts')
        /\ archives' = [archives EXCEPT ![m] = v] /\ UNCHANGED <<disk, misread>>
        /\ UNCHANGED <<db, toImport, corruptNew>>
    BY <1>3 DEF DropArchive
  <2>2. v # 0
    BY <1>0, <2>1, NewVersions
  <2> QED BY <1>0, <2>1, <2>2, FileRenewed
<1>4. ASSUME NEW m \in Maps, SelectMap(m) PROVE Fingerprints'
  <2>1. UNCHANGED <<disk, archives, misread, toImport, corruptNew>> /\ acts' = acts + 1
    BY <1>4 DEF SelectMap
  <2>2. /\ Latest \in Nat /\ Latest' \in Nat /\ Latest <= Latest'
        /\ \A n \in Maps : \A w : Spent(n, w) => Spent(n, w)'
        /\ FileVersions' /\ WorkVersions'
    BY <1>0, <2>1, SpentStays, LatestGrows DEF Fingerprints
  <2>3. \A n \in Maps : db[n].state = "invalid" => db[n].version \in Nat
    BY <1>0, RowShape DEF Types, RowTypes
  <2>4. \A n \in Maps : db'[n] = NoRow \/ db'[n] = db[n]
    BY <1>0, <1>4, RemovedAtOnce
  <2>5. RowVersions'
    BY <1>0, <2>2, <2>3, <2>4, RowFacts DEF Fingerprints, RowVersions
  <2> QED BY <2>2, <2>5 DEF Fingerprints
<1>5. CASE SetActiveCancel \/ PublishCached
  <2>1. /\ UNCHANGED <<disk, archives, misread, db, toImport, corruptNew>>
        /\ acts' \in {acts, acts + 1}
    BY <1>5, PassCosts DEF SetActiveCancel, InitDatabase, Failure, PublishCached, PassStep
  <2>2. /\ Latest \in Nat /\ Latest' \in Nat /\ Latest <= Latest'
        /\ \A n \in Maps : \A w : Spent(n, w) => Spent(n, w)'
        /\ FileVersions' /\ WorkVersions'
    BY <1>0, <2>1, SpentStays, LatestGrows DEF Fingerprints
  <2>3. \A n \in Maps : db[n].state = "invalid" => db[n].version \in Nat
    BY <1>0, RowShape DEF Types, RowTypes
  <2>4. RowVersions'
    BY <1>0, <2>1, <2>2, <2>3 DEF Fingerprints, RowVersions
  <2> QED BY <2>2, <2>4 DEF Fingerprints
<1>6. CASE SeedFromStable
  <2>1. UNCHANGED <<disk, archives, misread, toImport, corruptNew>> /\ acts' \in {acts, acts + 1}
    BY <1>6, PassCosts DEF SeedFromStable, PassStep
  <2>2. RowVersions'
    BY <1>0, <1>6, <2>1, SeedsAnnounced, AnnouncedVersions DEF Fingerprints
  <2> QED BY <1>0, <2>1, <2>2, SpentStays DEF Fingerprints
<1>7. CASE WriteRatings
  <2>1. UNCHANGED <<disk, archives, misread, toImport, corruptNew>> /\ acts' \in {acts, acts + 1}
    BY <1>7, PassCosts DEF WriteRatings, PassStep
  <2>2. RowVersions'
    BY <1>0, <1>7, <2>1, RatingsAnnounced, AnnouncedVersions DEF Fingerprints
  <2> QED BY <1>0, <2>1, <2>2, SpentStays DEF Fingerprints
<1>8. CASE UnpackMaps
  <2>1. DOMAIN toImport = {} /\ DOMAIN corruptNew = {}
    BY <1>0, <1>8 DEF UnpackMaps, Going, Ready, Work, Emptied
  <2> QED BY <1>0, <1>8, <2>1, UnpackVersions
<1>9. CASE Scan
  BY <1>0, <1>9, ScanVersions
<1>10. ASSUME NEW m \in Maps, Import(m) PROVE Fingerprints'
  BY <1>0, <1>10, ImportVersions DEF Work, Apart
<1>11. CASE Tombstone
  BY <1>0, <1>11, TombstoneVersions
<1>12. CASE Finish
  <2>1. /\ UNCHANGED <<disk, archives, acts, misread, db>>
        /\ toImport' = Nothing /\ corruptNew' = Nothing /\ DOMAIN Nothing = {}
    BY <1>12 DEF Finish, Nothing
  <2> QED BY <1>0, <2>1 DEF Fingerprints, FileVersions, RowVersions, WorkVersions, Spent, Latest
<1>13. \/ UNCHANGED vars
      \/ WatcherWakes \/ WatcherPosts \/ DrainEvent \/ AutoRefresh \/ Close
      \/ PostEvent \/ Idle \/ TakePending \/ ReportDone
      \/ LoadRatings \/ (\E step \in Abortable : Abort(step))
     => UNCHANGED <<disk, archives, acts, misread, db, toImport, corruptNew>>
  BY DEF WatcherWakes, WatcherPosts, DrainEvent, AutoRefresh, Request, Close,
         PostEvent, Idle, Ready, GoTo, TakePending, ReportDone, Publish,
         LoadRatings, Going, Abort
<1> QED BY <1>1, <1>2, <1>3, <1>4, <1>5, <1>6, <1>7, <1>8, <1>9, <1>10, <1>11,
           <1>12, <1>13
        DEF Next, User, Refresh, ImportBeatmaps, AtRest, Abortable

-----------------------------------------------------------------------------
(* What the launcher is told.                                                *)

Told == databaseReady /\ ~closed /\ pending = NoRequest /\ at \notin {"arm", "cache"}

(* From the cached snapshot on, as long as nothing else is asked for, the    *)
(* last word on every map is true, if no report of it was lost.              *)
Listing == Told => \A m \in Maps : TrueWord(m)

(* Then what is under way is of the latest generation.                       *)
LEMMA LatestPass ==
    ASSUME Requested, pending = NoRequest, at \in Reporting
    PROVE  request.generation = catalogGeneration
BY DEF Requested, Reporting

(* The cached snapshot says everything, or nothing is told.                  *)
LEMMA CacheTells ==
    ASSUME Types, Requested, NotYet, PublishCached, Told', untold' # Maps
    PROVE  \A m \in Maps : LastWord(m, Visible(db[m]))'
<1>1. /\ at = "cache" /\ UNCHANGED <<catalogGeneration, pending, request, db>>
      /\ SnapshotWanted => PublishAlways(Snapshot(db))
  BY DEF PublishCached, Ready
<1>2. request.generation = catalogGeneration
  BY <1>1, LatestPass DEF Told, Reporting
<1>3. SnapshotWanted
  BY <1>1, <1>2 DEF NotYet, Unseen, NoneFresh, SnapshotWanted
<1>4. /\ event' \in Posts /\ event' # NoEvent /\ event'.e \in Reports
      /\ event'.e.generation = request.generation /\ DOMAIN event'.e.rows = Maps
      /\ \A m \in Maps : event'.e.rows[m] = Visible(db[m])
  BY <1>1, <1>3, CachePosted
<1>5. Fresh(event.e)'
  <2>1. IsReport(event'.e) /\ catalogGeneration \in Nat
    BY <1>4, EventFacts DEF Events, IsReport, Types, RequestTypes
  <2> QED BY <1>1, <1>2, <1>4, <2>1 DEF Fresh, Current
<1> QED BY <1>1, <1>4, <1>5 DEF LastWord, EventSays, Says

(* A step that tells of what it writes, and shows nothing itself.            *)
LEMMA WriteTells ==
    ASSUME Types, Requested, Listing, Told', NEW change, Announced(change),
           at \in Reporting \ {"cache"},
           UNCHANGED <<catalogGeneration, runtimeEvents, catalog, pending, databaseReady,
                       closed, ghosts>>
    PROVE  Listing'
<1>1. Told /\ request.generation = catalogGeneration
  BY LatestPass DEF Told, Reporting
<1> QED BY <1>1, ReportKeepsWord DEF Listing

(* A step that neither writes nor tells.                                     *)
LEMMA QuietStepTells ==
    ASSUME Listing, Told' => Told,
           UNCHANGED <<catalogGeneration, runtimeEvents, catalog, ghosts, untold>>,
           \A m \in Maps : Visible(db'[m]) = Visible(db[m]),
           \/ UNCHANGED event
           \/ event = NoEvent /\ event' # NoEvent /\ ~IsReport(event'.e)
           \/ event = NoEvent /\ event' # NoEvent /\ DOMAIN event'.e.rows = {}
    PROVE  Listing'
<1> SUFFICES ASSUME NEW m \in Maps, NEW row, LastWord(m, row)
             PROVE  LastWord(m, row)'
  BY DEF Listing, TrueWord
<1>1. LastWord(m, row)
  OBVIOUS
<1>2. CASE UNCHANGED event
  <2>1. EventSays(m)' <=> EventSays(m)
    BY <1>2 DEF EventSays, Says, Fresh, Current
  <2> QED BY <1>1, <1>2, <2>1, SameWord
<1>3. CASE ~EventSays(m) /\ ~EventSays(m)'
  BY <1>1, <1>3, SameWord
<1> QED BY <1>2, <1>3 DEF EventSays, Says, Fresh

LEMMA NextListing ==
    Types /\ Requested /\ Cancelled /\ Progress /\ NotYet /\ Work /\ Listing
        /\ [Next]_vars => Listing'
<1> SUFFICES ASSUME Types, Requested, Cancelled, Progress, NotYet, Work, Listing,
                    [Next]_vars, Told'
             PROVE  Listing'
  BY DEF Listing
<1>1. CASE UNCHANGED vars
  BY <1>1, QuietStepTells DEF Told
<1>2. CASE (\E m \in Maps, v \in Versions : ChangeFile(m, v)) \/ WatcherWakes
  <2>1. UNCHANGED <<catalogGeneration, runtimeEvents, catalog, ghosts, untold, db, event,
                    databaseReady, closed, pending, at>>
    BY <1>2 DEF ChangeFile, WatcherWakes
  <2> QED BY <2>1, QuietStepTells DEF Told
<1>3. CASE AutoRefresh \/ (\E m \in Maps, v \in Versions : DropArchive(m, v)) \/ Close
  <2>1. CASE Close
    BY <2>1 DEF Close, Told
  <2>2. CASE AutoRefresh
    BY <2>2, RequestMade DEF AutoRefresh, Told, Types
  <2>3. ASSUME NEW m \in Maps, NEW v \in Versions, DropArchive(m, v) PROVE FALSE
    <3>1. {m} \in SUBSET Callbacks /\ Request({m})
      BY <2>3 DEF Callbacks, DropArchive
    <3> QED BY <3>1, RequestMade DEF Told, Types
  <2> QED BY <1>3, <2>1, <2>2, <2>3
<1>4. ASSUME NEW m \in Maps, SelectMap(m) PROVE Listing'
  <2>1. UNCHANGED <<runtimeEvents, event, databaseReady, closed, at, untold>>
    BY <1>4 DEF SelectMap
  <2>2. CASE Request({})
    BY <2>2, RequestMade DEF Told, Types
  <2>3. CASE disk[m] = 0 /\ db'[m] = NoRow /\ ghosts' = ghosts \cup {m} /\ NoRequestMade
    <3>1. UNCHANGED <<catalogGeneration, pending>> /\ Told
      BY <2>1, <2>3 DEF NoRequestMade, Told
    <3>2. ASSUME NEW n \in Maps \ {m} PROVE TrueWord(n)'
      <4>1. db'[n] = db[n] /\ catalog'[n] = catalog[n] /\ TrueWord(n)
        BY <1>4, <3>1, RemovedAtOnce DEF Listing
      <4>2. EventSays(n)' <=> EventSays(n)
        BY <2>1, <3>1 DEF EventSays, Says, Fresh, Current
      <4>3. LastWord(n, Visible(db[n])) => LastWord(n, Visible(db[n]))'
        BY <2>1, <3>1, <4>1, <4>2, SameWord
      <4> QED BY <2>1, <2>3, <4>1, <4>3 DEF TrueWord
    <3>3. TrueWord(m)'
      BY <2>3, RowFacts DEF TrueWord, Visible
    <3> QED BY <3>2, <3>3 DEF Listing
  <2> QED BY <1>4, <2>2, <2>3, RemovedAtOnce
<1>5. CASE DrainEvent
  <2>1. UNCHANGED <<ghosts, untold, db, databaseReady, closed, pending, at>>
    BY <1>5 DEF DrainEvent
  <2>2. Told
    BY <2>1 DEF Told
  <2> QED BY <1>5, <2>1, <2>2, DrainKeepsWord DEF Listing, TrueWord
<1>6. CASE WatcherPosts
  <2>1. UNCHANGED <<catalogGeneration, catalog, ghosts, untold, db, event, databaseReady,
                    closed, pending, at>>
    BY <1>6 DEF WatcherPosts
  <2>2. Told
    BY <2>1 DEF Told
  <2>3. CASE HasRoom /\ runtimeEvents' = Append(runtimeEvents, [kind |-> "changed"])
    BY <2>1, <2>2, <2>3, PushKeepsWord, ChangedFacts DEF Listing, TrueWord
  <2>4. CASE UNCHANGED runtimeEvents
    BY <2>1, <2>2, <2>4, QuietStepTells DEF Told
  <2> QED BY <1>6, <2>3, <2>4 DEF WatcherPosts
<1>7. CASE PostEvent
  <2>1. UNCHANGED <<catalogGeneration, catalog, ghosts, untold, db, databaseReady, closed,
                    canceled, pending, at>>
    BY <1>7 DEF PostEvent
  <2>2. Told
    BY <2>1 DEF Told
  <2>3. event # NoEvent /\ event' = NoEvent /\ event.e \in Events
    BY <1>7, Posted
  <2>4. CASE HasRoom /\ runtimeEvents' = Append(runtimeEvents, event.e)
    BY <2>1, <2>2, <2>3, <2>4, PushKeepsWord DEF Listing, TrueWord
  <2>5. CASE ContextDone
    BY <2>2, <2>5 DEF ContextDone, Told, Cancelled
  <2> QED BY <1>7, <2>4, <2>5, Posted
<1>8. CASE Idle \/ Finish \/ (\E step \in Abortable : Abort(step)) \/ LoadRatings
  <2>1. UNCHANGED <<catalogGeneration, runtimeEvents, catalog, ghosts, untold, db, event,
                    databaseReady, closed, pending>>
    BY <1>8 DEF Idle, Finish, Abort, LoadRatings
  <2>2. at \notin {"arm", "cache"}
    BY <1>8 DEF Idle, Finish, Abort, Abortable, LoadRatings, Going, Ready
  <2> QED BY <2>1, <2>2, QuietStepTells DEF Told
<1>9. CASE TakePending
  <2>1. /\ UNCHANGED <<catalogGeneration, runtimeEvents, catalog, ghosts, untold, db, event,
                       databaseReady, closed>>
        /\ at = "take" /\ (at' = "arm" \/ UNCHANGED pending)
    BY <1>9 DEF TakePending, Ready, GoTo
  <2> QED BY <2>1, QuietStepTells DEF Told
<1>10. CASE SetActiveCancel
  BY <1>10 DEF SetActiveCancel, InitDatabase, GoTo, Told
<1>11. CASE PublishCached
  BY <1>11, CacheTells DEF Listing, TrueWord
<1>12. CASE SeedFromStable \/ UnpackMaps
  <2>1. /\ at \in Reporting \ {"cache"}
        /\ UNCHANGED <<catalogGeneration, runtimeEvents, catalog, pending, databaseReady,
                       closed, ghosts>>
    BY <1>12 DEF SeedFromStable, UnpackMaps, Going, Ready, Reporting
  <2> QED BY <1>12, <2>1, SeedsAnnounced, WriteTells
<1>13. CASE Scan
  <2>1. /\ at \in Reporting \ {"cache"} /\ event = NoEvent
        /\ UNCHANGED <<catalogGeneration, runtimeEvents, catalog, pending, databaseReady,
                       closed, ghosts>>
    BY <1>13 DEF Scan, Going, Ready, Reporting
  <2>2. CASE PublishAlways(CatalogError) /\ UNCHANGED <<db, untold>>
    <3>1. event' # NoEvent /\ ~IsReport(event'.e)
      BY <2>2, ErrorPosted
    <3> QED BY <2>1, <2>2, <3>1, QuietStepTells DEF Told, Reporting
  <2>3. ASSUME NEW change, Announced(change) PROVE Listing'
    BY <2>1, <2>3, WriteTells
  <2> QED BY <1>13, <2>2, <2>3, ScanAnnounced DEF PublishAlways
<1>14. ASSUME NEW m \in Maps, Import(m) PROVE Listing'
  <2>1. /\ at \in Reporting \ {"cache"} /\ UNCHANGED at
        /\ UNCHANGED <<catalogGeneration, runtimeEvents, catalog, pending, databaseReady,
                       closed, ghosts>>
    BY <1>14 DEF Import, Going, Ready, Reporting
  <2>2. CASE UNCHANGED <<db, event, untold>>
    BY <2>1, <2>2, QuietStepTells DEF Told
  <2>3. ASSUME NEW change, Announced(change) PROVE Listing'
    BY <2>1, <2>3, WriteTells
  <2> QED BY <1>14, <2>2, <2>3, ImportAnnounced DEF RejectMap, SkipMap
<1>15. CASE Tombstone
  <2>1. /\ at = "import"
        /\ UNCHANGED <<catalogGeneration, runtimeEvents, catalog, ghosts, untold, event,
                       pending, databaseReady, closed>>
    BY <1>15 DEF Tombstone, Going, Ready
  <2>2. PICK S \in SUBSET DOMAIN corruptNew :
           db' = [m \in Maps |-> IF m \in S THEN Row("invalid", corruptNew[m]) ELSE db[m]]
    BY <1>15, TombstoneWrites
  <2>3. \A m \in DOMAIN corruptNew : Visible(db[m]) = NoRow
    BY <2>1 DEF Work, Hidden
  <2>4. \A m \in Maps : Visible(db'[m]) = Visible(db[m])
    BY <2>2, <2>3, RowFacts DEF Visible
  <2> QED BY <2>1, <2>4, QuietStepTells DEF Told
<1>16. CASE ReportDone
  <2>1. /\ at = "report" /\ event = NoEvent
        /\ UNCHANGED <<catalogGeneration, runtimeEvents, catalog, ghosts, untold, db, pending,
                       databaseReady, closed>>
    BY <1>16 DEF ReportDone, Ready
  <2>2. event' # NoEvent /\ DOMAIN event'.e.rows = {}
    BY <1>16, DonePosted DEF ReportDone
  <2> QED BY <2>1, <2>2, QuietStepTells DEF Told
<1>17. CASE WriteRatings
  <2>1. /\ at \in Reporting \ {"cache"}
        /\ UNCHANGED <<catalogGeneration, runtimeEvents, catalog, pending, databaseReady,
                       closed, ghosts>>
    BY <1>17 DEF WriteRatings, Going, Ready, Reporting
  <2> QED BY <1>17, <2>1, RatingsAnnounced, WriteTells
<1> QED BY <1>1, <1>2, <1>3, <1>4, <1>5, <1>6, <1>7, <1>8, <1>9, <1>10, <1>11, <1>12,
           <1>13, <1>14, <1>15, <1>16, <1>17
        DEF Next, User, Refresh, ImportBeatmaps, AtRest, Abortable

-----------------------------------------------------------------------------
(* The Songs directory.  Once a pass of the latest generation has compared,  *)
(* a map stands, settled or waiting for its import, if no change of it was   *)
(* missed; and, if its file was read then and is the one that was read,      *)
(* whatever happened to other maps.  A map that was skipped or misread only  *)
(* has its work done.                                                        *)

Newest == request.generation = catalogGeneration
Compared == served \/ (at \in {"import", "report"} /\ Newest)
Noticed == fsEvents \/ watch # "none" \/ beatmapDirUpdated
Calm(m) == m \notin unread \cup silent \cup gone
Watched(m) == Calm(m) \/ (~Noticed /\ ~closed /\ unread = {} /\ m \notin silent)

Matches(m) == IF skipMapUpdate THEN disk[m] # 0 => db[m] # NoRow ELSE Agrees(m)
Settled(m) == \/ m \in DOMAIN toImport
              \/ m \in DOMAIN corruptNew /\ disk[m] \in Corrupt
              \/ Matches(m)

Waits(m) == /\ m \in DOMAIN toImport \cup DOMAIN corruptNew => disk[m] # 0
            /\ m \in DOMAIN toImport /\ mapsInDB[m] # NoRow => db[m] # NoRow

RatedNow(m) == m \in DOMAIN rated /\ at = "rating"
                   => rated[m] = Row("complete", disk[m]) /\ disk[m] \notin Corrupt \cup {0}

Excused(m) == m \in skipped \cup misread

Stands(m) == (~Excused(m) => Settled(m)) /\ Waits(m) /\ RatedNow(m)

Directory == Compared => \A m \in Maps : /\ Watched(m) => Stands(m)
                                         /\ Calm(m) => disk[m] # 0

(* A step that leaves file, row and work of a map as they are.               *)
LEMMA SameStands ==
    ASSUME NEW m \in Maps, Stands(m), disk'[m] = disk[m], db'[m] = db[m],
           at' = "rating" => at = "rating", Excused(m) => Excused(m)',
           UNCHANGED <<skipMapUpdate, mapsInDB, toImport, corruptNew, rated>>
    PROVE  Stands(m)'
BY DEF Stands, Settled, Matches, Agrees, Waits, RatedNow

LEMMA SameDirectory ==
    ASSUME Directory, Compared' => Compared, ~Noticed' /\ ~closed' => ~Noticed /\ ~closed,
           at' = "rating" => at = "rating",
           UNCHANGED <<disk, db, skipMapUpdate, mapsInDB, toImport, corruptNew, rated,
                       unread, silent, gone, skipped, misread>>
    PROVE  Directory'
<1>1. ASSUME NEW m \in Maps
      PROVE  /\ Watched(m)' => Watched(m)
             /\ Calm(m)' <=> Calm(m)
             /\ Excused(m)' <=> Excused(m)
  BY DEF Watched, Calm, Excused
<1> QED BY <1>1, SameStands DEF Directory

LEMMA CorruptFacts == 0 \notin Corrupt /\ \A v \in Corrupt : v \in Nat /\ v # 0
BY CatalogAssumption DEF Corrupt

(* The scan finds every file that has no row of its version.                 *)
LEMMA ScanSettles ==
    ASSUME Types, Fingerprints, Work, Scan, Progress
    PROVE  Directory'
<1>1. /\ at = "scan" /\ UNCHANGED <<disk, skipMapUpdate, corruptNew, served, rated, misread>>
      /\ ~served /\ DOMAIN corruptNew = {}
  BY DEF Scan, Going, Ready, Progress, Work, Emptied
<1>2. CASE at' = "finish"
  BY <1>1, <1>2 DEF Directory, Compared
<1>3. ASSUME NEW u \in SUBSET Present, NEW removed \in SUBSET Maps, NEW m \in Maps,
             Announced(Every(removed, NoRow)), removed \in {Leftover(u), {}},
             DOMAIN Every(removed, NoRow) = removed,
             toImport' = [n \in {c \in Candidates(u) : ~Unchanged(c)} |-> disk[n]],
             mapsInDB' = db, unread' = u, silent' = {}, gone' = Maps \ Present,
             skipped' = Leftover(u) \ removed,
             at' = IF DOMAIN toImport' = {} THEN "report" ELSE "import",
             Watched(m)'
      PROVE  Stands(m)' /\ (Calm(m)' => disk'[m] # 0)
  <2>1. /\ u = {} \/ (disk[m] # 0 /\ m \notin u)
        /\ Calm(m)' => disk[m] # 0
    BY <1>3 DEF Watched, Calm, Present
  <2>2. /\ db'[m] = IF m \in removed THEN NoRow ELSE db[m]
        /\ DOMAIN toImport' = {c \in Candidates(u) : ~Unchanged(c)}
    <3> DEFINE change == Every(removed, NoRow)
    <3>1. DOMAIN change = removed /\ \A n \in removed : change[n] = NoRow
      BY <1>3 DEF Every
    <3>2. Announced(change)
      BY <1>3
    <3> HIDE DEF change
    <3>3. db'[m] = IF m \in DOMAIN change THEN change[m] ELSE db[m]
      BY <3>2, Reported
    <3>4. db'[m] = IF m \in removed THEN NoRow ELSE db[m]
      BY <3>1, <3>3
    <3>5. DOMAIN toImport' = {c \in Candidates(u) : ~Unchanged(c)}
      BY <1>3
    <3> QED BY <3>4, <3>5
  <2>3. m \in Leftover(u) <=> ~skipMapUpdate /\ u = {} /\ db[m] # NoRow /\ disk[m] = 0
    BY <2>1 DEF Leftover, Known, Present
  <2>4. m \in Candidates(u) <=>
            disk[m] # 0 /\ (skipMapUpdate => db[m] = NoRow \/ m \in mustCheck)
    BY <2>1 DEF Candidates, Known, Present
  <2>10. m \in removed => m \in Leftover(u)
    BY <1>3
  <2>5. Waits(m)'
    BY <1>1, <1>3, <2>2, <2>3, <2>4, <2>10 DEF Waits
  <2>6. ASSUME m \notin DOMAIN toImport', ~Excused(m)' PROVE Matches(m)'
    <3>0. m \notin misread /\ (m \in Leftover(u) => m \in removed)
      BY <1>1, <1>3, <2>6 DEF Excused
    <3>1. m \notin Candidates(u) \/ Unchanged(m)
      BY <2>2, <2>6
    <3>2. CASE skipMapUpdate
      <4>1. disk[m] # 0 => db[m] # NoRow
        BY <2>4, <3>1, <3>2, RowFacts DEF Unchanged
      <4> QED BY <1>1, <2>2, <2>3, <2>10, <3>2, <4>1 DEF Matches
    <3>3. CASE ~skipMapUpdate /\ disk[m] = 0
      BY <1>1, <2>1, <2>2, <2>3, <3>0, <3>3 DEF Matches, Agrees
    <3>4. CASE ~skipMapUpdate /\ disk[m] # 0
      <4>1. db[m] \in {Row("complete", disk[m]), Row("invalid", disk[m])} /\ db'[m] = db[m]
        BY <2>2, <2>3, <2>4, <2>10, <3>1, <3>4 DEF Unchanged
      <4>2. disk[m] \in Corrupt => db'[m] # NoRow
        BY <4>1, RowFacts
      <4>3. db[m] = Row("invalid", disk[m]) => disk[m] \in Corrupt
        BY <3>0, RowFacts DEF Fingerprints, RowVersions, Spent
      <4> QED BY <1>1, <3>4, <4>1, <4>2, <4>3 DEF Matches, Agrees
    <3> QED BY <3>2, <3>3, <3>4
  <2>7. at' # "rating"
    BY <1>3
  <2> QED BY <1>1, <2>1, <2>5, <2>6, <2>7 DEF Stands, Settled, RatedNow
<1>4. ASSUME NEW m \in Maps, Calm(m)' PROVE Watched(m)'
  BY <1>4 DEF Watched
<1> QED BY <1>2, <1>3, <1>4, ScanAnnounced DEF Directory

(* An import settles its map, or leaves it to the tombstones.                *)
LEMMA ImportSettles ==
    ASSUME Types, Work, Directory, NEW m \in Maps, Import(m)
    PROVE  Directory'
<1>1. /\ at = "import" /\ m \in DOMAIN toImport
      /\ UNCHANGED <<at, disk, skipMapUpdate, mapsInDB, rated, silent, gone, served, request,
                     catalogGeneration, fsEvents, watch, beatmapDirUpdated, closed, unread>>
      /\ toImport' = [n \in DOMAIN toImport \ {m} |-> toImport[n]]
  BY DEF Import, Going, Ready
<1>2. /\ Compared' <=> Compared
      /\ \A n \in Maps : (Watched(n)' <=> Watched(n)) /\ (Calm(n)' <=> Calm(n))
  BY <1>1 DEF Compared, Newest, Noticed, Watched, Calm
<1>3. DOMAIN toImport \subseteq Maps /\ DOMAIN corruptNew \subseteq Maps
  BY DEF Types, PassTypes
<1>4. ASSUME /\ Announced(Every({m}, Row("complete", disk[m])))
             /\ disk[m] \notin Corrupt /\ disk[m] # 0
             /\ misread' = misread \ {m} /\ UNCHANGED <<corruptNew, skipped>>
      PROVE  /\ \A n \in Maps \ {m} : db'[n] = db[n] /\ (Excused(n)' <=> Excused(n))
             /\ Stands(m) => Stands(m)'
  <2>1. DOMAIN Every({m}, Row("complete", disk[m])) = {m}
        /\ Every({m}, Row("complete", disk[m]))[m] = Row("complete", disk[m])
    BY DEF Every
  <2>2. \A n \in Maps : db'[n] = IF n \in DOMAIN Every({m}, Row("complete", disk[m]))
                                 THEN Every({m}, Row("complete", disk[m]))[n] ELSE db[n]
    BY <1>4, Reported
  <2>3. db'[m] = Row("complete", disk[m]) /\ \A n \in Maps \ {m} : db'[n] = db[n]
    BY <2>1, <2>2
  <2>4. Settled(m)'
    BY <1>1, <1>4, <2>3, RowFacts DEF Settled, Matches, Agrees
  <2>5. Waits(m)'
    BY <1>1, <1>4 DEF Waits
  <2> QED BY <1>1, <1>4, <2>3, <2>4, <2>5 DEF Stands, RatedNow, Excused
<1>5. ASSUME RejectMap(m)
      PROVE  /\ \A n \in Maps \ {m} : db'[n] = db[n] /\ (Excused(n)' <=> Excused(n))
             /\ Stands(m) => Stands(m)'
  <2>1. UNCHANGED <<db, skipped>> /\ disk[m] # 0
        /\ misread' = IF disk[m] \in Corrupt THEN misread \ {m} ELSE misread \cup {m}
    BY <1>5 DEF RejectMap
  <2>2. ASSUME Stands(m) PROVE Stands(m)'
    <3>1. Waits(m)'
      BY <1>1, <2>1 DEF Waits
    <3>2. CASE disk[m] \notin Corrupt
      <4>1. Excused(m)'
        BY <2>1, <3>2 DEF Excused
      <4> QED BY <1>1, <2>2, <3>1, <4>1 DEF Stands, RatedNow
    <3>3. CASE disk[m] \in Corrupt /\ mapsInDB[m] # NoRow
      <4>1. db'[m] # NoRow /\ disk'[m] # 0 /\ disk'[m] \in Corrupt
        BY <1>1, <2>1, <2>2, <3>3 DEF Stands, Waits
      <4> QED BY <1>1, <2>2, <3>1, <4>1 DEF Stands, Settled, Matches, Agrees, RatedNow
    <3>4. CASE disk[m] \in Corrupt /\ mapsInDB[m] = NoRow
      <4>1. m \in DOMAIN corruptNew'
        BY <1>5, <3>4 DEF RejectMap, KeepsRow
      <4> QED BY <1>1, <2>2, <3>1, <3>4, <4>1 DEF Stands, Settled, RatedNow
    <3> QED BY <3>2, <3>3, <3>4
  <2> QED BY <2>1, <2>2 DEF Excused
<1>6. ASSUME SkipMap(m)
      PROVE  /\ \A n \in Maps \ {m} : db'[n] = db[n] /\ (Excused(n)' <=> Excused(n))
             /\ Stands(m) => Stands(m)'
  <2>1. /\ UNCHANGED <<db, misread, corruptNew>> /\ skipped' = skipped \cup {m}
    BY <1>6 DEF SkipMap
  <2>2. Excused(m)' /\ \A n \in Maps \ {m} : Excused(n)' <=> Excused(n)
    BY <2>1 DEF Excused
  <2> QED BY <1>1, <2>1, <2>2 DEF Stands, Waits, RatedNow
<1>7. /\ \A n \in Maps \ {m} : db'[n] = db[n] /\ (Excused(n)' <=> Excused(n))
      /\ Stands(m) => Stands(m)'
  BY <1>4, <1>5, <1>6, ImportAnnounced
<1>8. /\ DOMAIN corruptNew \subseteq DOMAIN corruptNew'
      /\ DOMAIN corruptNew' \subseteq DOMAIN corruptNew \cup {m}
  BY DEF Import, InsertMap, RejectMap, SkipMap
<1>9. ASSUME NEW n \in Maps \ {m}, Stands(n) PROVE Stands(n)'
  <2>1. /\ db'[n] = db[n] /\ (n \in DOMAIN toImport <=> n \in DOMAIN toImport')
        /\ (n \in DOMAIN corruptNew <=> n \in DOMAIN corruptNew')
    BY <1>1, <1>7, <1>8, <1>9
  <2> QED BY <1>1, <1>7, <1>9, <2>1 DEF Stands, Settled, Matches, Agrees, Waits, RatedNow
<1> QED BY <1>1, <1>2, <1>7, <1>9 DEF Directory

(* The tombstones settle the rest.                                           *)
LEMMA TombstoneSettles ==
    ASSUME Types, Work, Directory, Tombstone
    PROVE  Directory'
<1>1. /\ at = "import" /\ at' = "report" /\ DOMAIN toImport = {}
      /\ UNCHANGED <<disk, skipMapUpdate, mapsInDB, toImport, silent, gone, served, request,
                     catalogGeneration, fsEvents, watch, beatmapDirUpdated, closed, unread,
                     misread>>
      /\ corruptNew' = Nothing /\ DOMAIN Nothing = {}
  BY DEF Tombstone, Going, Ready, GoTo, Nothing
<1>0. PICK S \in {DOMAIN corruptNew, {}} :
         /\ \A m \in Maps : db'[m] = IF m \in S THEN Row("invalid", corruptNew[m]) ELSE db[m]
         /\ skipped' = skipped \cup (DOMAIN corruptNew \ S)
  BY TombstoneWrites
<1>2. /\ Compared' => Compared
      /\ \A n \in Maps : /\ Watched(n)' <=> Watched(n)
                         /\ Calm(n)' <=> Calm(n)
                         /\ Excused(n)' <=> Excused(n) \/ n \in DOMAIN corruptNew \ S
  BY <1>0, <1>1 DEF Compared, Newest, Noticed, Watched, Calm, Excused
<1>3. ASSUME NEW m \in Maps, Stands(m) PROVE Stands(m)'
  <2>1. CASE m \in S
    <3>1. disk[m] # 0 /\ Visible(db[m]) = NoRow
      BY <1>0, <1>1, <1>3, <2>1 DEF Stands, Waits, Work, Hidden
    <3>2. db'[m] # NoRow
      BY <1>0, <1>1, <2>1, RowFacts
    <3>3. ~Excused(m) => disk[m] \in Corrupt \/ skipMapUpdate
      BY <1>1, <1>3, <3>1, RowFacts DEF Stands, Settled, Matches, Agrees, Visible
    <3>4. ~Excused(m) => Matches(m)'
      BY <1>1, <3>1, <3>2, <3>3 DEF Matches, Agrees
    <3> QED BY <1>1, <1>2, <3>4 DEF Stands, Settled, Waits, RatedNow
  <2>2. CASE m \notin S
    <3>1. ASSUME ~Excused(m)' PROVE Matches(m)'
      <4>1. Settled(m) /\ m \notin DOMAIN corruptNew /\ db'[m] = db[m]
        BY <1>0, <1>2, <1>3, <2>2, <3>1 DEF Stands
      <4> QED BY <1>1, <4>1 DEF Settled, Matches, Agrees
    <3> QED BY <1>1, <3>1 DEF Stands, Settled, Waits, RatedNow
  <2> QED BY <2>1, <2>2
<1> QED BY <1>1, <1>2, <1>3 DEF Directory

(* The ratings are written with the rows as they are.                        *)
LEMMA RatingsSettle ==
    ASSUME Types, Progress, Work, Directory, LoadRatings \/ WriteRatings
    PROVE  Directory'
<1>1. /\ at \in {"rate", "rating"}
      /\ UNCHANGED <<disk, skipMapUpdate, mapsInDB, toImport, corruptNew, silent, gone, served,
                     request, catalogGeneration, fsEvents, watch, beatmapDirUpdated, closed,
                     unread, skipped, misread>>
      /\ at' \in {"rating", "finish"}
  BY DEF LoadRatings, WriteRatings, Going, Ready, GoTo
<1>2. DOMAIN toImport = {} /\ DOMAIN corruptNew = {}
  BY <1>1 DEF Work, Emptied
<1>3. /\ Compared' => Compared
      /\ \A n \in Maps : /\ Watched(n)' <=> Watched(n)
                         /\ Calm(n)' <=> Calm(n)
                         /\ Excused(n)' <=> Excused(n)
  BY <1>1 DEF Compared, Newest, Noticed, Watched, Calm, Excused
<1>4. ASSUME NEW m \in Maps, Stands(m) PROVE Stands(m)'
  <2>1. (~Excused(m)' => Matches(m)) /\ Waits(m)'
    BY <1>1, <1>2, <1>3, <1>4 DEF Stands, Settled, Waits
  <2>2. CASE LoadRatings
    <3>1. UNCHANGED db /\ \E stale \in SUBSET Maps :
                              rated' = Calculated({n \in stale : Loads(n)})
      BY <2>2 DEF LoadRatings, Listed
    <3>2. RatedNow(m)'
      BY <1>1, <3>1 DEF RatedNow, Calculated, Loads
    <3> QED BY <1>1, <2>1, <3>1, <3>2 DEF Stands, Settled, Matches, Agrees
  <2>3. CASE WriteRatings
    <3>1. at = "rating" /\ at' = "finish"
          /\ db'[m] = IF m \in DOMAIN rated THEN rated[m] ELSE db[m]
      BY <2>3, RatingsAnnounced, Reported DEF WriteRatings, Going, Ready, GoTo
    <3>2. CASE m \in DOMAIN rated
      <4>1. db'[m] = Row("complete", disk[m]) /\ disk[m] \notin Corrupt \cup {0}
        BY <1>4, <3>1, <3>2 DEF Stands, RatedNow
      <4>2. Matches(m)'
        BY <1>1, <4>1, RowFacts DEF Matches, Agrees
      <4> QED BY <2>1, <3>1, <4>2 DEF Stands, Settled, RatedNow
    <3>3. CASE m \notin DOMAIN rated
      <4>1. ~Excused(m)' => Matches(m)'
        BY <1>1, <2>1, <3>1, <3>3 DEF Matches, Agrees
      <4> QED BY <2>1, <3>1, <4>1 DEF Stands, Settled, RatedNow
    <3> QED BY <3>2, <3>3
  <2> QED BY <2>2, <2>3
<1> QED BY <1>1, <1>3, <1>4 DEF Directory

(* A request makes the comparison one of an earlier generation.              *)
LEMMA RequestTrustsNothing ==
    ASSUME Types, Requested, NEW calls \in SUBSET Callbacks, Request(calls),
           UNCHANGED <<at, request>>
    PROVE  ~Compared' /\ Directory'
<1>1. /\ catalogGeneration' \in Nat /\ request'.generation \in Nat
      /\ request'.generation < catalogGeneration' /\ ~served'
  BY RequestAdvances DEF Types, RequestTypes, Requests
<1> QED BY <1>1 DEF Directory, Compared, Newest

(* A change of a file makes its map uncalm, and is noticed or missed.        *)
LEMMA ChangeSettles ==
    ASSUME Types, Directory, NEW m \in Maps, NEW v \in Versions, ChangeFile(m, v)
    PROVE  Directory'
<1>1. /\ disk' = [disk EXCEPT ![m] = v] /\ disk \in [Maps -> Versions]
      /\ (disk[m] = 0 \/ v = 0) => fsEvents'
      /\ fsEvents => fsEvents'
      /\ silent' = IF disk[m] # 0 /\ v # 0 THEN silent \cup {m} ELSE silent
      /\ gone' = IF v = 0 THEN gone \cup {m} ELSE gone
      /\ misread' = misread \ {m} /\ UNCHANGED skipped
      /\ UNCHANGED <<db, skipMapUpdate, mapsInDB, toImport, corruptNew, rated, served, at,
                     request, catalogGeneration, watch, beatmapDirUpdated, closed, unread>>
  BY DEF ChangeFile, Types, WorldTypes
<1> SUFFICES ASSUME Compared', NEW n \in Maps
             PROVE  (Watched(n)' => Stands(n)') /\ (Calm(n)' => disk'[n] # 0)
  BY DEF Directory
<1>2. /\ Watched(n) => Stands(n)
      /\ Calm(n) => disk[n] # 0
  BY <1>1 DEF Directory, Compared, Newest
<1>3. CASE n # m
  <2>1. disk'[n] = disk[n] /\ (Watched(n)' => Watched(n)) /\ (Calm(n)' <=> Calm(n))
        /\ (Excused(n) => Excused(n)')
    BY <1>1, <1>3 DEF Watched, Calm, Noticed, Excused
  <2> QED BY <1>1, <1>2, <2>1, SameStands
<1>4. CASE n = m
  <2>1. ~Calm(m)'
    BY <1>1, <1>2, <1>4 DEF Calm
  <2>2. ~Watched(m)'
    BY <1>1, <2>1 DEF Watched, Noticed
  <2> QED BY <1>4, <2>1, <2>2
<1> QED BY <1>3, <1>4

(* The row of a missing file may go.                                         *)
LEMMA SelectSettles ==
    ASSUME Types, Requested, Directory, NEW m \in Maps, SelectMap(m)
    PROVE  Directory'
<1>1. UNCHANGED <<disk, skipMapUpdate, mapsInDB, toImport, corruptNew, rated, silent, gone, at,
                  request, fsEvents, watch, beatmapDirUpdated, closed, unread, skipped, misread>>
  BY DEF SelectMap
<1>2. CASE Request({})
  BY <1>1, <1>2, RequestTrustsNothing
<1>3. CASE disk[m] = 0 /\ db'[m] = NoRow /\ NoRequestMade
  <2>1. /\ Compared' <=> Compared
        /\ \A n \in Maps : /\ Watched(n)' <=> Watched(n)
                           /\ Calm(n)' <=> Calm(n)
                           /\ Excused(n)' <=> Excused(n)
    BY <1>1, <1>3 DEF NoRequestMade, Compared, Newest, Noticed, Watched, Calm, Excused
  <2>2. ASSUME NEW n \in Maps \ {m}, Stands(n) PROVE Stands(n)'
    BY <1>1, <2>1, <2>2, RemovedAtOnce, SameStands
  <2>3. ASSUME Stands(m) PROVE Stands(m)'
    <3>1. m \notin DOMAIN toImport \cup DOMAIN corruptNew
      BY <1>3, <2>3 DEF Stands, Waits
    <3>2. Matches(m)'
      BY <1>1, <1>3 DEF Matches, Agrees
    <3> QED BY <1>1, <2>3, <3>1, <3>2 DEF Stands, Settled, Waits, RatedNow
  <2> QED BY <1>1, <2>1, <2>2, <2>3 DEF Directory
<1> QED BY <1>2, <1>3, RemovedAtOnce

LEMMA NextDirectory ==
    Types /\ Requested /\ Progress /\ Fingerprints /\ Work /\ Directory /\ [Next]_vars
        => Directory'
<1> SUFFICES ASSUME Types, Requested, Progress, Fingerprints, Work, Directory, [Next]_vars
             PROVE  Directory'
  OBVIOUS
<1>1. CASE UNCHANGED vars
  BY <1>1, SameDirectory DEF Compared, Newest, Noticed
<1>2. ASSUME NEW m \in Maps, NEW v \in Versions, ChangeFile(m, v) PROVE Directory'
  BY <1>2, ChangeSettles
<1>3. CASE WatcherWakes \/ WatcherPosts \/ Close
  <2>1. /\ UNCHANGED <<disk, db, skipMapUpdate, mapsInDB, toImport, corruptNew, rated, silent,
                       gone, unread, at, request, catalogGeneration, served, skipped, misread>>
        /\ Noticed' \/ closed'
    BY <1>3 DEF WatcherWakes, WatcherPosts, Close, Noticed
  <2> QED BY <2>1, SameDirectory DEF Compared, Newest
<1>4. CASE DrainEvent
  <2>1. /\ UNCHANGED <<disk, db, skipMapUpdate, mapsInDB, toImport, corruptNew, rated, silent,
                       gone, at, request, catalogGeneration, served, fsEvents, closed, unread,
                       skipped, misread>>
        /\ beatmapDirUpdated' \/ UNCHANGED <<beatmapDirUpdated, watch>>
    BY <1>4 DEF DrainEvent
  <2> QED BY <2>1, SameDirectory DEF Compared, Newest, Noticed
<1>5. CASE AutoRefresh
  BY <1>5, RequestTrustsNothing DEF AutoRefresh
<1>6. ASSUME NEW m \in Maps, NEW v \in Versions, DropArchive(m, v) PROVE Directory'
  <2>1. {m} \in SUBSET Callbacks /\ Request({m}) /\ UNCHANGED <<at, request>>
    BY <1>6 DEF Callbacks, DropArchive
  <2> QED BY <2>1, RequestTrustsNothing
<1>7. ASSUME NEW m \in Maps, SelectMap(m) PROVE Directory'
  BY <1>7, SelectSettles
<1>8. CASE PostEvent \/ Idle \/ TakePending
  <2>1. /\ UNCHANGED <<disk, db, skipMapUpdate, mapsInDB, toImport, corruptNew, rated, silent,
                       gone, served, fsEvents, watch, beatmapDirUpdated, closed, unread,
                       catalogGeneration, skipped, misread>>
        /\ UNCHANGED <<at, request>> \/ at' \in {"take", "done", "idle", "arm"}
    BY <1>8 DEF PostEvent, Idle, TakePending, GoTo
  <2> QED BY <2>1, SameDirectory DEF Compared, Newest, Noticed
<1>9. CASE SetActiveCancel \/ PublishCached \/ SeedFromStable \/ UnpackMaps
  <2>1. /\ at \in {"arm", "cache", "seed", "unpack"} /\ UNCHANGED served
        /\ at' \in {"cache", "finish", "seed", "unpack", "scan"}
    BY <1>9 DEF SetActiveCancel, InitDatabase, PublishCached, SeedFromStable, UnpackMaps,
                Going, Ready, GoTo
  <2> QED BY <2>1 DEF Progress, Directory, Compared
<1>10. CASE Scan
  BY <1>10, ScanSettles
<1>11. ASSUME NEW m \in Maps, Import(m) PROVE Directory'
  BY <1>11, ImportSettles
<1>12. CASE Tombstone
  BY <1>12, TombstoneSettles
<1>13. CASE ReportDone
  <2>1. /\ UNCHANGED <<disk, db, skipMapUpdate, mapsInDB, toImport, corruptNew, rated, silent,
                       gone, fsEvents, watch, beatmapDirUpdated, closed, unread,
                       skipped, misread>>
        /\ served' => request.generation = catalogGeneration
        /\ at = "report" /\ at' \in {"rate", "finish"}
    BY <1>13 DEF ReportDone, Ready, GoTo
  <2> QED BY <2>1, SameDirectory DEF Compared, Newest, Noticed
<1>14. CASE LoadRatings \/ WriteRatings
  BY <1>14, RatingsSettle
<1>15. CASE \E step \in Abortable : Abort(step)
  <2>1. /\ UNCHANGED <<disk, db, skipMapUpdate, mapsInDB, toImport, corruptNew, rated, silent,
                       gone, fsEvents, watch, beatmapDirUpdated, closed, unread, served,
                       skipped, misread>>
        /\ at' = "finish"
    BY <1>15 DEF Abort, GoTo
  <2> QED BY <2>1, SameDirectory DEF Compared, Newest, Noticed
<1>16. CASE Finish
  <2>1. /\ UNCHANGED <<disk, db, skipMapUpdate, silent, gone, served, fsEvents, watch,
                       beatmapDirUpdated, closed, unread, skipped, misread>>
        /\ at' = "take" /\ toImport' = Nothing /\ corruptNew' = Nothing
        /\ DOMAIN Nothing = {}
    BY <1>16 DEF Finish, GoTo, Nothing
  <2>2. /\ Compared' => served
        /\ \A n \in Maps : /\ Watched(n)' <=> Watched(n)
                           /\ Calm(n)' <=> Calm(n)
                           /\ Excused(n)' <=> Excused(n)
    BY <2>1 DEF Compared, Noticed, Watched, Calm, Excused
  <2>3. served => DOMAIN toImport = {} /\ DOMAIN corruptNew = {}
    BY DEF Work, Emptied
  <2>4. ASSUME served, NEW m \in Maps, Stands(m) PROVE Stands(m)'
    BY <2>1, <2>2, <2>3, <2>4 DEF Stands, Settled, Matches, Agrees, Waits, RatedNow
  <2> QED BY <2>1, <2>2, <2>4 DEF Directory, Compared
<1> QED BY <1>1, <1>2, <1>3, <1>4, <1>5, <1>6, <1>7, <1>8, <1>9, <1>10, <1>11, <1>12,
           <1>13, <1>14, <1>15, <1>16
        DEF Next, User, Refresh, ImportBeatmaps, AtRest, Abortable

-----------------------------------------------------------------------------
(* Continuations.  A report that carries some is current only once its pass  *)
(* has served the latest request, and says nothing of rows itself; until it  *)
(* is posted, what was lost when it was made is all that is lost.            *)

Carries(e) == Fresh(e) /\ e.callbacks # {}

Answered ==
    /\ \A i \in DOMAIN runtimeEvents : Carries(runtimeEvents[i]) => served
    /\ event # NoEvent =>
         (Carries(event.e) => served /\ DOMAIN event.e.rows = {} /\ untold = unsaid)
    /\ skipMapUpdate => at \notin {"rate", "rating"}

(* No archive of the latest request is left once its pass has unpacked, but  *)
(* for those the pass had to leave.                                          *)
Unpacked == served \/ (at \in {"scan", "import", "report"} /\ Newest)
                => \A m \in Maps : archives[m] = 0 \/ m \in packed

LEMMA SameAnswered ==
    ASSUME Answered, served => served', at' \in {"rate", "rating"} => at \in {"rate", "rating"},
           UNCHANGED <<catalogGeneration, runtimeEvents, skipMapUpdate>>,
           \/ UNCHANGED <<event, untold, unsaid>>
           \/ event' # NoEvent => (~IsReport(event'.e) \/ event'.e.callbacks = {})
    PROVE  Answered'
BY DEF Answered, Carries, Fresh, Current

LEMMA RequestUnanswered ==
    ASSUME Types, Requested, Answered, NEW calls \in SUBSET Callbacks, Request(calls),
           UNCHANGED <<snapshotGeneration, runtimeEvents, event, at, request, skipMapUpdate>>
    PROVE  Answered' /\ Unpacked'
<1>1. NoneFresh' /\ ~served' /\ request.generation < catalogGeneration'
  BY RequestSupersedes, RequestAdvances
<1>2. Answered'
  BY <1>1 DEF Answered, NoneFresh, Carries
<1>3. request'.generation \in Nat /\ catalogGeneration' \in Nat
  BY RequestAdvances DEF Types, RequestTypes, Requests
<1>4. Unpacked'
  BY <1>1, <1>3 DEF Unpacked, Newest
<1> QED BY <1>2, <1>4

LEMMA NextAnswered == Types /\ Requested /\ Progress /\ Answered /\ [Next]_vars => Answered'
<1> SUFFICES ASSUME Types, Requested, Progress, Answered, [Next]_vars PROVE Answered'
  OBVIOUS
<1>1. CASE \/ UNCHANGED vars \/ (\E m \in Maps, v \in Versions : ChangeFile(m, v))
           \/ WatcherWakes \/ Close
  <2>1. UNCHANGED <<catalogGeneration, runtimeEvents, skipMapUpdate, event, served, at,
                   untold, unsaid>>
    BY <1>1 DEF ChangeFile, WatcherWakes, Close
  <2> QED BY <2>1, SameAnswered
<1>2. CASE AutoRefresh
  BY <1>2, RequestUnanswered DEF AutoRefresh
<1>3. ASSUME NEW m \in Maps, NEW v \in Versions, DropArchive(m, v) PROVE Answered'
  <2>1. /\ {m} \in SUBSET Callbacks /\ Request({m})
        /\ UNCHANGED <<snapshotGeneration, runtimeEvents, event, at, request, skipMapUpdate>>
    BY <1>3 DEF Callbacks, DropArchive
  <2> QED BY <2>1, RequestUnanswered
<1>4. ASSUME NEW m \in Maps, SelectMap(m) PROVE Answered'
  <2>1. UNCHANGED <<snapshotGeneration, runtimeEvents, event, at, request, skipMapUpdate>>
    BY <1>4 DEF SelectMap
  <2>2. CASE Request({})
    BY <2>1, <2>2, RequestUnanswered
  <2>3. CASE NoRequestMade
    BY <1>4, <2>1, <2>3, SameAnswered DEF NoRequestMade, SelectMap
  <2> QED BY <1>4, <2>2, <2>3, RemovedAtOnce
<1>5. CASE DrainEvent
  <2>1. UNCHANGED <<catalogGeneration, event, served, at, skipMapUpdate, untold, unsaid>>
    BY <1>5 DEF DrainEvent
  <2>2. \A i \in DOMAIN runtimeEvents' :
           i + 1 \in DOMAIN runtimeEvents /\ runtimeEvents'[i] = runtimeEvents[i + 1]
    BY <1>5, Drained
  <2> QED BY <2>1, <2>2 DEF Answered, Carries, Fresh, Current
<1>6. ASSUME HasRoom, NEW e \in Events, runtimeEvents' = Append(runtimeEvents, e),
             UNCHANGED <<catalogGeneration, served, at, skipMapUpdate, untold, unsaid>>,
             Carries(e) => served, event' = event \/ event' = NoEvent
      PROVE  Answered'
  <2>1. /\ DOMAIN runtimeEvents = 1..Len(runtimeEvents) /\ Len(runtimeEvents) \in Nat
        /\ DOMAIN runtimeEvents' = 1..Len(runtimeEvents) + 1
        /\ \A i \in DOMAIN runtimeEvents : runtimeEvents'[i] = runtimeEvents[i]
        /\ runtimeEvents'[Len(runtimeEvents) + 1] = e
    BY <1>6, Pushed
  <2>2. \A i \in DOMAIN runtimeEvents' :
           runtimeEvents'[i] = e \/ (i \in DOMAIN runtimeEvents
                                      /\ runtimeEvents'[i] = runtimeEvents[i])
    BY <2>1
  <2> QED BY <1>6, <2>2 DEF Answered, Carries, Fresh, Current
<1>7. CASE WatcherPosts
  <2>1. UNCHANGED <<catalogGeneration, served, at, skipMapUpdate, event, untold, unsaid>>
    BY <1>7 DEF WatcherPosts
  <2>2. CASE HasRoom /\ runtimeEvents' = Append(runtimeEvents, [kind |-> "changed"])
    BY <1>6, <2>1, <2>2, ChangedFacts DEF Carries, Fresh
  <2>3. CASE UNCHANGED runtimeEvents
    BY <2>1, <2>3, SameAnswered
  <2> QED BY <1>7, <2>2, <2>3 DEF WatcherPosts
<1>8. CASE PostEvent
  <2>1. UNCHANGED <<catalogGeneration, served, at, skipMapUpdate, untold, unsaid>>
    BY <1>8 DEF PostEvent
  <2>2. event # NoEvent /\ event' = NoEvent /\ event.e \in Events
    BY <1>8, Posted
  <2>3. CASE HasRoom /\ runtimeEvents' = Append(runtimeEvents, event.e)
    <3>1. Carries(event.e) => served
      BY <2>2 DEF Answered
    <3> QED BY <1>6, <2>1, <2>2, <2>3, <3>1
  <2>4. CASE UNCHANGED runtimeEvents
    BY <2>1, <2>2, <2>4, SameAnswered
  <2> QED BY <1>8, <2>3, <2>4, Posted
<1>9. CASE Idle \/ TakePending \/ Finish
  <2>1. /\ UNCHANGED <<catalogGeneration, runtimeEvents, skipMapUpdate, event, served,
                       untold, unsaid>>
        /\ at' \notin {"rate", "rating"}
    BY <1>9 DEF Idle, TakePending, Finish, GoTo
  <2> QED BY <2>1, SameAnswered
<1>10. CASE SetActiveCancel
  <2>1. /\ UNCHANGED <<catalogGeneration, runtimeEvents, skipMapUpdate, served, untold,
                       unsaid>>
        /\ UNCHANGED event \/ PublishAlways(CatalogError)
        /\ at' \notin {"rate", "rating"}
    BY <1>10 DEF SetActiveCancel, InitDatabase, GoTo
  <2> QED BY <2>1, ErrorPosted, SameAnswered
<1>11. CASE ReportDone
  <2>1. /\ UNCHANGED <<catalogGeneration, runtimeEvents, skipMapUpdate>> /\ at = "report"
        /\ served' = (request.generation = catalogGeneration)
        /\ unsaid' = untold /\ UNCHANGED untold
        /\ at' = IF skipMapUpdate THEN "finish" ELSE "rate"
        /\ Publish(Report("delta", Nothing, request.callbacks))
    BY <1>11 DEF ReportDone, Ready, GoTo
  <2>2. ~served
    BY <2>1 DEF Progress
  <2>3. /\ event'.e \in Reports /\ event'.e.generation = request.generation
        /\ DOMAIN event'.e.rows = {}
    BY <2>1, DonePosted
  <2>4. /\ request.generation \in Nat /\ catalogGeneration \in Nat
        /\ request.generation <= catalogGeneration
    BY DEF Types, RequestTypes, Requests
  <2>5. Carries(event.e)' => served'
    <3>1. Carries(event.e)' => event'.e.generation >= catalogGeneration'
      BY DEF Carries, Fresh, Current
    <3>2. Carries(event.e)' => request.generation = catalogGeneration
      BY <2>1, <2>3, <2>4, <3>1
    <3> QED BY <2>1, <3>2, Zenon
  <2>6. \A i \in DOMAIN runtimeEvents' : ~Carries(runtimeEvents[i])'
    BY <2>1, <2>2 DEF Answered, Carries, Fresh, Current
  <2> QED BY <2>1, <2>3, <2>5, <2>6 DEF Answered
<1>12. CASE \/ PublishCached \/ SeedFromStable \/ UnpackMaps \/ Scan \/ ImportBeatmaps
            \/ Tombstone \/ LoadRatings \/ WriteRatings \/ \E step \in Abortable : Abort(step)
  <2>1. UNCHANGED <<catalogGeneration, runtimeEvents, skipMapUpdate, served>>
    BY <1>12 DEF PublishCached, SeedFromStable, UnpackMaps, Scan, ImportBeatmaps, Import,
                 Tombstone, LoadRatings, WriteRatings, Abort
  <2>2. at' \in {"rate", "rating"} => at \in {"rate", "rating"}
    BY <1>12 DEF PublishCached, SeedFromStable, UnpackMaps, Scan, ImportBeatmaps, Import,
                 Tombstone, LoadRatings, WriteRatings, Abort, Going, Ready, GoTo
  <2>3. \/ UNCHANGED <<event, untold, unsaid>>
        \/ event' # NoEvent => (~IsReport(event'.e) \/ event'.e.callbacks = {})
    <3>1. CASE Tombstone \/ LoadRatings \/ \E step \in Abortable : Abort(step)
      BY <3>1 DEF Tombstone, LoadRatings, Abort
    <3>2. CASE PublishCached
      <4>1. \/ UNCHANGED <<event, untold, unsaid>>
            \/ PublishAlways(Snapshot(db)) \/ PublishAlways(CatalogError)
        BY <3>2 DEF PublishCached
      <4> QED BY <4>1, CachePosted, ErrorPosted
    <3>3. CASE SeedFromStable \/ UnpackMaps
      BY <3>3, SeedsAnnounced, Reported
    <3>4. CASE Scan
      <4>1. (\E change : Announced(change)) \/ PublishAlways(CatalogError)
        BY <3>4, ScanAnnounced DEF PublishAlways
      <4> QED BY <4>1, Reported, ErrorPosted
    <3>5. CASE ImportBeatmaps
      <4>1. PICK m \in Maps : Import(m)
        BY <3>5 DEF ImportBeatmaps
      <4>2. CASE Announced(Every({m}, Row("complete", disk[m])))
        BY <4>2, Reported
      <4>3. CASE RejectMap(m) \/ SkipMap(m)
        BY <4>1, <4>3 DEF Import, RejectMap, SkipMap
      <4> QED BY <4>1, <4>2, <4>3, ImportAnnounced
    <3>6. CASE WriteRatings
      BY <3>6, RatingsAnnounced, Reported
    <3> QED BY <1>12, <3>1, <3>2, <3>3, <3>4, <3>5, <3>6
  <2> QED BY <2>1, <2>2, <2>3, SameAnswered
<1> QED BY <1>1, <1>2, <1>3, <1>4, <1>5, <1>7, <1>8, <1>9, <1>10, <1>11, <1>12
        DEF Next, User, Refresh, AtRest, Abortable

LEMMA NextUnpacked ==
    Types /\ Requested /\ Progress /\ Answered /\ Unpacked /\ [Next]_vars => Unpacked'
<1> SUFFICES ASSUME Types, Requested, Progress, Answered, Unpacked, [Next]_vars
             PROVE  Unpacked'
  OBVIOUS
<1>1. CASE UNCHANGED <<archives, packed, served, at, request, catalogGeneration>>
  BY <1>1 DEF Unpacked, Newest
<1>2. CASE AutoRefresh
  BY <1>2, RequestUnanswered DEF AutoRefresh
<1>3. ASSUME NEW m \in Maps, NEW v \in Versions, DropArchive(m, v) PROVE Unpacked'
  <2>1. /\ {m} \in SUBSET Callbacks /\ Request({m})
        /\ UNCHANGED <<snapshotGeneration, runtimeEvents, event, at, request, skipMapUpdate>>
    BY <1>3 DEF Callbacks, DropArchive
  <2> QED BY <2>1, RequestUnanswered
<1>4. ASSUME NEW m \in Maps, SelectMap(m) PROVE Unpacked'
  <2>1. /\ UNCHANGED <<snapshotGeneration, runtimeEvents, event, at, request, skipMapUpdate>>
        /\ UNCHANGED <<archives, packed>>
    BY <1>4 DEF SelectMap
  <2>2. CASE Request({})
    BY <2>1, <2>2, RequestUnanswered
  <2>3. CASE NoRequestMade
    BY <1>1, <2>1, <2>3 DEF NoRequestMade
  <2> QED BY <1>4, <2>2, <2>3, RemovedAtOnce
<1>5. CASE UnpackMaps
  <2>1. /\ mustCheck' = Archived \ packed'
        /\ archives' = [m \in Maps |-> IF m \in mustCheck' THEN 0 ELSE archives[m]]
    BY <1>5 DEF UnpackMaps
  <2>2. \A m \in Maps : archives[m] = 0 \/ m \in mustCheck' \/ m \in packed'
    BY <2>1 DEF Archived
  <2> QED BY <2>1, <2>2 DEF Unpacked
<1>6. CASE \/ Idle \/ TakePending \/ SetActiveCancel \/ PublishCached \/ SeedFromStable
           \/ Finish \/ LoadRatings \/ WriteRatings \/ \E step \in Abortable : Abort(step)
  <2>1. /\ UNCHANGED <<archives, packed, served>> /\ at' \notin {"scan", "import", "report"}
    BY <1>6 DEF Idle, TakePending, SetActiveCancel, InitDatabase, PublishCached,
                SeedFromStable, Finish, LoadRatings, WriteRatings, Abort, GoTo
  <2> QED BY <2>1 DEF Unpacked
<1>7. CASE Scan \/ ImportBeatmaps \/ Tombstone
  <2>1. /\ UNCHANGED <<archives, packed, served, request, catalogGeneration>>
        /\ at \in {"scan", "import"}
    BY <1>7 DEF Scan, ImportBeatmaps, Import, Tombstone, Going, Ready
  <2> QED BY <2>1 DEF Unpacked, Newest
<1>8. CASE ReportDone
  <2>1. /\ UNCHANGED <<archives, packed, request, catalogGeneration>> /\ at = "report"
        /\ at' \in {"rate", "finish"} /\ served' = (request.generation = catalogGeneration)
    BY <1>8 DEF ReportDone, Ready, GoTo
  <2> QED BY <2>1 DEF Unpacked, Newest
<1>9. \/ UNCHANGED vars \/ (\E m \in Maps, v \in Versions : ChangeFile(m, v))
      \/ WatcherWakes \/ WatcherPosts \/ DrainEvent \/ Close \/ PostEvent
      => UNCHANGED <<archives, packed, served, at, request, catalogGeneration>>
  BY DEF ChangeFile, WatcherWakes, WatcherPosts, DrainEvent, Close, PostEvent
<1> QED BY <1>1, <1>2, <1>3, <1>4, <1>5, <1>6, <1>7, <1>8, <1>9
        DEF Next, User, Refresh, AtRest, Abortable

-----------------------------------------------------------------------------
(* What the launcher lists when a continuation runs.                         *)

(* The last word on a map before the k-th event of the queue.                *)
WordBefore(k, m, row) ==
    \/ \E i \in DOMAIN runtimeEvents :
          /\ i < k /\ Said(i, m) /\ runtimeEvents[i].rows[m] = row
          /\ \A j \in DOMAIN runtimeEvents : i < j /\ j < k => ~Said(j, m)
    \/ /\ \A j \in DOMAIN runtimeEvents : j < k => ~Said(j, m)
       /\ catalog[m] = row

Imported(m) == /\ Calm(m) /\ ~Excused(m) /\ m \notin unsaid
               /\ disk[m] \notin Corrupt /\ Visible(db[m]) # NoRow

Heard == ~closed => \A m \in Maps : Imported(m) =>
             \A k \in DOMAIN runtimeEvents :
                Carries(runtimeEvents[k]) => WordBefore(k, m, Visible(db[m]))

LEMMA DrainKeepsBefore ==
    ASSUME Types, DrainEvent, NEW m \in Maps, NEW row, NEW k \in DOMAIN runtimeEvents',
           WordBefore(k + 1, m, row)
    PROVE  WordBefore(k, m, row)'
<1> DEFINE q == runtimeEvents
           e == Head(q)
<1>1. UNCHANGED catalogGeneration
  BY DEF DrainEvent
<1>2. /\ e \in Events /\ 1 \in DOMAIN q /\ e = q[1] /\ Len(q) \in Nat
      /\ DOMAIN q = 1..Len(q) /\ DOMAIN q' = 1..Len(q) - 1
      /\ \A i \in DOMAIN q' : i + 1 \in DOMAIN q /\ q'[i] = q[i + 1]
  BY Drained
<1>3. \A i \in DOMAIN q' : Said(i, m)' <=> Said(i + 1, m)
  BY <1>1, <1>2 DEF Said, Says, Fresh, Current
<1>4. catalog'[m] = IF Said(1, m) THEN e.rows[m] ELSE catalog[m]
  BY <1>2, DrainShows DEF Said
<1>5. k \in Nat /\ k >= 1 /\ \A j \in DOMAIN q' : j \in Nat /\ j >= 1 /\ (j < k <=> j + 1 < k + 1)
  BY <1>2
<1>6. CASE \E i \in DOMAIN q : /\ i < k + 1 /\ Said(i, m) /\ q[i].rows[m] = row
                               /\ \A j \in DOMAIN q : i < j /\ j < k + 1 => ~Said(j, m)
  <2>1. PICK i \in DOMAIN q : /\ i < k + 1 /\ Said(i, m) /\ q[i].rows[m] = row
                              /\ \A j \in DOMAIN q : i < j /\ j < k + 1 => ~Said(j, m)
    BY <1>6
  <2>2. CASE i = 1
    <3>1. catalog'[m] = row
      BY <1>2, <1>4, <2>1, <2>2
    <3>2. \A j \in DOMAIN q' : j < k => 1 < j + 1 /\ j + 1 < k + 1 /\ j + 1 \in DOMAIN q
      BY <1>2, <1>5
    <3>3. \A j \in DOMAIN q' : j < k => ~Said(j, m)'
      BY <1>3, <2>1, <2>2, <3>2
    <3> QED BY <3>1, <3>3 DEF WordBefore
  <2>3. CASE i # 1
    <3>1. /\ i - 1 \in DOMAIN q' /\ i - 1 < k /\ q'[i - 1] = q[(i - 1) + 1] /\ (i - 1) + 1 = i
          /\ \A j \in DOMAIN q' : i - 1 < j => i < j + 1
      BY <1>2, <1>5, <2>1, <2>3
    <3>2. Said(i - 1, m)' /\ q'[i - 1].rows[m] = row
      BY <1>3, <2>1, <3>1
    <3>3. \A j \in DOMAIN q' : i - 1 < j /\ j < k => ~Said(j, m)'
      BY <1>2, <1>3, <1>5, <2>1, <3>1
    <3> QED BY <3>1, <3>2, <3>3 DEF WordBefore
  <2> QED BY <2>2, <2>3
<1>7. CASE (\A j \in DOMAIN q : j < k + 1 => ~Said(j, m)) /\ catalog[m] = row
  <2>1. ~Said(1, m)
    BY <1>2, <1>5, <1>7
  <2>2. \A j \in DOMAIN q' : j < k => ~Said(j, m)'
    BY <1>2, <1>3, <1>5, <1>7
  <2> QED BY <1>4, <1>7, <2>1, <2>2 DEF WordBefore
<1> QED BY <1>6, <1>7 DEF WordBefore

(* An event added to the queue comes after all that were said before.        *)
LEMMA PushKeepsBefore ==
    ASSUME Types, HasRoom, NEW e \in Events, runtimeEvents' = Append(runtimeEvents, e),
           UNCHANGED <<catalogGeneration, catalog>>, NEW m \in Maps, NEW row,
           NEW n, n = Len(runtimeEvents) + 1
    PROVE  /\ \A k \in DOMAIN runtimeEvents : WordBefore(k, m, row) => WordBefore(k, m, row)'
           /\ ~EventSays(m) /\ LastWord(m, row)
                 => WordBefore(n, m, row)'
<1> DEFINE q == runtimeEvents
<1>0. n = Len(q) + 1
  OBVIOUS
<1>1. /\ Len(q) \in Nat /\ DOMAIN q = 1..Len(q) /\ DOMAIN q' = 1..Len(q) + 1
      /\ \A i \in DOMAIN q : q'[i] = q[i]
  BY Pushed
<1>2. \A i \in DOMAIN q : Said(i, m)' <=> Said(i, m)
  BY <1>1 DEF Said, Says, Fresh, Current
<1>3. /\ \A i \in DOMAIN q' : i \in DOMAIN q \/ i = n
      /\ \A i \in DOMAIN q : i \in DOMAIN q' /\ i < n /\ ~(n < i)
  BY <1>0, <1>1
<1>4. ASSUME NEW k \in DOMAIN q \cup {n},
             \/ \E i \in DOMAIN q : /\ i < k /\ Said(i, m) /\ q[i].rows[m] = row
                                    /\ \A j \in DOMAIN q : i < j /\ j < k => ~Said(j, m)
             \/ (\A j \in DOMAIN q : j < k => ~Said(j, m)) /\ catalog[m] = row
      PROVE  WordBefore(k, m, row)'
  <2>1. ~(n < k)
    BY <1>0, <1>1, <1>3
  <2>2. CASE \E i \in DOMAIN q : /\ i < k /\ Said(i, m) /\ q[i].rows[m] = row
                                 /\ \A j \in DOMAIN q : i < j /\ j < k => ~Said(j, m)
    <3>1. PICK i \in DOMAIN q : /\ i < k /\ Said(i, m) /\ q[i].rows[m] = row
                                /\ \A j \in DOMAIN q : i < j /\ j < k => ~Said(j, m)
      BY <2>2
    <3>2. i \in DOMAIN q' /\ Said(i, m)' /\ q'[i].rows[m] = row
      BY <1>1, <1>2, <1>3, <3>1
    <3>3. \A j \in DOMAIN q' : i < j /\ j < k => ~Said(j, m)'
      BY <1>2, <1>3, <2>1, <3>1
    <3> QED BY <3>1, <3>2, <3>3 DEF WordBefore
  <2>3. CASE (\A j \in DOMAIN q : j < k => ~Said(j, m)) /\ catalog[m] = row
    <3>1. \A j \in DOMAIN q' : j < k => ~Said(j, m)'
      BY <1>2, <1>3, <2>1, <2>3
    <3> QED BY <2>3, <3>1 DEF WordBefore
  <2> QED BY <1>4, <2>2, <2>3
<1>5. \A k \in DOMAIN q : WordBefore(k, m, row) => WordBefore(k, m, row)'
  BY <1>4 DEF WordBefore
<1>6. ASSUME ~EventSays(m), LastWord(m, row) PROVE WordBefore(n, m, row)'
  <2>1. \/ \E i \in DOMAIN q : Said(i, m) /\ q[i].rows[m] = row /\ SilentAfter(i, m)
        \/ SilentAfter(0, m) /\ catalog[m] = row
    BY <1>6 DEF LastWord
  <2>2. \A j \in DOMAIN q : j > 0
    BY <1>1
  <2>3. \A i, j \in DOMAIN q : i < j => j > i
    BY <1>1
  <2> QED BY <1>3, <1>4, <2>1, <2>2, <2>3 DEF SilentAfter
<1> QED BY <1>0, <1>5, <1>6

(* A step that leaves the queue, and row and listing of the map, alone.      *)
LEMMA SameHeard ==
    ASSUME Heard, ~closed, NEW m \in Maps, Imported(m),
           NEW k \in DOMAIN runtimeEvents, Carries(runtimeEvents[k]),
           UNCHANGED <<catalogGeneration, runtimeEvents>>, catalog'[m] = catalog[m],
           Visible(db'[m]) = Visible(db[m])
    PROVE  WordBefore(k, m, Visible(db[m]))'
<1>1. WordBefore(k, m, Visible(db[m]))
  BY DEF Heard
<1> QED BY <1>1 DEF WordBefore, Said, Says, Fresh, Current

(* The ratings of a served pass write what the row says already.             *)
LEMMA RatingsWriteTheSame ==
    ASSUME Types, Work, Directory, Answered, served, WriteRatings, NEW m \in Maps, Calm(m),
           ~Excused(m)
    PROVE  db'[m] = db[m]
<1>1. /\ at = "rating"
      /\ db'[m] = IF m \in DOMAIN rated THEN rated[m] ELSE db[m]
  BY RatingsAnnounced, Reported DEF WriteRatings, Going, Ready
<1>2. Stands(m) /\ DOMAIN toImport = {} /\ DOMAIN corruptNew = {} /\ ~skipMapUpdate
  BY <1>1 DEF Directory, Compared, Watched, Work, Emptied, Answered
<1>3. Agrees(m)
  BY <1>2 DEF Stands, Settled, Matches
<1> QED BY <1>1, <1>2, <1>3 DEF Stands, RatedNow, Agrees

LEMMA NextHeard ==
    Types /\ Requested /\ Progress /\ Work /\ Listing /\ Directory /\ Answered /\ Heard
        /\ [Next]_vars => Heard'
<1> SUFFICES ASSUME Types, Requested, Progress, Work, Listing, Directory, Answered, Heard,
                    [Next]_vars, ~closed', NEW m \in Maps, Imported(m)',
                    NEW k \in DOMAIN runtimeEvents', Carries(runtimeEvents[k])'
             PROVE  WordBefore(k, m, Visible(db[m]))'
  BY DEF Heard
<1>0. served'
  BY NextAnswered DEF Answered
<1>1. ASSUME UNCHANGED <<catalogGeneration, runtimeEvents, catalog, closed>>,
             UNCHANGED <<unread, silent, gone, skipped, misread, unsaid>>,
             disk'[m] = disk[m], db'[m] = db[m]
      PROVE  WordBefore(k, m, Visible(db[m]))'
  <2>1. Imported(m) /\ Carries(runtimeEvents[k])
    BY <1>1 DEF Imported, Calm, Excused, Carries, Fresh, Current
  <2> QED BY <1>1, <2>1, SameHeard
<1>2. CASE UNCHANGED vars \/ WatcherWakes
  BY <1>1, <1>2 DEF WatcherWakes
<1>3. ASSUME NEW n \in Maps, NEW v \in Versions, ChangeFile(n, v)
      PROVE  WordBefore(k, m, Visible(db[m]))'
  <2>1. /\ disk' = [disk EXCEPT ![n] = v] /\ disk \in [Maps -> Versions]
        /\ silent' = IF disk[n] # 0 /\ v # 0 THEN silent \cup {n} ELSE silent
        /\ gone' = IF v = 0 THEN gone \cup {n} ELSE gone
        /\ misread' = misread \ {n}
        /\ UNCHANGED <<catalogGeneration, runtimeEvents, catalog, closed, unread, db, served,
                       skipped, unsaid>>
    BY <1>3 DEF ChangeFile, Types, WorldTypes
  <2>2. Imported(m)' => Calm(m) /\ m # n
    <3>1. Calm(m)' => Calm(m) /\ ~(m = n /\ (v = 0 \/ disk[n] # 0))
      BY <2>1 DEF Calm
    <3>2. Calm(m) => disk[m] # 0
      BY <1>0, <2>1 DEF Directory, Compared
    <3> QED BY <3>1, <3>2 DEF Imported
  <2>3. Imported(m) /\ Carries(runtimeEvents[k])
    BY <2>1, <2>2 DEF Imported, Excused, Carries, Fresh, Current
  <2> QED BY <2>1, <2>3, SameHeard
<1>4. CASE Close
  BY <1>4 DEF Close
<1>5. ASSUME NEW calls, Request(calls) PROVE FALSE
  BY <1>0, <1>5 DEF Request
<1>6. CASE AutoRefresh \/ \E n \in Maps, v \in Versions : DropArchive(n, v)
  BY <1>5, <1>6 DEF AutoRefresh, DropArchive
<1>7. ASSUME NEW n \in Maps, SelectMap(n) PROVE WordBefore(k, m, Visible(db[m]))'
  <2>1. UNCHANGED <<runtimeEvents, disk, closed, unread, silent, gone, skipped, misread, unsaid>>
    BY <1>7 DEF SelectMap
  <2>2. disk[n] = 0 /\ NoRequestMade /\ \A i \in Maps \ {n} : db'[i] = db[i] /\ catalog'[i] = catalog[i]
    BY <1>5, <1>7, RemovedAtOnce
  <2>3. UNCHANGED <<catalogGeneration, served>>
    BY <2>2 DEF NoRequestMade
  <2>4. Calm(m) /\ m # n
    <3>1. Calm(m)
      BY <2>1 DEF Imported, Calm
    <3> QED BY <1>0, <2>2, <2>3, <3>1 DEF Directory, Compared
  <2>5. Imported(m) /\ Carries(runtimeEvents[k])
    BY <2>1, <2>2, <2>3, <2>4 DEF Imported, Excused, Calm, Carries, Fresh, Current
  <2> QED BY <2>1, <2>2, <2>3, <2>4, <2>5, SameHeard
<1>8. CASE DrainEvent
  <2>1. UNCHANGED <<catalogGeneration, closed, unread, silent, gone, disk, db, skipped,
                    misread, unsaid>>
    BY <1>8 DEF DrainEvent
  <2>2. k + 1 \in DOMAIN runtimeEvents /\ runtimeEvents'[k] = runtimeEvents[k + 1]
    BY <1>8, Drained
  <2>3. Imported(m) /\ Carries(runtimeEvents[k + 1])
    BY <2>1, <2>2 DEF Imported, Excused, Calm, Carries, Fresh, Current
  <2>4. WordBefore(k + 1, m, Visible(db[m]))
    BY <2>1, <2>2, <2>3 DEF Heard
  <2> QED BY <1>8, <2>1, <2>4, DrainKeepsBefore
<1>9. ASSUME HasRoom, NEW e \in Events, runtimeEvents' = Append(runtimeEvents, e),
             UNCHANGED <<catalogGeneration, catalog, closed, unread, silent, gone, disk, db>>,
             UNCHANGED <<skipped, misread, unsaid>>,
             Carries(e) => LastWord(m, Visible(db[m])) /\ ~EventSays(m)
      PROVE  WordBefore(k, m, Visible(db[m]))'
  <2>1. /\ DOMAIN runtimeEvents = 1..Len(runtimeEvents) /\ Len(runtimeEvents) \in Nat
        /\ DOMAIN runtimeEvents' = 1..Len(runtimeEvents) + 1
        /\ \A i \in DOMAIN runtimeEvents : runtimeEvents'[i] = runtimeEvents[i]
        /\ runtimeEvents'[Len(runtimeEvents) + 1] = e
    BY <1>9, Pushed
  <2>2. Imported(m)
    BY <1>9 DEF Imported, Calm, Excused
  <2>3. k \in DOMAIN runtimeEvents \/ k = Len(runtimeEvents) + 1
    BY <2>1
  <2>4. CASE k \in DOMAIN runtimeEvents
    <3>1. WordBefore(k, m, Visible(db[m]))
      BY <1>9, <2>1, <2>2, <2>4 DEF Heard, Carries, Fresh, Current
    <3> QED BY <1>9, <2>4, <3>1, PushKeepsBefore
  <2>5. CASE k = Len(runtimeEvents) + 1
    <3>1. Carries(e)
      BY <1>9, <2>1, <2>5 DEF Carries, Fresh, Current
    <3> QED BY <1>9, <2>5, <3>1, PushKeepsBefore
  <2> QED BY <2>3, <2>4, <2>5
<1>10. CASE WatcherPosts
  <2>1. /\ UNCHANGED <<catalogGeneration, catalog, closed, unread, silent, gone, disk, db>>
        /\ UNCHANGED <<skipped, misread, unsaid>>
    BY <1>10 DEF WatcherPosts
  <2>2. CASE HasRoom /\ runtimeEvents' = Append(runtimeEvents, [kind |-> "changed"])
    BY <1>9, <2>1, <2>2, ChangedFacts DEF Carries, Fresh
  <2>3. CASE UNCHANGED runtimeEvents
    BY <1>1, <2>1, <2>3
  <2> QED BY <1>10, <2>2, <2>3 DEF WatcherPosts
<1>11. CASE PostEvent
  <2>1. /\ UNCHANGED <<catalogGeneration, catalog, closed, unread, silent, gone, disk, db>>
        /\ UNCHANGED <<served, databaseReady, pending, at, skipped, misread, unsaid, untold>>
    BY <1>11 DEF PostEvent
  <2>2. event # NoEvent /\ event' = NoEvent /\ event.e \in Events
    BY <1>11, Posted
  <2>3. CASE HasRoom /\ runtimeEvents' = Append(runtimeEvents, event.e)
    <3>1. Told
      BY <1>0, <2>1 DEF Told, Progress
    <3>2. TrueWord(m) /\ Imported(m)
      BY <2>1, <3>1 DEF Listing, Imported, Calm, Excused
    <3>3. Carries(event.e) => LastWord(m, Visible(db[m]))
      BY <2>2, <3>2 DEF TrueWord, Imported, Answered
    <3>4. Carries(event.e) => ~EventSays(m)
      BY <2>2 DEF Answered, EventSays, Says
    <3> QED BY <1>9, <2>1, <2>2, <2>3, <3>3, <3>4
  <2>4. CASE UNCHANGED runtimeEvents
    BY <1>1, <2>1, <2>4
  <2> QED BY <1>11, <2>3, <2>4, Posted
<1>12. CASE ReportDone
  <2>1. UNCHANGED <<catalogGeneration, runtimeEvents>> /\ at = "report"
    BY <1>12 DEF ReportDone, Ready
  <2>2. ~served
    BY <2>1 DEF Progress
  <2> QED BY <2>1, <2>2 DEF Answered, Carries, Fresh, Current
<1>13. CASE \/ SetActiveCancel \/ PublishCached \/ SeedFromStable \/ UnpackMaps \/ Scan
            \/ ImportBeatmaps \/ Tombstone
  <2>1. /\ UNCHANGED served
        /\ at \in {"arm", "cache", "seed", "unpack", "scan", "import"}
    BY <1>13 DEF SetActiveCancel, InitDatabase, PublishCached, SeedFromStable, UnpackMaps, Scan,
                 ImportBeatmaps, Import, Tombstone, Going, Ready
  <2> QED BY <1>0, <2>1 DEF Progress
<1>14. CASE \/ Idle \/ TakePending \/ Finish \/ LoadRatings
            \/ \E step \in Abortable : Abort(step)
  <2>1. UNCHANGED <<catalogGeneration, runtimeEvents, catalog, closed, unread, silent, gone,
                    disk, db, skipped, misread, unsaid>>
    BY <1>14 DEF Idle, TakePending, Finish, LoadRatings, Abort
  <2> QED BY <1>1, <2>1
<1>15. CASE WriteRatings
  <2>1. UNCHANGED <<catalogGeneration, runtimeEvents, catalog, closed, unread, silent, gone,
                    disk, served, skipped, misread, unsaid>>
    BY <1>15 DEF WriteRatings
  <2>2. Calm(m) /\ ~Excused(m) /\ served
    BY <1>0, <2>1 DEF Imported, Calm, Excused
  <2>3. db'[m] = db[m]
    BY <1>15, <2>2, RatingsWriteTheSame
  <2> QED BY <1>1, <2>1, <2>3
<1> QED BY <1>2, <1>3, <1>4, <1>6, <1>7, <1>8, <1>10, <1>11, <1>12, <1>13, <1>14, <1>15
        DEF Next, User, Refresh, AtRest, Abortable

-----------------------------------------------------------------------------
(* The inductive invariant.                                                  *)

CatalogInvariant ==
    /\ Types /\ Requested /\ Cancelled /\ Progress /\ NotYet
    /\ Fingerprints /\ Work /\ Listing /\ Directory
    /\ Answered /\ Unpacked /\ Heard

LEMMA InitInvariant == Init => CatalogInvariant
<1> SUFFICES ASSUME Init PROVE CatalogInvariant
  OBVIOUS
<1>1. Types
  BY InitTypes
<1>2. /\ catalogGeneration = 1 /\ pending.generation = 1 /\ pending # NoRequest /\ wake
      /\ at = "idle" /\ request = NoRequest /\ NoRequest.generation = 0
  BY DEF Init, NoRequest
<1>3. Requested
  BY <1>2 DEF Requested
<1>4. Cancelled /\ Progress
  BY <1>2 DEF Init, Cancelled, Progress, Reporting
<1>5. NotYet
  BY <1>2 DEF Init, NotYet, NoneFresh
<1>6. Fingerprints
  <2>1. acts = 0 /\ Latest = 1 /\ 0 <= Latest /\ 1 <= Latest
    BY DEF Init, Latest
  <2>2. FileVersions
    BY <2>1 DEF Init, FileVersions, Every
  <2>3. \A m \in Maps : db[m].state # "invalid"
    BY RowFacts DEF Init
  <2>4. DOMAIN toImport = {} /\ DOMAIN corruptNew = {}
    BY DEF Init, Nothing
  <2> QED BY <2>2, <2>3, <2>4 DEF Fingerprints, RowVersions, WorkVersions
<1>7. Work
  BY DEF Init, Work, Emptied, Unrated, Hidden, Apart, Nothing
<1>8. Listing
  BY <1>2 DEF Listing, Told
<1>9. Directory
  BY <1>2 DEF Init, Directory, Compared
<1>10. Answered /\ Unpacked /\ Heard
  BY <1>2 DEF Init, Answered, Unpacked, Heard, Every
<1> QED BY <1>1, <1>3, <1>4, <1>5, <1>6, <1>7, <1>8, <1>9, <1>10 DEF CatalogInvariant

LEMMA NextInvariant == CatalogInvariant /\ [Next]_vars => CatalogInvariant'
BY NextTypes, NextRequested, NextCancelled, NextProgress, NextNotYet, NextFingerprints,
   NextWork, NextListing, NextDirectory, NextAnswered, NextUnpacked, NextHeard
   DEF CatalogInvariant

(* The invariant of every run of the catalog.                                *)
THEOREM Invariance == Spec => []CatalogInvariant
BY InitInvariant, NextInvariant, PTL DEF Spec

-----------------------------------------------------------------------------
(* At rest the launcher shows the database, whatever was cancelled, dropped  *)
(* as stale or published piecemeal on the way (publishCachedCatalog,         *)
(* applyEvent), but for rows that were removed for their missing file and    *)
(* maps whose last report was lost with a failed read of the catalog.        *)
THEOREM ScreenIsTrue == Spec => []ShowsDatabase
<1>1. CatalogInvariant => ShowsDatabase
  <2> SUFFICES ASSUME CatalogInvariant PROVE ShowsDatabase
    OBVIOUS
  <2>1. TypeOK
    BY TypesImplyTypeOK DEF CatalogInvariant
  <2>2. ASSUME Quiet, databaseReady, NEW m \in Maps \ (ghosts \cup untold)
        PROVE  catalog[m] = Visible(db[m])
    <3>1. at = "idle" /\ ~wake /\ event = NoEvent /\ ~closed /\ runtimeEvents = <<>>
      BY <2>2 DEF Quiet
    <3>2. pending = NoRequest
      BY <3>1 DEF CatalogInvariant, Requested
    <3>3. LastWord(m, Visible(db[m]))
      BY <2>2, <3>1, <3>2 DEF CatalogInvariant, Listing, TrueWord, Told
    <3>4. DOMAIN runtimeEvents = {} /\ ~EventSays(m)
      BY <3>1 DEF EventSays
    <3> QED BY <3>3, <3>4 DEF LastWord
  <2> QED BY <2>1, <2>2 DEF ShowsDatabase
<1> QED BY <1>1, Invariance, PTL

(* At rest after a full pass the database agrees with the Songs directory:   *)
(* no change the watcher sees is lost, however it falls into a running,      *)
(* cancelled or superseded pass (importMapsContext, postBeatmapChangedEvent).*)
(* Not of maps that were edited unseen, or whose file or row failed to be    *)
(* read or written in that pass.                                             *)
THEOREM DirectoryIsTrue == Spec => []MatchesDirectory
<1>1. CatalogInvariant => MatchesDirectory
  <2> SUFFICES ASSUME CatalogInvariant, Quiet, served, unread = {},
                      NEW m \in Maps \ (silent \cup skipped \cup misread)
               PROVE  Matches(m)
    BY DEF MatchesDirectory, Matches
  <2>1. Watched(m) /\ Settled(m)
    BY DEF CatalogInvariant, Directory, Compared, Noticed, Watched, Stands, Excused, Quiet
  <2>2. DOMAIN toImport = {} /\ DOMAIN corruptNew = {}
    BY DEF CatalogInvariant, Work, Emptied
  <2> QED BY <2>1, <2>2 DEF Settled
<1> QED BY <1>1, Invariance, PTL

(* A row disappears only when its file was gone at some time since the pass  *)
(* began to compare: never for a directory that could not be read, a file    *)
(* that was replaced by a broken one, or a pass that skips known directories *)
(* (scan.complete, hadPrevious, effectiveSkipDatabaseCheck).                 *)
THEOREM RowsRemovedOnlyIfGone == Spec => RemovedOnlyIfGone
<1>1. ASSUME Types, Work, [Next]_vars, NEW m \in Listed(db), Visible(db'[m]) = NoRow
      PROVE  disk[m] = 0
  <2>1. m \in Maps /\ Visible(db[m]) # NoRow /\ db[m] # NoRow
    BY <1>1, RowFacts DEF Listed, Visible
  <2>2. db'[m] # db[m]
    BY <1>1, <2>1
  <2>3. ASSUME NEW change, Announced(change), \A n \in DOMAIN change : change[n] # NoRow
        PROVE  FALSE
    <3>1. /\ db'[m] = IF m \in DOMAIN change THEN change[m] ELSE db[m]
          /\ m \in DOMAIN change => change[m] \in VisibleRows
      BY <1>1, <2>1, <2>3, Reported
    <3> QED BY <1>1, <2>2, <2>3, <3>1 DEF VisibleRows
  <2>4. ASSUME NEW n \in Maps, SelectMap(n) PROVE disk[m] = 0
    BY <1>1, <2>1, <2>2, <2>4, RemovedAtOnce
  <2>5. CASE SeedFromStable \/ UnpackMaps
    BY <1>1, <2>3, <2>5, SeedsAnnounced, RowFacts
  <2>6. CASE Scan
    <3>1. PICK u \in SUBSET Present, removed \in SUBSET Maps :
             /\ Announced(Every(removed, NoRow)) /\ removed \in {Leftover(u), {}}
             /\ DOMAIN Every(removed, NoRow) = removed
      BY <1>1, <2>2, <2>6, ScanAnnounced
    <3>2. \A n \in Maps : db'[n] = IF n \in DOMAIN Every(removed, NoRow)
                                   THEN Every(removed, NoRow)[n] ELSE db[n]
      BY <1>1, <3>1, Reported
    <3>3. m \in Leftover(u)
      BY <2>1, <2>2, <3>1, <3>2
    <3> QED BY <2>1, <3>3 DEF Leftover, Present
  <2>7. ASSUME NEW n \in Maps, Import(n) PROVE FALSE
    <3>1. \A i \in DOMAIN Every({n}, Row("complete", disk[n])) :
             Every({n}, Row("complete", disk[n]))[i] # NoRow
      BY RowFacts DEF Every
    <3> QED BY <1>1, <2>2, <2>3, <2>7, <3>1, ImportAnnounced DEF RejectMap, SkipMap
  <2>8. CASE Tombstone
    <3>1. at = "import" /\ (db'[m] = db[m] \/ m \in DOMAIN corruptNew)
      BY <2>1, <2>8, TombstoneWrites DEF Tombstone, Going, Ready
    <3> QED BY <1>1, <2>1, <2>2, <3>1 DEF Work, Hidden
  <2>9. CASE WriteRatings
    <3>1. \A n \in DOMAIN rated : rated[n] # NoRow
      BY <1>1, RowFacts DEF Types, PassTypes
    <3> QED BY <1>1, <2>3, <2>9, <3>1, RatingsAnnounced
  <2>10. \/ UNCHANGED vars
         \/ (\E n \in Maps, v \in Versions : ChangeFile(n, v) \/ DropArchive(n, v))
         \/ WatcherWakes \/ WatcherPosts \/ DrainEvent \/ AutoRefresh \/ Close
         \/ PostEvent \/ Idle \/ TakePending \/ SetActiveCancel \/ PublishCached
         \/ ReportDone \/ LoadRatings \/ Finish \/ (\E step \in Abortable : Abort(step))
         => UNCHANGED db
    BY DEF ChangeFile, DropArchive, WatcherWakes, WatcherPosts, DrainEvent, AutoRefresh,
           Close, PostEvent, Idle, TakePending, SetActiveCancel, PublishCached, ReportDone,
           LoadRatings, Finish, Abort
  <2> QED BY <1>1, <2>2, <2>4, <2>5, <2>6, <2>7, <2>8, <2>9, <2>10
          DEF Next, User, Refresh, ImportBeatmaps, AtRest, Abortable
<1>2. CatalogInvariant /\ [Next]_vars =>
        [\A m \in Listed(db) : Visible(db'[m]) = NoRow => m \in gone \/ disk[m] = 0]_vars
  BY <1>1 DEF CatalogInvariant
<1> QED BY <1>2, Invariance, PTL DEF Spec, RemovedOnlyIfGone

(* Only the main thread takes events from the queue.                         *)
LEMMA TailIsDrain ==
    ASSUME Types, [Next]_vars, runtimeEvents # <<>>, runtimeEvents' = Tail(runtimeEvents)
    PROVE  DrainEvent
<1>1. runtimeEvents \in Seq(Events)
  BY DEF Types, QueueTypes
<1>2. runtimeEvents' # runtimeEvents
  BY <1>1
<1>3. \A e \in Events : runtimeEvents' # Append(runtimeEvents, e)
  BY <1>1
<1>4. ~WatcherPosts
  BY <1>2, <1>3, ChangedFacts DEF WatcherPosts
<1>5. ~PostEvent
  BY <1>2, <1>3, Posted
<1>6. \/ UNCHANGED vars
      \/ (\E m \in Maps, v \in Versions : ChangeFile(m, v) \/ DropArchive(m, v))
      \/ (\E m \in Maps : SelectMap(m))
      \/ WatcherWakes \/ AutoRefresh \/ Close
      \/ Idle \/ TakePending \/ SetActiveCancel \/ PublishCached \/ SeedFromStable
      \/ UnpackMaps \/ Scan \/ ImportBeatmaps \/ Tombstone \/ ReportDone \/ LoadRatings
      \/ WriteRatings \/ Finish \/ (\E step \in Abortable : Abort(step))
      => UNCHANGED runtimeEvents
  BY DEF ChangeFile, DropArchive, SelectMap, WatcherWakes, AutoRefresh, Close, Idle,
         TakePending, SetActiveCancel, PublishCached, SeedFromStable, UnpackMaps, Scan,
         ImportBeatmaps, Import, Tombstone, ReportDone, LoadRatings, WriteRatings, Finish, Abort
<1> QED BY <1>2, <1>4, <1>5, <1>6 DEF Next, User, Refresh, AtRest, Abortable

(* "request callbacks run only after the full pass succeeds"                 *)
(* (catalog_coordinator.go:240): when the continuation of a dropped archive  *)
(* runs, the archive has been unpacked, unless the pass had to leave it, and *)
(* the launcher lists its map as the file is, unless the pass failed to read *)
(* the map, to write its row or to report it, or it was changed since.       *)
THEOREM ContinuationsSeeImports == Spec => ContinuationSeesImport
<1>1. ASSUME CatalogInvariant, [Next]_vars, NEW m \in Maps, Continues(m)
      PROVE  /\ archives[m] = 0 \/ m \in packed
             /\ disk[m] \notin Corrupt \cup {0}
                /\ m \notin unread \cup silent \cup gone \cup skipped \cup misread \cup unsaid
                  => IF skipMapUpdate THEN catalog[m] # NoRow \/ db[m].state = "invalid"
                     ELSE catalog[m] = Row("complete", disk[m])
  <2>1. /\ Types /\ Work /\ Directory /\ Answered /\ Unpacked /\ Heard
        /\ db \in [Maps -> Rows]
    BY <1>1 DEF CatalogInvariant, Types, RowTypes
  <2>2. DrainEvent
    BY <1>1, <2>1, TailIsDrain DEF Continues
  <2>3. ~closed /\ 1 \in DOMAIN runtimeEvents /\ Head(runtimeEvents) = runtimeEvents[1]
    BY <2>1, <2>2, Drained DEF DrainEvent, OnMain
  <2>4. Carries(runtimeEvents[1])
    BY <1>1, <2>3 DEF Continues, Carries, Fresh, IsReport
  <2>5. served
    BY <2>1, <2>3, <2>4 DEF Answered
  <2>6. ASSUME disk[m] \notin Corrupt \cup {0}, Calm(m), ~Excused(m), m \notin unsaid
        PROVE  IF skipMapUpdate THEN catalog[m] # NoRow \/ db[m].state = "invalid"
               ELSE catalog[m] = Row("complete", disk[m])
    <3>1. Matches(m)
      BY <2>1, <2>5, <2>6 DEF Directory, Compared, Watched, Stands, Settled, Work, Emptied
    <3>2. /\ db[m] # NoRow
          /\ ~skipMapUpdate => db[m] = Row("complete", disk[m])
      BY <2>6, <3>1, RowFacts DEF Matches, Agrees
    <3>3. CASE db[m].state = "invalid"
      BY <3>2, <3>3, RowFacts
    <3>4. CASE db[m].state # "invalid"
      <4>1. Visible(db[m]) = db[m] /\ Imported(m)
        BY <2>6, <3>2, <3>4 DEF Visible, Imported
      <4>2. WordBefore(1, m, db[m])
        BY <2>1, <2>3, <2>4, <4>1 DEF Heard
      <4>3. \A i \in DOMAIN runtimeEvents : ~(i < 1)
        BY <2>1 DEF Types, QueueTypes
      <4>4. catalog[m] = db[m]
        BY <4>2, <4>3 DEF WordBefore
      <4> QED BY <3>2, <4>4
    <3> QED BY <3>3, <3>4
  <2> QED BY <2>1, <2>5, <2>6 DEF Unpacked, Calm, Excused
<1>2. CatalogInvariant /\ [Next]_vars =>
        [\A m \in Maps : Continues(m) =>
           /\ archives[m] = 0 \/ m \in packed
           /\ disk[m] \notin Corrupt \cup {0}
              /\ m \notin unread \cup silent \cup gone \cup skipped \cup misread \cup unsaid
                => IF skipMapUpdate THEN catalog[m] # NoRow \/ db[m].state = "invalid"
                   ELSE catalog[m] = Row("complete", disk[m])]_vars
  BY <1>1
<1> QED BY <1>2, Invariance, PTL DEF Spec, ContinuationSeesImport
=============================================================================
