------------------------------ MODULE SongSelect ------------------------------
(***************************************************************************)
(* The song-select window of the launcher and its two workers              *)
(* (launcher/songselect_catalog.go, launcher/songselect_thumbnail.go and   *)
(* their users in launcher/songselect.go and launcher/launcher.go).        *)
(*                                                                         *)
(* The main thread asks one worker for a sorted view of every new catalog  *)
(* and the other for the background image of the map under the mouse.      *)
(* Each worker has a slot for the newest request and a slot for the newest *)
(* result; a full slot is emptied before it is filled, so neither side     *)
(* waits for the other.  Both workers have the same steps, written here    *)
(* once for k \in Workers; only views are cancelled while being built, and *)
(* only images own native memory (pixmaps).                                *)
(*                                                                         *)
(* A catalog is a number, 0 for an empty one; a new snapshot is a new      *)
(* number.  A pixmap is named by the revision it was decoded for.          *)
(***************************************************************************)
EXTENDS Naturals, FiniteSets

CONSTANTS
    Paths,      \* background images of the maps
    None,       \* an empty slot, no path, no window
    MaxActs     \* bound: catalog events, sort changes, hovers, drops, closes

Workers == {"views", "thumbs"}

VARIABLES
    catalog, ascending,     \* the current catalog and the sort order
    revision,               \* songSelectCatalogRevision
    view,                   \* songSelectView, None while not ready
    building,               \* songSelectViewBuilding
    window,                 \* the popup's copy of the above, or None
    opened,                 \* the popup is on screen
    hovered,                \* background of the map under the mouse
    path, thumbRevision,    \* thumbnailRequestedPath and thumbnailRevision
    texture,                \* path of the texture shown, or None
    main,                   \* position of the main thread
    requests, results,      \* the two slots of each worker
    worker,                 \* position of each worker and its job
    cancel,                 \* activeCancel: "none", "armed" or "called"
    stop,                   \* the stop channel of each worker is closed
    pixmaps,                \* revision -> "live", "disposed" or "twice"
    acts                    \* bounded by MaxActs

launcherVars == <<catalog, ascending, revision, view, building, window, opened>>
thumbVars    == <<hovered, path, thumbRevision, texture>>
workerVars   == <<requests, results, worker, cancel, stop>>
vars == <<launcherVars, thumbVars, main, workerVars, pixmaps, acts>>

Views   == [revision: 0 .. MaxActs, catalog: 0 .. MaxActs, ascending: BOOLEAN]
Thumbs  == [revision: 0 .. MaxActs, path: Paths]
Jobs    == Views \union Thumbs
Windows == [catalog: 0 .. MaxActs, revision: 0 .. MaxActs,
            view: Views \union {None}, building: BOOLEAN, selectNewest: BOOLEAN]

(* None is no path, no job and no window.                                  *)
ASSUME ParamsAssumption ==
    None \notin Paths \union Jobs \union Windows /\ MaxActs \in Nat

Frame == [at |-> "frame"]
MainSteps == {Frame} \union [at: {"send", "drop", "poll"}, on: Workers, job: Jobs]
                     \union [at: {"close", "join"}, on: Workers]
                     \union [at: {"over"}]

TypeOK ==
    /\ catalog \in 0 .. MaxActs /\ ascending \in BOOLEAN
    /\ revision \in 0 .. MaxActs /\ view \in Views \union {None}
    /\ building \in BOOLEAN /\ opened \in BOOLEAN
    /\ window \in Windows \union {None}
    /\ hovered \in Paths \union {None}
    /\ path \in Paths \union {None} /\ texture \in Paths \union {None}
    /\ thumbRevision \in 0 .. MaxActs
    /\ main \in MainSteps
    /\ \A k \in Workers :
         /\ requests[k] \in Jobs \union {None}
         /\ results[k] \in Jobs \union {None}
         /\ worker[k].at \in {"none", "idle", "arm", "work", "publish",
                              "replace", "put", "done"}
         /\ worker[k].job \in Jobs \union {None}
         /\ stop[k] \in BOOLEAN
    /\ cancel \in {"none", "armed", "called"}
    /\ DOMAIN pixmaps \subseteq 1 .. thumbRevision
    /\ acts \in 0 .. MaxActs

Init ==
    /\ catalog = 0 /\ ascending = FALSE /\ revision = 0
    /\ view = None /\ building = FALSE /\ window = None /\ opened = FALSE
    /\ hovered = None /\ path = None /\ thumbRevision = 0 /\ texture = None
    /\ main = Frame
    /\ requests = [k \in Workers |-> None]
    /\ results = [k \in Workers |-> None]
    /\ worker = [k \in Workers |-> [at |-> "none", job |-> None]]
    /\ cancel = "none" /\ stop = [k \in Workers |-> FALSE]
    /\ pixmaps = <<>> /\ acts = 0

-----------------------------------------------------------------------------
(* Pixmaps: native memory that somebody must free, once.                   *)

(* ps after the result (or no result) r of worker k is thrown away.        *)
HasPixmap(k, r) == k = "thumbs" /\ r # None /\ r.revision \in DOMAIN pixmaps
Disposed(k, r) ==
    IF HasPixmap(k, r)
    THEN [pixmaps EXCEPT ![r.revision] = IF @ = "live" THEN "disposed" ELSE "twice"]
    ELSE pixmaps

-----------------------------------------------------------------------------
(* The launcher and its window.  The steps below run on the main thread.   *)

Act == /\ main = Frame
       /\ acts < MaxActs
       /\ acts' = acts + 1

StartWorker(k) == IF worker[k].at = "none"
                  THEN [worker EXCEPT ![k].at = "idle"] ELSE worker

(* beginCatalogUpdate: w waits for the view of revision r of catalog c.    *)
Begun(w, c, r, b) ==
    IF w = None THEN None
    ELSE [w EXCEPT !.catalog = c, !.revision = r, !.building = b]

(* applyCatalogView: a view of another revision or catalog is refused.     *)
Applied(w, v) ==
    IF w = None \/ v.revision # w.revision \/ v.catalog # w.catalog THEN w
    ELSE [w EXCEPT !.view = v, !.building = FALSE, !.selectNewest = FALSE]

(* requestSongSelectCatalogView: an empty catalog is shown at once, for    *)
(* any other one the worker is asked, after what it is building is         *)
(* cancelled.                                                              *)
RequestView(c) ==
    LET r == revision + 1
        v == [revision |-> r, catalog |-> c, ascending |-> ascending']
        w == Begun(window, c, r, TRUE)
    IN  /\ revision' = r
        /\ IF c = 0
           THEN /\ view' = v /\ building' = FALSE
                /\ window' = Applied(w, v)
                /\ UNCHANGED <<main, worker, cancel>>
           ELSE /\ window' = w
                /\ worker' = StartWorker("views")
                /\ cancel' = IF cancel = "armed" THEN "called" ELSE cancel
                /\ main' = [at |-> "send", on |-> "views", job |-> v]
                /\ UNCHANGED <<view, building>>

(* A catalog snapshot or delta is taken from the event queue (applyEvent)  *)
(* or a row is removed (removeGhostCatalogEntry).                          *)
CatalogEvent ==
    /\ Act
    /\ catalog' \in {0, revision + 1}
    /\ UNCHANGED <<ascending, opened, thumbVars, requests, results, stop, pixmaps>>
    /\ RequestView(catalog')

(* The user changes the order of the list.                                 *)
SortChange ==
    /\ Act /\ opened
    /\ ascending' = ~ascending
    /\ UNCHANGED <<catalog, opened, thumbVars, requests, results, stop, pixmaps>>
    /\ RequestView(catalog)

(* ensureSongSelect: the window is created when first needed and takes     *)
(* over the newest view, or waits for the one being built.                 *)
NewWindow ==
    LET w == [catalog |-> catalog, revision |-> revision, view |-> None,
              building |-> building, selectNewest |-> FALSE]
        v == Applied(Begun(w, view.catalog, view.revision, building), view)
    IN  IF view = None THEN w
        ELSE IF building THEN Begun(v, catalog, revision, TRUE) ELSE v

EnsuredWindow == IF window = None THEN NewWindow ELSE window

(* "Select map", enabled once there is something to select from            *)
(* (mapSelectionAvailability).                                             *)
OpenSelect ==
    /\ Act /\ ~opened
    /\ catalog # 0 /\ view # None /\ view.catalog # 0
    /\ window' = EnsuredWindow
    /\ worker' = StartWorker("thumbs")
    /\ opened' = TRUE
    /\ UNCHANGED <<catalog, ascending, revision, view, building, thumbVars,
                   main, requests, results, cancel, stop, pixmaps>>

(* The continuation of a dropped archive: select its map, now if the list  *)
(* is ready, otherwise with the view being built (selectNewestWhenReady).  *)
SelectNewest ==
    /\ Act
    /\ LET w == EnsuredWindow
       IN  window' = [w EXCEPT !.selectNewest = w.view = None \/ w.building]
    /\ worker' = StartWorker("thumbs")
    /\ UNCHANGED <<catalog, ascending, revision, view, building, opened, thumbVars,
                   main, requests, results, cancel, stop, pixmaps>>

MoveMouse(p) ==
    /\ Act /\ opened
    /\ hovered # p
    /\ hovered' = p
    /\ UNCHANGED <<launcherVars, path, thumbRevision, texture, main, workerVars,
                   pixmaps>>

(* The map under the mouse has another background than the one requested:  *)
(* the image shown is released and the new one requested.                  *)
DrawMapTooltip ==
    /\ main = Frame /\ opened
    /\ hovered # None /\ path # hovered /\ thumbRevision < MaxActs
    /\ texture' = None /\ path' = hovered
    /\ thumbRevision' = thumbRevision + 1
    /\ main' = [at |-> "send", on |-> "thumbs",
                job |-> [revision |-> thumbRevision + 1, path |-> hovered]]
    /\ UNCHANGED <<launcherVars, hovered, workerVars, pixmaps, acts>>

(* The popup is closed; its listener releases the image.                   *)
ClosePopup ==
    /\ Act /\ opened
    /\ opened' = FALSE /\ hovered' = None
    /\ texture' = None /\ path' = None
    /\ UNCHANGED <<catalog, ascending, revision, view, building, window,
                   thumbRevision, main, workerVars, pixmaps>>

-----------------------------------------------------------------------------
(* request: put the job in the slot; while it is full, empty it and retry. *)
(* The third case of the select, a closed stop channel, cannot occur: only *)
(* the main thread closes it, and it requests nothing afterwards.          *)

SendRequest ==
    /\ main.at = "send"
    /\ IF requests[main.on] = None
       THEN /\ requests' = [requests EXCEPT ![main.on] = main.job]
            /\ building' = (building \/ main.on = "views")
            /\ main' = Frame
       ELSE /\ main' = [main EXCEPT !.at = "drop"]
            /\ UNCHANGED <<requests, building>>
    /\ UNCHANGED <<catalog, ascending, revision, view, window, opened, thumbVars,
                   results, worker, cancel, stop, pixmaps, acts>>

DropRequest ==
    /\ main.at = "drop"
    /\ requests' = [requests EXCEPT ![main.on] = None]
    /\ main' = [main EXCEPT !.at = "send"]
    /\ UNCHANGED <<launcherVars, thumbVars, results, worker, cancel, stop,
                   pixmaps, acts>>

-----------------------------------------------------------------------------
(* pollLatest: take results until none is left; the worker may add one in  *)
(* between.  The image slot is polled while the popup is open or a preview *)
(* plays.                                                                  *)

(* Mutant: a result replaced by a newer one is just forgotten.             *)
PollForgets(k) ==
    /\ \/ main = Frame /\ (k = "thumbs" => window # None)
       \/ main.at = "poll" /\ main.on = k
    /\ results[k] # None
    /\ main' = [at |-> "poll", on |-> k, job |-> results[k]]
    /\ results' = [results EXCEPT ![k] = None]
    /\ UNCHANGED <<launcherVars, thumbVars, requests, worker, cancel, stop,
                   pixmaps, acts>>

PollTake(k) ==
    /\ \/ main = Frame /\ (k = "thumbs" => window # None)
       \/ main.at = "poll" /\ main.on = k
    /\ results[k] # None
    /\ pixmaps' = IF main = Frame THEN pixmaps ELSE Disposed(k, main.job)
    /\ main' = [at |-> "poll", on |-> k, job |-> results[k]]
    /\ results' = [results EXCEPT ![k] = None]
    /\ UNCHANGED <<launcherVars, thumbVars, requests, worker, cancel, stop, acts>>

Polled(k) == /\ main.at = "poll" /\ main.on = k
             /\ results[k] = None
             /\ main' = Frame

(* Mutant: every view that arrives is shown.                               *)
ApplyAnyView ==
    /\ Polled("views")
    /\ view' = main.job /\ building' = FALSE
    /\ window' = Applied(window, main.job)
    /\ UNCHANGED <<catalog, ascending, revision, opened, thumbVars,
                   workerVars, pixmaps, acts>>

(* pollSongSelectCatalogView: a view that is not the newest is ignored.    *)
ApplyView ==
    /\ Polled("views")
    /\ LET v == main.job
       IN  IF v.revision = revision /\ v.catalog = catalog
           THEN /\ view' = v /\ building' = FALSE
                /\ window' = Applied(window, v)
           ELSE UNCHANGED <<view, building, window>>
    /\ UNCHANGED <<catalog, ascending, revision, opened, thumbVars,
                   workerVars, pixmaps, acts>>

(* pollThumbnail: an image nobody waits for any more is thrown away; the   *)
(* other becomes the texture shown, and its pixmap is disposed after that. *)
ApplyThumbnail ==
    /\ Polled("thumbs")
    /\ LET r == main.job
       IN  /\ texture' = IF r.revision = thumbRevision /\ r.path = path
                         THEN IF HasPixmap("thumbs", r) THEN r.path ELSE None
                         ELSE texture
           /\ pixmaps' = Disposed("thumbs", r)
    /\ UNCHANGED <<launcherVars, hovered, path, thumbRevision, workerVars, acts>>

-----------------------------------------------------------------------------
(* shutdown: each worker that exists is stopped and joined.                *)

Shutdown ==
    /\ main = Frame
    /\ main' = [at |-> "close", on |-> "views"]
    /\ UNCHANGED <<launcherVars, thumbVars, workerVars, pixmaps, acts>>

After(k) == IF k = "views" THEN [at |-> "close", on |-> "thumbs"]
                           ELSE [at |-> "over"]

(* close: the build in progress is cancelled, or the image released, and   *)
(* the stop channel closed.                                                *)
CloseWorker(k) ==
    /\ main = [at |-> "close", on |-> k]
    /\ IF worker[k].at = "none"
       THEN main' = After(k) /\ UNCHANGED <<stop, cancel, texture, path>>
       ELSE /\ main' = [main EXCEPT !.at = "join"]
            /\ stop' = [stop EXCEPT ![k] = TRUE]
            /\ IF k = "views"
               THEN /\ cancel' = IF cancel = "armed" THEN "called" ELSE cancel
                    /\ UNCHANGED <<texture, path>>
               ELSE /\ texture' = None /\ path' = None
                    /\ UNCHANGED cancel
    /\ UNCHANGED <<launcherVars, hovered, thumbRevision, requests, results, worker,
                   pixmaps, acts>>

(* The worker has ended; an image left in its slot is disposed.            *)
JoinWorker(k) ==
    /\ main = [at |-> "join", on |-> k]
    /\ worker[k].at = "done"
    /\ main' = After(k)
    /\ pixmaps' = Disposed(k, results[k])
    /\ results' = IF k = "thumbs" THEN [results EXCEPT ![k] = None] ELSE results
    /\ UNCHANGED <<launcherVars, thumbVars, requests, worker, cancel, stop, acts>>

Over == main.at = "over" /\ UNCHANGED vars

-----------------------------------------------------------------------------
(* The goroutine of worker k.  Where both the stop channel and a slot are  *)
(* ready, select takes either.                                             *)

StopWorker(k) ==
    /\ worker[k].at = "idle" /\ stop[k]
    /\ worker' = [worker EXCEPT ![k] = [at |-> "done", job |-> None]]
    /\ UNCHANGED <<launcherVars, thumbVars, main, requests, results, cancel,
                   stop, pixmaps, acts>>

ReceiveRequest(k) ==
    /\ worker[k].at = "idle"
    /\ requests[k] # None
    /\ worker' = [worker EXCEPT ![k] =
            [at |-> IF k = "views" THEN "arm" ELSE "work", job |-> requests[k]]]
    /\ requests' = [requests EXCEPT ![k] = None]
    /\ UNCHANGED <<launcherVars, thumbVars, main, results, cancel, stop,
                   pixmaps, acts>>

(* The build can be cancelled from here on.                                *)
ArmCancel ==
    /\ worker["views"].at = "arm"
    /\ cancel' = "armed"
    /\ worker' = [worker EXCEPT !["views"].at = "work"]
    /\ UNCHANGED <<launcherVars, thumbVars, main, requests, results, stop,
                   pixmaps, acts>>

(* buildSongSelectCatalogViewContext and the end of its context.           *)
BuildView ==
    /\ worker["views"].at = "work"
    /\ worker' = [worker EXCEPT !["views"] =
            IF cancel = "called" THEN [at |-> "idle", job |-> None]
                                 ELSE [@ EXCEPT !.at = "publish"]]
    /\ cancel' = "none"
    /\ UNCHANGED <<launcherVars, thumbVars, main, requests, results, stop,
                   pixmaps, acts>>

(* The image is decoded, or cannot be.                                     *)
DecodeImage ==
    /\ worker["thumbs"].at = "work"
    /\ worker' = [worker EXCEPT !["thumbs"].at = "publish"]
    /\ \/ LET r == worker["thumbs"].job.revision
          IN  pixmaps' = [q \in DOMAIN pixmaps \union {r} |->
                            IF q = r THEN "live" ELSE pixmaps[q]]
       \/ UNCHANGED pixmaps
    /\ UNCHANGED <<launcherVars, thumbVars, main, requests, results, cancel,
                   stop, acts>>

(* publishLatest: into the slot if it is empty; otherwise the old result   *)
(* is thrown away first.  A stopped worker throws away its own.            *)
Published(k) ==
    /\ results' = [results EXCEPT ![k] = worker[k].job]
    /\ worker' = [worker EXCEPT ![k] = [at |-> "idle", job |-> None]]
    /\ UNCHANGED pixmaps

GivenUp(k) ==
    /\ worker' = [worker EXCEPT ![k] = [at |-> "idle", job |-> None]]
    /\ pixmaps' = Disposed(k, worker[k].job)
    /\ UNCHANGED results

(* Mutant: a result that finds the slot full is thrown away itself.        *)
PublishOnce(k) ==
    /\ worker[k].at = "publish"
    /\ \/ results[k] = None /\ Published(k)
       \/ (stop[k] \/ results[k] # None) /\ GivenUp(k)
    /\ UNCHANGED <<launcherVars, thumbVars, main, requests, cancel, stop, acts>>

PublishTry(k) ==
    /\ worker[k].at = "publish"
    /\ \/ results[k] = None /\ Published(k)
       \/ stop[k] /\ GivenUp(k)
       \/ /\ results[k] # None /\ ~stop[k]
          /\ worker' = [worker EXCEPT ![k].at = "replace"]
          /\ UNCHANGED <<results, pixmaps>>
    /\ UNCHANGED <<launcherVars, thumbVars, main, requests, cancel, stop, acts>>

PublishReplace(k) ==
    /\ worker[k].at = "replace"
    /\ pixmaps' = Disposed(k, results[k])
    /\ results' = [results EXCEPT ![k] = None]
    /\ worker' = [worker EXCEPT ![k].at = "put"]
    /\ UNCHANGED <<launcherVars, thumbVars, main, requests, cancel, stop, acts>>

PublishPut(k) ==
    /\ worker[k].at = "put"
    /\ \/ results[k] = None /\ Published(k)
       \/ stop[k] /\ GivenUp(k)
    /\ UNCHANGED <<launcherVars, thumbVars, main, requests, cancel, stop, acts>>

-----------------------------------------------------------------------------
Main == \/ SendRequest \/ DropRequest
        \/ ApplyView \/ ApplyThumbnail \/ DrawMapTooltip
        \/ \E k \in Workers : PollTake(k) \/ CloseWorker(k) \/ JoinWorker(k)

Worker(k) == \/ StopWorker(k) \/ ReceiveRequest(k)
             \/ k = "views" /\ (ArmCancel \/ BuildView)
             \/ k = "thumbs" /\ DecodeImage
             \/ PublishTry(k) \/ PublishReplace(k) \/ PublishPut(k)

User == \/ CatalogEvent \/ SortChange \/ OpenSelect \/ SelectNewest
        \/ ClosePopup \/ Shutdown
        \/ \E p \in Paths : MoveMouse(p)

Next == Main \/ User \/ Over \/ \E k \in Workers : Worker(k)

(* The two goroutines run; each frame polls the views, and polls the       *)
(* images and draws the tooltip while the popup is open; what the main     *)
(* thread began it ends.                                                   *)
PollStarts == \/ PollTake("views")
              \/ opened /\ PollTake("thumbs")
MainGoesOn == main # Frame /\ Main

Fairness == /\ \A k \in Workers : WF_vars(Worker(k))
            /\ WF_vars(MainGoesOn)
            /\ WF_vars(PollStarts) /\ WF_vars(DrawMapTooltip)

Spec == Init /\ [][Next]_vars /\ Fairness

-----------------------------------------------------------------------------
(* The jobs of worker k that lead to a result the main thread will look at *)
(* (a build that was cancelled does not).                                  *)
Outstanding(k) ==
    {j \in {requests[k], results[k],
            IF k = "views" /\ worker[k].at = "work" /\ cancel = "called"
            THEN None ELSE worker[k].job,
            IF main.at \in {"send", "drop", "poll"} /\ main.on = k
            THEN main.job ELSE None} : j # None}

Running == main.at \in {"frame", "send", "drop", "poll"}

(* "Updating map list..." is on screen exactly while the newest request    *)
(* is on its way; otherwise the list is that of the current catalog and    *)
(* sort order.  Launcher and window agree, and a selection waits only for  *)
(* a list that will come.                                                  *)
BuildingIsTrue ==
    LET current == [revision |-> revision, catalog |-> catalog,
                    ascending |-> ascending]
    IN  /\ TypeOK
        /\ Running => IF building \/ (main.at \in {"send", "drop"} /\ main.on = "views")
                      THEN current \in Outstanding("views")
                      ELSE revision > 0 => view = current
        /\ main = Frame /\ window # None =>
             /\ window.building = building
             /\ window.view = view
             /\ window.catalog = catalog /\ window.revision = revision
             /\ window.selectNewest => building \/ revision = 0

(* A decoded image is freed exactly once, after everybody who holds it     *)
(* has let go; after shutdown none is left, nor a texture.  The texture    *)
(* shown is the one of the map under the mouse.                            *)
PixmapsOwned ==
    LET holders == {results["thumbs"], worker["thumbs"].job,
                    IF main.at = "poll" /\ main.on = "thumbs" THEN main.job ELSE None}
    IN  /\ \A r \in DOMAIN pixmaps :
             pixmaps[r] = IF \E j \in holders : j # None /\ j.revision = r
                          THEN "live" ELSE "disposed"
        /\ results["thumbs"] # None => results["thumbs"] # worker["thumbs"].job
        /\ texture \in {None, path}
        /\ main.at = "over" => \A r \in DOMAIN pixmaps : pixmaps[r] = "disposed"
        /\ main.at = "over" => texture = None

(* The list implements CatalogDisplay: no list is shown that was not       *)
(* wanted at that moment, and the wanted one comes.                        *)
Display == INSTANCE CatalogDisplay WITH
    wanted <- IF revision = 0 THEN None ELSE <<catalog, ascending>>,
    shown  <- IF view = None THEN None ELSE <<view.catalog, view.ascending>>,
    closed <- ~Running

ViewSpec == Display!Spec

(* The image of the map under the mouse is shown, unless it cannot be      *)
(* decoded, the mouse moves on, or the popup or the launcher closes.       *)
ThumbnailShown ==
    \A p \in Paths :
        hovered = p ~> \/ texture = p
                       \/ hovered # p \/ ~Running
                       \/ /\ path = p /\ Outstanding("thumbs") = {}
                          /\ thumbRevision \notin DOMAIN pixmaps
=============================================================================
