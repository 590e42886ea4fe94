--------------------------- MODULE SongSelectProofs ---------------------------
(* What holds of the song-select window and its two workers for every set of *)
(* background images and every number of events: the list on screen is the   *)
(* current one or is said to be on its way, the window agrees with the       *)
(* launcher, and each decoded image is freed once.                           *)
(*                                                                           *)
(* The heart of it is the order of the jobs of a worker.  A job is asked     *)
(* for, lies in the request slot, is worked on, lies in the result slot and  *)
(* is polled, and on that way every job is newer than those ahead of it.  So *)
(* what a full slot drops is never the newest, and no two hold one image.    *)
EXTENDS SongSelect, TLAPS

-----------------------------------------------------------------------------
(* The inductive invariant.                                                  *)

(* The places where a job of worker k can be, from the newest to the oldest. *)
Asked(k)   == IF main.at \in {"send", "drop"} /\ main.on = k THEN main.job ELSE None
Doing(k)   == worker[k].job
Polling(k) == IF main.at = "poll" /\ main.on = k THEN main.job ELSE None

JobsOf(k) == IF k = "views" THEN Views ELSE Thumbs
Newest(k) == IF k = "views" THEN revision ELSE thumbRevision

(* The types, by who changes what. *)
DisplayType ==
    /\ catalog \in 0 .. revision /\ ascending \in BOOLEAN
    /\ revision \in 0 .. acts /\ acts \in 0 .. MaxActs
    /\ view \in Views \union {None} /\ window \in Windows \union {None}
    /\ building \in BOOLEAN /\ opened \in BOOLEAN

ImageType ==
    /\ hovered \in Paths \union {None} /\ path \in Paths \union {None}
    /\ texture \in Paths \union {None} /\ thumbRevision \in 0 .. MaxActs

MainType ==
    /\ main \in MainSteps
    /\ main.at \in {"send", "drop", "poll"} => main.job \in JobsOf(main.on)

WorkerType ==
    /\ requests \in [Workers -> Jobs \union {None}]
    /\ results \in [Workers -> Jobs \union {None}]
    /\ worker \in [Workers -> [at: {"none", "idle", "arm", "work", "publish",
                                    "replace", "put", "done"},
                               job: Jobs \union {None}]]
    /\ \A k \in Workers :
         {requests[k], results[k], Doing(k)} \subseteq JobsOf(k) \union {None}
    /\ stop \in [Workers -> BOOLEAN] /\ cancel \in {"none", "armed", "called"}

PixmapType ==
    /\ DOMAIN pixmaps \subseteq 1 .. thumbRevision
    /\ pixmaps \in [DOMAIN pixmaps -> {"live", "disposed", "twice"}]

SongTypes == DisplayType /\ ImageType /\ MainType /\ WorkerType /\ PixmapType

(* A job further on its way is an older one. *)
Older(j, others) == j # None => \A i \in others : i # None => j.revision < i.revision

InTurn(k) ==
    /\ Older(requests[k], {Asked(k)})
    /\ Older(Doing(k), {Asked(k), requests[k]})
    /\ Older(results[k], {Asked(k), requests[k], Doing(k)})
    /\ Older(Polling(k), {Asked(k), requests[k], Doing(k), results[k]})
    /\ \A j \in {Asked(k), requests[k], Doing(k), results[k], Polling(k)} :
          j # None => j.revision \in 1 .. Newest(k)

(* Where the two workers and the main thread stand. *)
Standing ==
    /\ \A k \in Workers :
         /\ worker[k].at \in {"none", "idle", "done"} <=> Doing(k) = None
         /\ stop[k] => ~Running
         /\ Asked(k) # None => Asked(k).revision = Newest(k)
         /\ worker[k].at = "none" =>
              requests[k] = None /\ results[k] = None /\ Asked(k) = None /\ Polling(k) = None
         /\ main.at = "join" /\ main.on = k => worker[k].at # "none"
    /\ worker["views"].at = "work" <=> cancel # "none"
    /\ worker["thumbs"].at = "none" <=> window = None
    /\ opened => window # None
    /\ cancel = "called" /\ Running => Doing("views").revision < revision

-----------------------------------------------------------------------------
(* Types.                                                                    *)

LEMMA JobFacts ==
    ASSUME NEW k \in Workers
    PROVE  /\ JobsOf(k) \subseteq Jobs /\ None \notin JobsOf(k) /\ None \notin Jobs
           /\ \A j \in JobsOf(k) : j.revision \in 0 .. MaxActs
BY ParamsAssumption DEF JobsOf, Jobs, Views, Thumbs

LEMMA MainFacts ==
    ASSUME main \in MainSteps
    PROVE  /\ main.at \in {"frame", "send", "drop", "poll", "close", "join", "over"}
           /\ main.at = "frame" <=> main = Frame
           /\ main.at \in {"send", "drop", "poll"} =>
                main = [at |-> main.at, on |-> main.on, job |-> main.job]
                /\ main.on \in Workers /\ main.job \in Jobs
           /\ main.at \in {"close", "join"} =>
                main = [at |-> main.at, on |-> main.on] /\ main.on \in Workers
BY DEF MainSteps, Frame

LEMMA TypesImplyTypeOK == SongTypes => TypeOK
<1> SUFFICES ASSUME SongTypes PROVE TypeOK
  OBVIOUS
<1> USE ParamsAssumption
<1>1. /\ catalog \in 0 .. MaxActs /\ ascending \in BOOLEAN
      /\ revision \in 0 .. MaxActs /\ view \in Views \union {None}
      /\ building \in BOOLEAN /\ opened \in BOOLEAN /\ acts \in 0 .. MaxActs
      /\ window \in Windows \union {None}
  BY DEF SongTypes, DisplayType
<1>2. \A k \in Workers : /\ worker[k].at \in {"none", "idle", "arm", "work", "publish",
                                             "replace", "put", "done"}
                         /\ worker[k].job \in Jobs \union {None}
                         /\ requests[k] \in Jobs \union {None}
                         /\ results[k] \in Jobs \union {None} /\ stop[k] \in BOOLEAN
  BY DEF SongTypes, WorkerType
<1> QED
  BY <1>1, <1>2 DEF SongTypes, ImageType, MainType, WorkerType, PixmapType, TypeOK

LEMMA InitTypes == Init => SongTypes
<1> SUFFICES ASSUME Init PROVE SongTypes
  OBVIOUS
<1> USE ParamsAssumption DEF Init
<1>1. DisplayType
  <2>1. ascending \in BOOLEAN /\ building \in BOOLEAN /\ opened \in BOOLEAN
    BY ZenonT(60)
  <2> QED BY <2>1 DEF DisplayType
<1>2. ImageType
  BY DEF ImageType
<1>3. MainType
  BY DEF MainType, MainSteps, Frame
<1>4. WorkerType
  BY DEF WorkerType, Doing, Workers
<1>5. PixmapType
  BY DEF PixmapType
<1> QED BY <1>1, <1>2, <1>3, <1>4, <1>5 DEF SongTypes

-----------------------------------------------------------------------------
(* How the jobs move: a worker's newest job is new, is put in its slot, is   *)
(* taken from there, worked on, published, polled and used; and it may be    *)
(* dropped anywhere on the way.                                              *)

Places(k) == <<Asked(k), requests[k], Doing(k), results[k], Polling(k)>>

Moves(k) ==
    \/ /\ UNCHANGED Newest(k)
       /\ \/ UNCHANGED Places(k)
          \/ /\ requests[k] = None /\ requests[k]' = Asked(k) /\ Asked(k)' = None
             /\ UNCHANGED <<Doing(k), results[k], Polling(k)>>
          \/ /\ requests[k]' = None
             /\ UNCHANGED <<Asked(k), Doing(k), results[k], Polling(k)>>
          \/ /\ Doing(k) = None /\ Doing(k)' = requests[k] /\ requests[k]' = None
             /\ UNCHANGED <<Asked(k), results[k], Polling(k)>>
          \/ /\ Doing(k)' = None
             /\ \/ UNCHANGED results[k]
                \/ results[k] = None /\ results[k]' = Doing(k)
             /\ UNCHANGED <<Asked(k), requests[k], Polling(k)>>
          \/ /\ results[k]' = None /\ Polling(k)' \in {results[k], Polling(k)}
             /\ UNCHANGED <<Asked(k), requests[k], Doing(k)>>
          \/ /\ Polling(k)' = None
             /\ UNCHANGED <<Asked(k), requests[k], Doing(k), results[k]>>
    \/ /\ Newest(k)' = Newest(k) + 1
       /\ Asked(k) = None
       /\ Asked(k)' # None => Asked(k)'.revision = Newest(k)'
       /\ UNCHANGED <<requests[k], Doing(k), results[k], Polling(k)>>

LEMMA MovesInTurn ==
    ASSUME NEW k \in Workers, Newest(k) \in Nat, InTurn(k), Moves(k)
    PROVE  InTurn(k)'
<1> DEFINE a == Asked(k)
           b == requests[k]
           c == Doing(k)
           d == results[k]
           e == Polling(k)
           n == Newest(k)
<1>1. /\ Older(b, {a}) /\ Older(c, {a, b}) /\ Older(d, {a, b, c})
      /\ Older(e, {a, b, c, d})
      /\ \A j \in {a, b, c, d, e} : j # None => j.revision \in 1 .. n
  BY DEF InTurn
<1>2. \/ /\ n' = n
         /\ \/ a' = a /\ b' = b /\ c' = c /\ d' = d /\ e' = e
            \/ b = None /\ b' = a /\ a' = None /\ c' = c /\ d' = d /\ e' = e
            \/ b' = None /\ a' = a /\ c' = c /\ d' = d /\ e' = e
            \/ c = None /\ c' = b /\ b' = None /\ a' = a /\ d' = d /\ e' = e
            \/ /\ c' = None /\ (d' = d \/ (d = None /\ d' = c))
               /\ a' = a /\ b' = b /\ e' = e
            \/ d' = None /\ e' \in {d, e} /\ a' = a /\ b' = b /\ c' = c
            \/ e' = None /\ a' = a /\ b' = b /\ c' = c /\ d' = d
      \/ /\ n' = n + 1 /\ a = None /\ (a' # None => a'.revision = n')
         /\ b' = b /\ c' = c /\ d' = d /\ e' = e
  BY DEF Moves, Places
<1>3. n \in Nat
  OBVIOUS
<1> HIDE DEF a, b, c, d, e, n
<1>4. /\ Older(b', {a'}) /\ Older(c', {a', b'}) /\ Older(d', {a', b', c'})
      /\ Older(e', {a', b', c', d'})
      /\ \A j \in {a', b', c', d', e'} : j # None => j.revision \in 1 .. n'
  BY <1>1, <1>2, <1>3 DEF Older
<1> QED BY <1>4 DEF InTurn, a, b, c, d, e, n

(* A worker is started, if it was not yet. *)
LEMMA WorkerStarted ==
    ASSUME SongTypes, NEW k \in Workers, worker' = StartWorker(k)
    PROVE  /\ \A i \in Workers : Doing(i)' = Doing(i)
           /\ \A i \in Workers \ {k} : worker'[i] = worker[i]
           /\ worker'[k].at = IF worker[k].at = "none" THEN "idle" ELSE worker[k].at
BY DEF SongTypes, WorkerType, StartWorker, Doing

(* A worker goes on to its next step, maybe with another job. *)
LEMMA WorkerAt ==
    ASSUME SongTypes, NEW k \in Workers
    PROVE  /\ \A w : worker' = [worker EXCEPT ![k] = w] =>
                /\ worker'[k] = w /\ Doing(k)' = w.job
                /\ \A i \in Workers \ {k} : worker'[i] = worker[i] /\ Doing(i)' = Doing(i)
           /\ \A step : worker' = [worker EXCEPT ![k].at = step] =>
                /\ worker'[k].at = step
                /\ \A i \in Workers : Doing(i)' = Doing(i)
                /\ \A i \in Workers \ {k} : worker'[i] = worker[i]
BY DEF SongTypes, WorkerType, Doing

LEMMA MainMoves ==
    ASSUME SongTypes, Standing, Main, NEW k \in Workers
    PROVE  Moves(k)
<1>0. MainType /\ main \in MainSteps
  BY DEF SongTypes, MainType
<1> USE MainFacts DEF Moves, Places
<1>1. CASE SendRequest
  BY <1>0, <1>1 DEF SendRequest, thumbVars, Newest, Asked, Doing, Polling, Frame,
                    SongTypes, WorkerType
<1>2. CASE DropRequest
  BY <1>0, <1>2 DEF DropRequest, launcherVars, thumbVars, Newest, Asked, Doing, Polling,
                    SongTypes, WorkerType
<1>3. CASE ApplyView
  BY <1>0, <1>3 DEF ApplyView, Polled, thumbVars, workerVars, Newest, Asked, Doing,
                    Polling, Frame
<1>4. CASE ApplyThumbnail
  BY <1>0, <1>4 DEF ApplyThumbnail, Polled, launcherVars, workerVars, Newest, Asked,
                    Doing, Polling, Frame
<1>5. CASE DrawMapTooltip
  BY <1>0, <1>5 DEF DrawMapTooltip, launcherVars, workerVars, Newest, Asked, Doing,
                    Polling, Frame, Workers
<1>6. ASSUME NEW i \in Workers, PollTake(i)
      PROVE  Moves(k)
  BY <1>0, <1>6 DEF PollTake, launcherVars, thumbVars, Newest, Asked, Doing, Polling,
                    Frame, SongTypes, WorkerType
<1>7. ASSUME NEW i \in Workers, CloseWorker(i)
      PROVE  Moves(k)
  BY <1>0, <1>7 DEF CloseWorker, After, launcherVars, Newest, Asked, Doing, Polling
<1>8. ASSUME NEW i \in Workers, JoinWorker(i)
      PROVE  Moves(k)
  BY <1>0, <1>8 DEF JoinWorker, After, launcherVars, thumbVars, Newest, Asked, Doing,
                    Polling, SongTypes, WorkerType
<1> QED BY <1>1, <1>2, <1>3, <1>4, <1>5, <1>6, <1>7, <1>8 DEF Main

LEMMA UserMoves ==
    ASSUME SongTypes, User, NEW k \in Workers
    PROVE  Moves(k)
<1>0. MainType /\ main \in MainSteps
  BY DEF SongTypes, MainType
<1> USE DEF Moves, Places
<1>1. CASE CatalogEvent \/ SortChange
  <2>1. /\ main = Frame /\ revision' = revision + 1
        /\ UNCHANGED <<requests, results, thumbRevision>>
    BY <1>1 DEF CatalogEvent, SortChange, Act, RequestView, thumbVars
  <2>2. \A i \in Workers : Doing(i)' = Doing(i)
    BY <1>1, WorkerStarted DEF CatalogEvent, SortChange, RequestView, Doing, Workers
  <2>3. \/ UNCHANGED main
        \/ main'.at = "send" /\ main'.on = "views" /\ main'.job.revision = revision + 1
    <3>1. RequestView(catalog') \/ RequestView(catalog)
      BY <1>1 DEF CatalogEvent, SortChange
    <3>2. ASSUME NEW c, RequestView(c)
          PROVE  \/ UNCHANGED main
                 \/ \E v : main' = [at |-> "send", on |-> "views", job |-> v]
                          /\ v.revision = revision + 1
      <4> DEFINE v == [revision |-> revision + 1, catalog |-> c, ascending |-> ascending']
      <4>1. UNCHANGED main \/ main' = [at |-> "send", on |-> "views", job |-> v]
        BY <3>2, Zenon DEF RequestView
      <4>2. v.revision = revision + 1
        OBVIOUS
      <4> QED BY <4>1, <4>2
    <3> QED BY <3>1, <3>2
  <2> QED BY <2>1, <2>2, <2>3 DEF Asked, Polling, Newest, Frame, Workers
<1>2. CASE OpenSelect \/ SelectNewest
  <2>1. \A i \in Workers : Doing(i)' = Doing(i)
    BY <1>2, WorkerStarted DEF OpenSelect, SelectNewest, Workers
  <2> QED BY <1>2, <2>1 DEF OpenSelect, SelectNewest, thumbVars, Asked, Polling, Newest
<1>3. CASE ClosePopup
  BY <1>3 DEF ClosePopup, workerVars, Asked, Polling, Newest, Doing
<1>4. CASE Shutdown
  BY <1>4 DEF Shutdown, launcherVars, thumbVars, workerVars, Asked, Polling, Newest,
              Doing, Frame
<1>5. ASSUME NEW p \in Paths, MoveMouse(p)
      PROVE  Moves(k)
  BY <1>5 DEF MoveMouse, launcherVars, workerVars, Asked, Polling, Newest, Doing
<1> QED BY <1>1, <1>2, <1>3, <1>4, <1>5 DEF User

LEMMA WorkerMoves ==
    ASSUME SongTypes, Standing, NEW i \in Workers, Worker(i), NEW k \in Workers
    PROVE  Moves(k)
<1>0. UNCHANGED <<launcherVars, thumbVars, main>>
  BY DEF Worker, StopWorker, ReceiveRequest, ArmCancel, BuildView, DecodeImage,
         PublishTry, PublishReplace, PublishPut
<1>1. UNCHANGED <<Newest(k), Asked(k), Polling(k)>>
  BY <1>0 DEF launcherVars, thumbVars, Newest, Asked, Polling
<1>2. CASE k # i
  <2>1. UNCHANGED <<requests[k], results[k], Doing(k)>>
    BY <1>2, WorkerAt
       DEF Worker, StopWorker, ReceiveRequest, ArmCancel, BuildView, DecodeImage,
           PublishTry, PublishReplace, PublishPut, Published, GivenUp, SongTypes,
           WorkerType, Workers
  <2> QED BY <1>1, <2>1 DEF Moves, Places
<1>3. CASE k = i
  <2>0. worker[i].at = "idle" => Doing(i) = None
    BY DEF Standing
  <2>1. CASE StopWorker(i)
    BY <1>1, <1>3, <2>1, WorkerAt DEF StopWorker, Moves, Places
  <2>2. CASE ReceiveRequest(i)
    <3>1. Doing(i)' = requests[i]
      <4> DEFINE w == [at |-> IF i = "views" THEN "arm" ELSE "work", job |-> requests[i]]
      <4>1. worker' = [worker EXCEPT ![i] = w]
        BY <2>2 DEF ReceiveRequest
      <4>2. w.job = requests[i]
        OBVIOUS
      <4> HIDE DEF w
      <4> QED BY <4>1, <4>2, WorkerAt
    <3>2. requests'[i] = None /\ UNCHANGED results
      BY <2>2 DEF ReceiveRequest, SongTypes, WorkerType
    <3> QED BY <1>1, <1>3, <2>0, <2>2, <3>1, <3>2
       DEF ReceiveRequest, Moves, Places, SongTypes, WorkerType
  <2>3. CASE i = "views" /\ (ArmCancel \/ BuildView)
    BY <1>1, <1>3, <2>3, WorkerAt
       DEF ArmCancel, BuildView, Moves, Places, SongTypes, WorkerType, Doing
  <2>4. CASE i = "thumbs" /\ DecodeImage
    BY <1>1, <1>3, <2>4, WorkerAt DEF DecodeImage, Moves, Places
  <2>5. CASE PublishTry(i) \/ PublishPut(i)
    BY <1>1, <1>3, <2>5, WorkerAt
       DEF PublishTry, PublishPut, Published, GivenUp, Moves, Places, SongTypes,
           WorkerType, Doing
  <2>6. CASE PublishReplace(i)
    BY <1>1, <1>3, <2>6, WorkerAt
       DEF PublishReplace, Moves, Places, SongTypes, WorkerType
  <2> QED BY <2>1, <2>2, <2>3, <2>4, <2>5, <2>6 DEF Worker
<1> QED BY <1>2, <1>3

LEMMA NextMoves ==
    ASSUME SongTypes, Standing, [Next]_vars, NEW k \in Workers
    PROVE  Moves(k)
<1>1. CASE UNCHANGED vars
  BY <1>1 DEF vars, launcherVars, thumbVars, workerVars, Moves, Places, Newest, Asked,
              Doing, Polling
<1>2. CASE Over
  BY <1>2 DEF Over, vars, launcherVars, thumbVars, workerVars, Moves, Places, Newest,
              Asked, Doing, Polling
<1> QED BY <1>1, <1>2, MainMoves, UserMoves, WorkerMoves DEF Next

LEMMA NewestNat ==
    ASSUME SongTypes, NEW k \in Workers
    PROVE  Newest(k) \in Nat
BY DEF SongTypes, DisplayType, ImageType, Newest

-----------------------------------------------------------------------------
(* The view the list should show, and how it is asked for.                   *)
Current == [revision |-> revision, catalog |-> catalog, ascending |-> ascending]

LEMMA CurrentFacts ==
    ASSUME DisplayType
    PROVE  /\ Current \in Views /\ Current.revision = revision
           /\ Current.catalog = catalog /\ Current.ascending = ascending
<1> USE ParamsAssumption
<1>1. revision \in 0 .. MaxActs /\ catalog \in 0 .. MaxActs /\ ascending \in BOOLEAN
  BY DEF DisplayType
<1> QED BY <1>1 DEF Current, Views

LEMMA CurrentNext ==
    ASSUME DisplayType'
    PROVE  /\ catalog' \in 0 .. MaxActs /\ revision' \in 0 .. MaxActs
           /\ Current' \in Views /\ Current' # None
           /\ Current'.revision = revision' /\ Current'.catalog = catalog'
<1>1. catalog' \in 0 .. revision' /\ revision' \in 0 .. acts' /\ acts' \in 0 .. MaxActs
  BY DEF DisplayType
<1>2. catalog' \in 0 .. MaxActs /\ revision' \in 0 .. MaxActs
  BY <1>1, ParamsAssumption
<1>3. ascending' \in BOOLEAN
  BY DEF DisplayType
<1>4. Current' \in Views
  BY <1>2, <1>3 DEF Current, Views
<1>5. Current' # None
  BY <1>4, ParamsAssumption DEF Jobs
<1> QED BY <1>2, <1>4, <1>5 DEF Current

LEMMA ViewRequested ==
    ASSUME SongTypes, CatalogEvent \/ SortChange
    PROVE  /\ main = Frame /\ revision' = revision + 1
           /\ acts < MaxActs /\ acts' = acts + 1
           /\ catalog' \in 0 .. revision' /\ ascending' \in BOOLEAN
           /\ UNCHANGED <<opened, thumbVars, requests, results, stop, pixmaps>>
           /\ catalog' = 0 =>
                /\ view' = Current' /\ building' = FALSE
                /\ window' = Applied(Begun(window, catalog', revision', TRUE), Current')
                /\ UNCHANGED <<main, worker, cancel>>
           /\ catalog' # 0 =>
                /\ window' = Begun(window, catalog', revision', TRUE)
                /\ worker' = StartWorker("views")
                /\ cancel' = IF cancel = "armed" THEN "called" ELSE cancel
                /\ main' = [at |-> "send", on |-> "views", job |-> Current']
                /\ UNCHANGED <<view, building>>
<1>1. RequestView(catalog')
  BY DEF CatalogEvent, SortChange
<1>2. revision' = revision + 1
  BY <1>1 DEF RequestView
<1>3. Current' = [revision |-> revision + 1, catalog |-> catalog', ascending |-> ascending']
  BY <1>2 DEF Current
<1> DEFINE v == [revision |-> revision + 1, catalog |-> catalog', ascending |-> ascending']
<1>4. ASSUME catalog' = 0
      PROVE  /\ view' = Current' /\ building' = FALSE
             /\ window' = Applied(Begun(window, catalog', revision', TRUE), Current')
             /\ UNCHANGED <<main, worker, cancel>>
  <2>1. /\ view' = v /\ building' = FALSE
        /\ window' = Applied(Begun(window, catalog', revision + 1, TRUE), v)
        /\ UNCHANGED <<main, worker, cancel>>
    BY <1>1, <1>4, Zenon DEF RequestView
  <2>2. window' = Applied(Begun(window, catalog', revision', TRUE), v)
    BY <1>2, <2>1, Zenon
  <2> QED BY <1>3, <2>1, <2>2, Zenon
<1>5. ASSUME catalog' # 0
      PROVE  /\ window' = Begun(window, catalog', revision', TRUE)
             /\ worker' = StartWorker("views")
             /\ cancel' = IF cancel = "armed" THEN "called" ELSE cancel
             /\ main' = [at |-> "send", on |-> "views", job |-> Current']
             /\ UNCHANGED <<view, building>>
  <2>1. /\ window' = Begun(window, catalog', revision + 1, TRUE)
        /\ worker' = StartWorker("views")
        /\ cancel' = IF cancel = "armed" THEN "called" ELSE cancel
        /\ main' = [at |-> "send", on |-> "views", job |-> v]
        /\ UNCHANGED <<view, building>>
    BY <1>1, <1>5, Zenon DEF RequestView
  <2>2. window' = Begun(window, catalog', revision', TRUE)
    BY <1>2, <2>1, Zenon
  <2>3. main' = [at |-> "send", on |-> "views", job |-> Current']
    BY <1>3, <2>1, Zenon
  <2> QED BY <2>1, <2>2, <2>3
<1>6. ascending' \in BOOLEAN
  BY Zenon DEF CatalogEvent, SortChange, SongTypes, DisplayType
<1>7. /\ main = Frame /\ acts < MaxActs /\ acts' = acts + 1
      /\ UNCHANGED <<opened, thumbVars, requests, results, stop, pixmaps>>
  BY DEF CatalogEvent, SortChange, Act
<1>8. catalog' \in {catalog, 0, revision + 1}
  BY DEF CatalogEvent, SortChange
<1>9. catalog' \in 0 .. revision'
  BY <1>2, <1>8 DEF SongTypes, DisplayType
<1> QED BY <1>2, <1>4, <1>5, <1>6, <1>7, <1>9

LEMMA WindowTypes ==
    ASSUME NEW w \in Windows \union {None}
    PROVE  /\ \A c, r \in 0 .. MaxActs : \A b \in BOOLEAN :
                Begun(w, c, r, b) \in Windows \union {None}
           /\ \A v \in Views : Applied(w, v) \in Windows \union {None}
<1>1. ASSUME NEW c \in 0 .. MaxActs, NEW r \in 0 .. MaxActs, NEW b \in BOOLEAN
      PROVE  Begun(w, c, r, b) \in Windows \union {None}
  BY DEF Begun, Windows
<1>2. ASSUME NEW v \in Views
      PROVE  Applied(w, v) \in Windows \union {None}
  BY DEF Applied, Windows
<1> QED BY <1>1, <1>2

(* The window the launcher has or makes is of its type. *)
LEMMA EnsuredWindowType == DisplayType => EnsuredWindow \in Windows
<1> SUFFICES ASSUME DisplayType PROVE EnsuredWindow \in Windows
  OBVIOUS
<1> USE ParamsAssumption
<1>1. /\ catalog \in 0 .. MaxActs /\ revision \in 0 .. MaxActs
      /\ view \in Views \union {None} /\ window \in Windows \union {None}
  BY DEF DisplayType
<1>2. building \in BOOLEAN
  BY DEF DisplayType
<1> DEFINE w == [catalog |-> catalog, revision |-> revision, view |-> None,
                 building |-> building, selectNewest |-> FALSE]
           b == Begun(w, view.catalog, view.revision, building)
           v == Applied(b, view)
<1>3. w \in Windows
  BY <1>1, <1>2, ZenonT(60) DEF Windows
<1>9. w # None
  BY <1>3
<1>4. NewWindow = IF view = None THEN w
                  ELSE IF building THEN Begun(v, catalog, revision, TRUE) ELSE v
  BY DEF NewWindow
<1>5. ASSUME view # None PROVE v \in Windows /\ Begun(v, catalog, revision, TRUE) \in Windows
  <2>1. view \in Views /\ view.catalog \in 0 .. MaxActs /\ view.revision \in 0 .. MaxActs
    BY <1>1, <1>5 DEF Views
  <2> HIDE DEF w
  <2>2. b \in Windows
    BY <1>2, <1>3, <1>9, <2>1 DEF Begun, Windows
  <2>3. b # None
    BY <2>2
  <2> HIDE DEF b
  <2>4. v \in Windows
    BY <2>1, <2>2 DEF Applied, Windows
  <2> HIDE DEF v
  <2>5. v # None
    BY <2>4
  <2>6. Begun(v, catalog, revision, TRUE) \in Windows
    BY <1>1, <2>4, <2>5 DEF Begun, Windows
  <2> QED BY <2>4, <2>6
<1> HIDE DEF w, v, b
<1>6. NewWindow \in Windows
  BY <1>2, <1>3, <1>4, <1>5
<1> QED BY <1>1, <1>6 DEF EnsuredWindow

LEMMA WindowOpened == DisplayType /\ (OpenSelect \/ SelectNewest) => window' \in Windows
<1> SUFFICES ASSUME DisplayType, OpenSelect \/ SelectNewest PROVE window' \in Windows
  OBVIOUS
<1> DEFINE e == EnsuredWindow
<1>1. e \in Windows
  BY EnsuredWindowType
<1>2. window' = e \/ \E b \in BOOLEAN : window' = [e EXCEPT !.selectNewest = b]
  BY Zenon DEF OpenSelect, SelectNewest
<1> HIDE DEF e
<1> QED BY <1>1, <1>2 DEF Windows

LEMMA DisplayTyped == SongTypes /\ [Next]_vars => DisplayType'
<1> SUFFICES ASSUME SongTypes, [Next]_vars PROVE DisplayType'
  OBVIOUS
<1> USE ParamsAssumption
<1>0. DisplayType
  BY DEF SongTypes
<1>1. CASE CatalogEvent \/ SortChange
  <2>0. /\ revision' = revision + 1 /\ acts < MaxActs /\ acts' = acts + 1
        /\ catalog' \in 0 .. revision' /\ ascending' \in BOOLEAN
    BY <1>1, ViewRequested
  <2>1. /\ revision' \in 0 .. acts' /\ acts' \in 0 .. MaxActs
        /\ catalog' \in 0 .. revision' /\ ascending' \in BOOLEAN
    BY <1>0, <2>0 DEF DisplayType
  <2>2. Current' \in Views
    <3>1. /\ revision' \in 0 .. MaxActs /\ catalog' \in 0 .. MaxActs
          /\ ascending' \in BOOLEAN
      BY <2>1
    <3> QED BY <3>1 DEF Current, Views
  <2>3. Begun(window, catalog', revision', TRUE) \in Windows \union {None}
    <3>1. catalog' \in 0 .. MaxActs /\ revision' \in 0 .. MaxActs
      BY <2>1
    <3> QED BY <1>0, <3>1, WindowTypes DEF DisplayType
  <2>4. Applied(Begun(window, catalog', revision', TRUE), Current') \in Windows \union {None}
    BY <2>2, <2>3, WindowTypes
  <2>5. view' \in Views \union {None} /\ window' \in Windows \union {None}
    BY <1>0, <1>1, <2>2, <2>3, <2>4, ViewRequested DEF DisplayType
  <2>6. building' \in BOOLEAN /\ opened' \in BOOLEAN
    BY <1>0, <1>1, ViewRequested DEF DisplayType
  <2> QED BY <2>1, <2>5, <2>6 DEF DisplayType
<1>2. CASE OpenSelect \/ SelectNewest
  <2>1. /\ UNCHANGED <<catalog, ascending, revision, view, building>>
        /\ acts < MaxActs /\ acts' = acts + 1
    BY <1>2 DEF OpenSelect, SelectNewest, Act
  <2>2. opened' \in BOOLEAN
    BY <1>0, <1>2 DEF OpenSelect, SelectNewest, DisplayType
  <2>3. window' \in Windows
    BY <1>0, <1>2, WindowOpened
  <2>4. building' \in BOOLEAN /\ ascending' \in BOOLEAN
    BY <1>0, <2>1 DEF DisplayType
  <2> QED BY <1>0, <2>1, <2>2, <2>3, <2>4 DEF DisplayType
<1>3. CASE ClosePopup \/ \E p \in Paths : MoveMouse(p)
  <2>1. /\ UNCHANGED <<catalog, ascending, revision, view, building, window>>
        /\ acts < MaxActs /\ acts' = acts + 1
    BY <1>3 DEF ClosePopup, MoveMouse, Act, launcherVars
  <2>2. opened' \in BOOLEAN
    BY <1>0, <1>3 DEF ClosePopup, MoveMouse, launcherVars, DisplayType
  <2>4. building' \in BOOLEAN /\ ascending' \in BOOLEAN
    BY <1>0, <2>1 DEF DisplayType
  <2> QED BY <1>0, <2>1, <2>2, <2>4 DEF DisplayType
<1>4. CASE SendRequest
  <2>1. UNCHANGED <<catalog, ascending, revision, view, window, opened, acts>>
    BY <1>4 DEF SendRequest
  <2>2. building' \in BOOLEAN
    BY <1>0, <1>4, Zenon DEF SendRequest, DisplayType
  <2> QED BY <1>0, <2>1, <2>2 DEF DisplayType
<1>5. CASE ApplyView
  <2>1. UNCHANGED <<catalog, ascending, revision, opened, acts>>
    BY <1>5 DEF ApplyView
  <2>2. main.job \in Views
    BY <1>5 DEF ApplyView, Polled, SongTypes, MainType, JobsOf
  <2>3. \/ view' = main.job /\ building' = FALSE /\ window' = Applied(window, main.job)
        \/ UNCHANGED <<view, building, window>>
    BY <1>5, Zenon DEF ApplyView
  <2>4. Applied(window, main.job) \in Windows \union {None}
    BY <1>0, <2>2, WindowTypes DEF DisplayType
  <2>5. building' \in BOOLEAN
    BY <1>0, <2>3 DEF DisplayType
  <2> QED BY <1>0, <2>1, <2>2, <2>3, <2>4, <2>5 DEF DisplayType
<1>6. CASE UNCHANGED <<launcherVars, acts>>
  BY <1>0, <1>6 DEF launcherVars, DisplayType
<1>7. \/ CatalogEvent \/ SortChange \/ OpenSelect \/ SelectNewest \/ ClosePopup
      \/ (\E p \in Paths : MoveMouse(p)) \/ SendRequest \/ ApplyView
      \/ UNCHANGED <<launcherVars, acts>>
  BY Zenon DEF Next, Main, User, Over, Worker, DropRequest, ApplyThumbnail, DrawMapTooltip,
         PollTake, CloseWorker, JoinWorker, Shutdown, StopWorker, ReceiveRequest,
         ArmCancel, BuildView, DecodeImage, PublishTry, PublishReplace, PublishPut, vars
<1> QED BY <1>1, <1>2, <1>3, <1>4, <1>5, <1>6, <1>7

LEMMA ImageTyped == SongTypes /\ [Next]_vars => ImageType'
<1> SUFFICES ASSUME SongTypes, [Next]_vars PROVE ImageType'
  OBVIOUS
<1> USE ParamsAssumption
<1>0. ImageType
  BY DEF SongTypes
<1>1. CASE ClosePopup
  BY <1>0, <1>1 DEF ClosePopup, ImageType
<1>2. ASSUME NEW p \in Paths, MoveMouse(p) PROVE ImageType'
  BY <1>0, <1>2 DEF MoveMouse, ImageType
<1>3. CASE DrawMapTooltip
  BY <1>0, <1>3 DEF DrawMapTooltip, ImageType
<1>4. CASE ApplyThumbnail
  <2>1. main.job \in Thumbs
    BY <1>4 DEF ApplyThumbnail, Polled, SongTypes, MainType, JobsOf
  <2>2. texture' \in {main.job.path, None, texture}
    BY <1>4 DEF ApplyThumbnail
  <2>3. main.job.path \in Paths
    BY <2>1 DEF Thumbs
  <2> QED BY <1>0, <1>4, <2>2, <2>3 DEF ApplyThumbnail, ImageType
<1>5. ASSUME NEW k \in Workers, CloseWorker(k) PROVE ImageType'
  BY <1>0, <1>5 DEF CloseWorker, ImageType
<1>6. CASE UNCHANGED thumbVars
  BY <1>0, <1>6 DEF thumbVars, ImageType
<1>7. \/ ClosePopup \/ (\E p \in Paths : MoveMouse(p)) \/ DrawMapTooltip \/ ApplyThumbnail
      \/ (\E k \in Workers : CloseWorker(k)) \/ UNCHANGED thumbVars
  BY Zenon DEF Next, Main, User, Over, Worker, DropRequest, SendRequest, ApplyView,
         PollTake, JoinWorker, Shutdown, StopWorker, ReceiveRequest, CatalogEvent,
         SortChange, OpenSelect, SelectNewest,
         ArmCancel, BuildView, DecodeImage, PublishTry, PublishReplace, PublishPut, vars
<1> QED BY <1>1, <1>2, <1>3, <1>4, <1>5, <1>6, <1>7

LEMMA MainTyped == SongTypes /\ [Next]_vars => MainType'
<1> SUFFICES ASSUME SongTypes, [Next]_vars PROVE MainType'
  OBVIOUS
<1> USE ParamsAssumption
<1>0. MainType /\ main \in MainSteps
  BY DEF SongTypes, MainType
<1>1. ASSUME NEW at \in {"send", "drop", "poll"}, NEW k \in Workers, NEW j \in JobsOf(k),
             main' = [at |-> at, on |-> k, job |-> j]
      PROVE  MainType'
  BY <1>1, JobFacts DEF MainType, MainSteps
<1>2. CASE CatalogEvent \/ SortChange
  <2>1. Current' \in Views
    BY DisplayTyped, CurrentNext
  <2>2. UNCHANGED main \/ main' = [at |-> "send", on |-> "views", job |-> Current']
    BY <1>2, ViewRequested
  <2> HIDE DEF Current
  <2> QED BY <1>0, <1>1, <2>1, <2>2 DEF MainType, JobsOf, Workers
<1>3. CASE DrawMapTooltip
  <2>1. [revision |-> thumbRevision + 1, path |-> hovered] \in Thumbs
    BY <1>3 DEF DrawMapTooltip, SongTypes, ImageType, Thumbs
  <2> QED BY <1>1, <1>3, <2>1 DEF DrawMapTooltip, JobsOf, Workers
<1>4. CASE SendRequest \/ DropRequest
  <2>1. \/ main' = Frame
        \/ \E at \in {"send", "drop"} : main' = [at |-> at, on |-> main.on, job |-> main.job]
    BY <1>0, <1>4, MainFacts DEF SendRequest, DropRequest
  <2>2. main.on \in Workers /\ main.job \in JobsOf(main.on)
    BY <1>0, <1>4, MainFacts DEF SendRequest, DropRequest, MainType
  <2> QED BY <1>1, <2>1, <2>2 DEF MainType, MainSteps, Frame
<1>5. CASE ApplyView \/ ApplyThumbnail
  BY <1>5 DEF ApplyView, ApplyThumbnail, Polled, MainType, MainSteps, Frame
<1>6. ASSUME NEW k \in Workers, PollTake(k) PROVE MainType'
  <2>1. results[k] \in JobsOf(k)
    BY <1>6 DEF PollTake, SongTypes, WorkerType
  <2> QED BY <1>1, <1>6, <2>1 DEF PollTake
<1>7. ASSUME NEW k \in Workers, CloseWorker(k) \/ JoinWorker(k) PROVE MainType'
  BY <1>7 DEF CloseWorker, JoinWorker, After, MainType, MainSteps, Workers
<1>8. CASE Shutdown
  BY <1>8 DEF Shutdown, MainType, MainSteps, Workers
<1>9. CASE UNCHANGED main
  BY <1>0, <1>9 DEF MainType
<1>10. \/ CatalogEvent \/ SortChange \/ DrawMapTooltip \/ SendRequest \/ DropRequest
       \/ ApplyView \/ ApplyThumbnail \/ Shutdown \/ UNCHANGED main
       \/ \E k \in Workers : PollTake(k) \/ CloseWorker(k) \/ JoinWorker(k)
  BY Zenon DEF Next, Main, User, Over, Worker, OpenSelect, SelectNewest, ClosePopup,
         MoveMouse, StopWorker, ReceiveRequest,
         ArmCancel, BuildView, DecodeImage, PublishTry, PublishReplace, PublishPut, vars
<1> QED BY <1>2, <1>3, <1>4, <1>5, <1>6, <1>7, <1>8, <1>9, <1>10

(* The steps a worker goes through. *)
Ats == {"none", "idle", "arm", "work", "publish", "replace", "put", "done"}

LEMMA WorkerTyped == SongTypes /\ [Next]_vars => WorkerType'
<1> SUFFICES ASSUME SongTypes, [Next]_vars PROVE WorkerType'
  OBVIOUS
<1> USE ParamsAssumption
<1>0. WorkerType /\ MainType /\ main \in MainSteps
  BY DEF SongTypes, MainType
<1>1. /\ requests \in [Workers -> Jobs \union {None}]
      /\ results \in [Workers -> Jobs \union {None}]
      /\ worker \in [Workers -> [at: Ats, job: Jobs \union {None}]]
      /\ \A k \in Workers : /\ requests[k] \in JobsOf(k) \union {None}
                            /\ results[k] \in JobsOf(k) \union {None}
                            /\ worker[k].job \in JobsOf(k) \union {None}
  BY <1>0 DEF WorkerType, Ats, Doing
<1>2. stop \in [Workers -> BOOLEAN] /\ cancel \in {"none", "armed", "called"}
  BY <1>0 DEF WorkerType
<1>3. stop' \in [Workers -> BOOLEAN]
  <2>1. UNCHANGED stop \/ \E k \in Workers : stop' = [stop EXCEPT ![k] = TRUE]
    BY Zenon DEF Next, Main, User, Over, Worker, DropRequest, SendRequest, ApplyView,
         ApplyThumbnail, DrawMapTooltip, PollTake, JoinWorker, CloseWorker, Shutdown,
         StopWorker, ReceiveRequest, CatalogEvent, SortChange, OpenSelect, SelectNewest,
         ClosePopup, MoveMouse, workerVars,
         ArmCancel, BuildView, DecodeImage, PublishTry, PublishReplace, PublishPut, vars
  <2> QED BY <1>2, <2>1
<1>4. cancel' \in {"none", "armed", "called"}
  <2>1. cancel' \in {"none", "armed", "called", cancel}
    <3>1. CASE CatalogEvent \/ SortChange
      BY <3>1, ViewRequested
    <3>2. CASE ~(CatalogEvent \/ SortChange)
      BY <3>2 DEF Next, Main, User, Over, Worker, DropRequest, SendRequest, ApplyView,
         ApplyThumbnail, DrawMapTooltip, PollTake, JoinWorker, CloseWorker, Shutdown,
         StopWorker, ReceiveRequest, OpenSelect, SelectNewest,
         ClosePopup, MoveMouse, workerVars,
         ArmCancel, BuildView, DecodeImage, PublishTry, PublishReplace, PublishPut, vars
    <3> QED BY <3>1, <3>2
  <2> QED BY <1>2, <2>1
<1>5. /\ requests' \in [Workers -> Jobs \union {None}]
      /\ \A k \in Workers : requests'[k] \in JobsOf(k) \union {None}
  <2>1. \/ UNCHANGED requests
        \/ \E k \in Workers : requests' = [requests EXCEPT ![k] = None]
        \/ SendRequest /\ requests' = [requests EXCEPT ![main.on] = main.job]
    <3>1. CASE SendRequest \/ DropRequest
      BY <1>0, <3>1, MainFacts DEF SendRequest, DropRequest
    <3>2. CASE ~(SendRequest \/ DropRequest \/ CatalogEvent \/ SortChange)
      BY <3>2, Zenon DEF Next, Main, User, Over, Worker, ApplyView,
         ApplyThumbnail, DrawMapTooltip, PollTake, JoinWorker, CloseWorker, Shutdown,
         StopWorker, ReceiveRequest, OpenSelect, SelectNewest,
         ClosePopup, MoveMouse, workerVars,
         ArmCancel, BuildView, DecodeImage, PublishTry, PublishReplace, PublishPut, vars
    <3>3. CASE CatalogEvent \/ SortChange
      BY <3>3, ViewRequested
    <3> QED BY <3>1, <3>2, <3>3
  <2>2. SendRequest => main.on \in Workers /\ main.job \in JobsOf(main.on)
    BY <1>0, MainFacts DEF SendRequest, MainType
  <2> QED BY <1>1, <2>1, <2>2, JobFacts
<1>6. /\ results' \in [Workers -> Jobs \union {None}]
      /\ \A k \in Workers : results'[k] \in JobsOf(k) \union {None}
  <2>1. \/ UNCHANGED results
        \/ \E k \in Workers : \/ results' = [results EXCEPT ![k] = None]
                              \/ results' = [results EXCEPT ![k] = worker[k].job]
    <3>1. CASE ~(CatalogEvent \/ SortChange)
      BY <3>1, Zenon DEF Next, Main, User, Over, Worker, SendRequest, DropRequest, ApplyView,
         ApplyThumbnail, DrawMapTooltip, PollTake, JoinWorker, CloseWorker, Shutdown,
         StopWorker, ReceiveRequest, OpenSelect, SelectNewest,
         ClosePopup, MoveMouse, workerVars, Published, GivenUp,
         ArmCancel, BuildView, DecodeImage, PublishTry, PublishReplace, PublishPut, vars
    <3>2. CASE CatalogEvent \/ SortChange
      BY <3>2, ViewRequested
    <3> QED BY <3>1, <3>2
  <2> QED BY <1>1, <2>1, JobFacts
<1>7. /\ worker' \in [Workers -> [at: Ats, job: Jobs \union {None}]]
      /\ \A k \in Workers : worker'[k].job \in JobsOf(k) \union {None}
  <2>1. ASSUME NEW k \in Workers, NEW at \in Ats, NEW j \in JobsOf(k) \union {None},
               worker' = [worker EXCEPT ![k] = [at |-> at, job |-> j]]
        PROVE  /\ worker' \in [Workers -> [at: Ats, job: Jobs \union {None}]]
               /\ \A i \in Workers : worker'[i].job \in JobsOf(i) \union {None}
    BY <1>1, <2>1, JobFacts
  <2>2. ASSUME NEW k \in Workers, NEW at \in Ats,
               worker' = [worker EXCEPT ![k].at = at]
        PROVE  /\ worker' \in [Workers -> [at: Ats, job: Jobs \union {None}]]
               /\ \A i \in Workers : worker'[i].job \in JobsOf(i) \union {None}
    BY <1>1, <2>2
  <2>3. ASSUME NEW k \in Workers, worker' = StartWorker(k)
        PROVE  UNCHANGED worker \/ worker' = [worker EXCEPT ![k].at = "idle"]
    BY <2>3 DEF StartWorker
  <2>4. CASE CatalogEvent \/ SortChange \/ OpenSelect \/ SelectNewest
    <3>1. UNCHANGED worker \/ \E k \in Workers : worker' = StartWorker(k)
      BY <2>4, ViewRequested DEF OpenSelect, SelectNewest, Workers
    <3> QED BY <1>1, <2>2, <2>3, <3>1 DEF Ats
  <2>5. ASSUME NEW k \in Workers, Worker(k)
        PROVE  \/ \E at \in Ats : worker' = [worker EXCEPT ![k].at = at]
               \/ \E at \in Ats, j \in {None, requests[k]} :
                     worker' = [worker EXCEPT ![k] = [at |-> at, job |-> j]]
    <3>1. CASE ReceiveRequest(k)
      <4> DEFINE at == IF k = "views" THEN "arm" ELSE "work"
      <4>1. at \in Ats
        BY DEF Ats
      <4>2. worker' = [worker EXCEPT ![k] = [at |-> at, job |-> requests[k]]]
        BY <3>1 DEF ReceiveRequest
      <4> HIDE DEF at
      <4> QED BY <4>1, <4>2
    <3>2. CASE k = "views" /\ BuildView
      <4>1. \/ worker' = [worker EXCEPT !["views"] = [at |-> "idle", job |-> None]]
            \/ worker' = [worker EXCEPT !["views"].at = "publish"]
        BY <3>2 DEF BuildView
      <4> QED BY <3>2, <4>1 DEF Ats
    <3>4. CASE (k = "views" /\ ArmCancel) \/ (k = "thumbs" /\ DecodeImage)
      BY <3>4 DEF ArmCancel, DecodeImage, Ats
    <3>3. CASE \/ StopWorker(k) \/ PublishTry(k) \/ PublishReplace(k) \/ PublishPut(k)
      <4>1. \/ worker' = [worker EXCEPT ![k] = [at |-> "done", job |-> None]]
            \/ worker' = [worker EXCEPT ![k] = [at |-> "idle", job |-> None]]
            \/ worker' = [worker EXCEPT ![k].at = "replace"]
            \/ worker' = [worker EXCEPT ![k].at = "put"]
        BY <3>3, Zenon DEF StopWorker, PublishTry, PublishReplace, PublishPut, Published, GivenUp
      <4> QED BY <4>1 DEF Ats
    <3> QED BY <2>5, <3>1, <3>2, <3>3, <3>4 DEF Worker
  <2>6. CASE \E k \in Workers : Worker(k)
    BY <1>1, <2>1, <2>2, <2>5, <2>6
  <2>7. \/ CatalogEvent \/ SortChange \/ OpenSelect \/ SelectNewest
        \/ (\E k \in Workers : Worker(k)) \/ UNCHANGED worker
    BY Zenon DEF Next, Main, User, Over, DropRequest, SendRequest, ApplyView,
         ApplyThumbnail, DrawMapTooltip, PollTake, JoinWorker, CloseWorker, Shutdown,
         ClosePopup, MoveMouse, workerVars, vars
  <2> QED BY <1>1, <2>4, <2>6, <2>7
<1> QED BY <1>3, <1>4, <1>5, <1>6, <1>7 DEF WorkerType, Ats, Doing

-----------------------------------------------------------------------------
(* Pixmaps.                                                                  *)

LEMMA DisposedType ==
    ASSUME NEW k, NEW r, PixmapType
    PROVE  /\ DOMAIN Disposed(k, r) = DOMAIN pixmaps
           /\ Disposed(k, r) \in [DOMAIN pixmaps -> {"live", "disposed", "twice"}]
           /\ \A q \in DOMAIN pixmaps :
                Disposed(k, r)[q] = IF k = "thumbs" /\ r # None /\ q = r.revision
                                    THEN IF pixmaps[q] = "live" THEN "disposed" ELSE "twice"
                                    ELSE pixmaps[q]
BY DEF Disposed, HasPixmap, PixmapType

(* What a step does to the pixmaps: nothing, the disposal of the result (or  *)
(* none) it names, or a new one for the job being decoded.                   *)
LEMMA PixmapSteps ==
    ASSUME [Next]_vars
    PROVE  \/ UNCHANGED pixmaps
           \/ \E k, r : pixmaps' = Disposed(k, r)
           \/ DecodeImage
BY Zenon DEF Next, Main, User, Over, Worker, DropRequest, SendRequest, ApplyView,
         ApplyThumbnail, DrawMapTooltip, PollTake, JoinWorker, CloseWorker, Shutdown,
         StopWorker, ReceiveRequest, CatalogEvent, SortChange, OpenSelect, SelectNewest,
         ClosePopup, MoveMouse, Published, GivenUp,
         ArmCancel, BuildView, PublishTry, PublishReplace, PublishPut, vars, Workers

LEMMA PixmapTyped ==
    ASSUME SongTypes, Standing, InTurn("thumbs"), [Next]_vars
    PROVE  PixmapType'
<1>0. PixmapType /\ thumbRevision \in Nat
  BY DEF SongTypes, ImageType
<1>1. thumbRevision' \in {thumbRevision, thumbRevision + 1}
  BY NextMoves DEF Moves, Newest, Workers
<1>2. 1 .. thumbRevision \subseteq 1 .. thumbRevision'
  BY <1>0, <1>1
<1>3. CASE UNCHANGED pixmaps
  BY <1>0, <1>2, <1>3 DEF PixmapType
<1>4. ASSUME NEW k, NEW r, pixmaps' = Disposed(k, r)
      PROVE  PixmapType'
  BY <1>0, <1>2, <1>4, DisposedType DEF PixmapType
<1>5. CASE DecodeImage
  <2> DEFINE r == worker["thumbs"].job.revision
  <2>1. r \in 1 .. thumbRevision
    BY <1>5 DEF DecodeImage, Standing, Doing, InTurn, Newest, Workers
  <2>2. \/ pixmaps' = [q \in DOMAIN pixmaps \union {r} |->
                            IF q = r THEN "live" ELSE pixmaps[q]]
        \/ UNCHANGED pixmaps
    BY <1>5 DEF DecodeImage
  <2> HIDE DEF r
  <2> QED BY <1>0, <1>2, <2>1, <2>2 DEF PixmapType
<1> QED BY <1>3, <1>4, <1>5, PixmapSteps

LEMMA SongTyped ==
    ASSUME SongTypes, Standing, InTurn("thumbs"), [Next]_vars
    PROVE  SongTypes'
BY DisplayTyped, ImageTyped, MainTyped, WorkerTyped, PixmapTyped DEF SongTypes

-----------------------------------------------------------------------------
(* Where everybody stands.                                                   *)

(* Once it shuts down the main thread only closes and joins the workers.     *)
LEMMA ShuttingDown ==
    ASSUME MainType, [Next]_vars, ~Running
    PROVE  /\ \/ UNCHANGED vars \/ \E k \in Workers : CloseWorker(k) \/ JoinWorker(k) \/ Worker(k)
           /\ ~Running'
<1>0. main \in MainSteps /\ main.at \in {"close", "join", "over"} /\ main # Frame
  BY MainFacts DEF MainType, Running
<1>1. ~(CatalogEvent \/ SortChange)
  BY <1>0 DEF CatalogEvent, SortChange, Act
<1>2. ~(OpenSelect \/ SelectNewest \/ ClosePopup \/ Shutdown \/ \E p \in Paths : MoveMouse(p))
  BY <1>0, Zenon DEF OpenSelect, SelectNewest, ClosePopup, Shutdown, MoveMouse, Act
<1>3. ~(SendRequest \/ DropRequest \/ ApplyView \/ ApplyThumbnail \/ DrawMapTooltip)
  BY <1>0 DEF SendRequest, DropRequest, ApplyView, ApplyThumbnail, DrawMapTooltip, Polled
<1>4. \A k \in Workers : ~PollTake(k)
  BY <1>0 DEF PollTake
<1>5. \/ UNCHANGED vars \/ \E k \in Workers : CloseWorker(k) \/ JoinWorker(k) \/ Worker(k)
  BY <1>1, <1>2, <1>3, <1>4, Zenon DEF Next, Main, User, Over
<1>6. main' = main \/ main'.at \in {"close", "join", "over"}
  <2>1. ASSUME NEW k \in Workers, CloseWorker(k) \/ JoinWorker(k)
        PROVE  main'.at \in {"close", "join", "over"}
    BY <2>1 DEF CloseWorker, JoinWorker, After
  <2>2. ASSUME NEW k \in Workers, Worker(k) PROVE UNCHANGED main
    BY <2>2, Zenon DEF Worker, StopWorker, ReceiveRequest, ArmCancel, BuildView, DecodeImage,
                PublishTry, PublishReplace, PublishPut
  <2> QED BY <1>5, <2>1, <2>2 DEF vars
<1> QED BY <1>0, <1>5, <1>6 DEF Running

(* Begin and apply make no window and take none away. *)
LEMMA WindowKept ==
    ASSUME DisplayType, NEW w \in Windows \union {None}
    PROVE  /\ \A c, r \in 0 .. MaxActs : \A b \in BOOLEAN : Begun(w, c, r, b) = None <=> w = None
           /\ \A v \in Views : Applied(w, v) = None <=> w = None
<1> USE ParamsAssumption
<1>1. ASSUME NEW c \in 0 .. MaxActs, NEW r \in 0 .. MaxActs, NEW b \in BOOLEAN
      PROVE  Begun(w, c, r, b) = None <=> w = None
  <2>1. w # None => Begun(w, c, r, b) \in Windows
    BY DEF Begun, Windows
  <2> QED BY <2>1 DEF Begun
<1>2. ASSUME NEW v \in Views
      PROVE  Applied(w, v) = None <=> w = None
  <2>1. w # None => Applied(w, v) \in Windows
    BY DEF Applied, Windows
  <2> QED BY <2>1 DEF Applied
<1> QED BY <1>1, <1>2

LEMMA MainStands ==
    ASSUME SongTypes, Standing, SongTypes', Main
    PROVE  Standing'
<1>0. MainType /\ main \in MainSteps /\ WorkerType /\ MainType' /\ main' \in MainSteps
  BY DEF SongTypes, MainType
<1> USE MainFacts DEF Running, Asked, Polling, Doing, Newest
<1>1. CASE SendRequest
  <2>1. /\ UNCHANGED <<revision, thumbRevision, worker, results, stop, cancel, window, opened>>
        /\ main.at = "send" /\ main.on \in Workers
        /\ requests' = [requests EXCEPT ![main.on] = main.job] \/ UNCHANGED requests
        /\ main'.at \in {"frame", "drop"}
        /\ main'.at = "drop" => main'.on = main.on /\ main'.job = main.job
    BY <1>0, <1>1 DEF SendRequest, thumbVars, Frame
  <2> QED BY <1>0, <2>1 DEF Standing, WorkerType
<1>2. CASE DropRequest
  <2>1. /\ UNCHANGED <<revision, thumbRevision, worker, results, stop, cancel, window, opened>>
        /\ main.at = "drop" /\ main.on \in Workers
        /\ requests' = [requests EXCEPT ![main.on] = None]
        /\ main'.at = "send" /\ main'.on = main.on /\ main'.job = main.job
    BY <1>0, <1>2 DEF DropRequest, thumbVars, launcherVars
  <2> QED BY <1>0, <2>1 DEF Standing, WorkerType
<1>3. CASE ApplyView \/ ApplyThumbnail
  <2>1. /\ UNCHANGED <<revision, thumbRevision, worker, results, requests, stop, cancel,
                         opened>>
        /\ window' = None <=> window = None
        /\ main.at = "poll" /\ main' = Frame
    <3>1. CASE ApplyView
      <4>1. main.job \in Views
        BY <1>0, <3>1 DEF ApplyView, Polled, MainType, JobsOf
      <4>2. window' \in {window, Applied(window, main.job)}
        BY <3>1, Zenon DEF ApplyView
      <4>3. window' = None <=> window = None
        BY <4>1, <4>2, WindowKept DEF SongTypes, DisplayType
      <4> QED BY <1>0, <3>1, <4>3 DEF ApplyView, Polled, thumbVars, workerVars
    <3>2. CASE ApplyThumbnail
      BY <1>0, <3>2 DEF ApplyThumbnail, Polled, launcherVars, workerVars
    <3> QED BY <1>3, <3>1, <3>2
  <2> QED BY <1>0, <2>1 DEF Standing, Frame
<1>4. CASE DrawMapTooltip
  <2>1. /\ UNCHANGED <<revision, worker, results, requests, stop, cancel, window, opened>>
        /\ main = Frame /\ main'.at = "send" /\ main'.on = "thumbs"
        /\ thumbRevision' = thumbRevision + 1
        /\ main'.job.revision = thumbRevision'
        /\ worker["thumbs"].at # "none"
    BY <1>0, <1>4 DEF Standing, DrawMapTooltip, launcherVars, workerVars
  <2> QED BY <1>0, <2>1 DEF Standing, Frame, Workers
<1>5. ASSUME NEW k \in Workers, PollTake(k) PROVE Standing'
  <2>1. /\ UNCHANGED <<revision, thumbRevision, worker, requests, stop, cancel, window, opened>>
        /\ results' = [results EXCEPT ![k] = None] /\ results[k] # None
        /\ main'.at = "poll" /\ main'.on = k /\ main.at \in {"frame", "poll"}
    BY <1>5 DEF PollTake, launcherVars, thumbVars, Frame
  <2> QED BY <1>0, <2>1 DEF Standing, WorkerType
<1>6. ASSUME NEW k \in Workers, CloseWorker(k) PROVE Standing'
  <2>1. /\ UNCHANGED <<revision, thumbRevision, worker, requests, results, window, opened>>
        /\ main.at = "close"
        /\ \/ UNCHANGED <<stop, cancel>> /\ main'.at \in {"close", "over"}
           \/ /\ main'.at = "join" /\ main'.on = k /\ worker[k].at # "none"
              /\ stop' = [stop EXCEPT ![k] = TRUE]
              /\ cancel' = cancel \/ (cancel = "armed" /\ cancel' = "called")
    BY <1>6 DEF CloseWorker, After, launcherVars
  <2> QED BY <1>0, <2>1 DEF Standing, WorkerType
<1>7. ASSUME NEW k \in Workers, JoinWorker(k) PROVE Standing'
  <2>1. /\ UNCHANGED <<revision, thumbRevision, worker, requests, stop, cancel, window, opened>>
        /\ main.at = "join" /\ main'.at \in {"close", "over"}
        /\ results' \in {results, [results EXCEPT !["thumbs"] = None]}
    BY <1>7 DEF JoinWorker, After, launcherVars, thumbVars
  <2> QED BY <1>0, <2>1 DEF Standing, WorkerType
<1> QED BY <1>1, <1>2, <1>3, <1>4, <1>5, <1>6, <1>7 DEF Main

LEMMA WindowRequested ==
    ASSUME SongTypes, SongTypes', CatalogEvent \/ SortChange
    PROVE  window' = None <=> window = None
<1>1. /\ catalog' \in 0 .. MaxActs /\ revision' \in 0 .. MaxActs
      /\ Current' \in Views /\ DisplayType
  BY CurrentNext DEF SongTypes
<1> DEFINE b == Begun(window, catalog', revision', TRUE)
           a == Applied(b, Current')
<1>3. b = None <=> window = None
  BY <1>1, WindowKept DEF DisplayType
<1>4. b \in Windows \union {None}
  BY <1>1, WindowTypes DEF DisplayType
<1>5. a = None <=> b = None
  <2> HIDE DEF b
  <2> QED BY <1>1, <1>4, WindowKept
<1>6. window' = a \/ window' = b
  BY ViewRequested
<1> QED BY <1>3, <1>5, <1>6

(* Nobody closes the window for good. *)
LEMMA WindowLasts ==
    ASSUME SongTypes, SongTypes', [Next]_vars
    PROVE  window # None => window' # None
<1>0. DisplayType /\ MainType
  BY DEF SongTypes
<1>1. CASE CatalogEvent \/ SortChange
  BY <1>1, WindowRequested
<1>2. CASE OpenSelect \/ SelectNewest
  BY <1>0, <1>2, WindowOpened, ParamsAssumption
<1>3. CASE ApplyView
  <2>1. main.job \in Views
    BY <1>0, <1>3 DEF ApplyView, Polled, MainType, JobsOf
  <2>2. window' \in {window, Applied(window, main.job)}
    BY <1>3, Zenon DEF ApplyView
  <2> QED BY <1>0, <2>1, <2>2, WindowKept DEF DisplayType
<1>4. CASE UNCHANGED window
  BY <1>4
<1>5. \/ CatalogEvent \/ SortChange \/ OpenSelect \/ SelectNewest \/ ApplyView
      \/ UNCHANGED window
  BY Zenon DEF Next, Main, User, Over, Worker, SendRequest, DropRequest,
         ApplyThumbnail, DrawMapTooltip, PollTake, JoinWorker, CloseWorker, Shutdown,
         StopWorker, ReceiveRequest, ClosePopup, MoveMouse, launcherVars,
         ArmCancel, BuildView, DecodeImage, PublishTry, PublishReplace, PublishPut, vars
<1> QED BY <1>1, <1>2, <1>3, <1>4, <1>5

LEMMA UserStands ==
    ASSUME SongTypes, Standing, SongTypes', User, InTurn("views")
    PROVE  Standing'
<1>0. MainType /\ main \in MainSteps /\ WorkerType /\ MainType' /\ main' \in MainSteps
  BY DEF SongTypes, MainType
<1> USE ParamsAssumption, MainFacts DEF Running, Asked, Polling, Doing, Newest
<1>1. CASE CatalogEvent \/ SortChange
  <2>1. /\ UNCHANGED <<thumbRevision, requests, results, stop, opened>>
        /\ main = Frame /\ revision' = revision + 1
    BY <1>1, ViewRequested DEF thumbVars
  <2>2. /\ window' = None <=> window = None
    BY <1>1, WindowRequested
  <2>6. /\ Doing("views") # None => Doing("views").revision < revision'
        /\ worker["views"].at = "work" => Doing("views") # None
    BY <2>1 DEF InTurn, SongTypes, DisplayType, Standing, Workers
  <2>3. \/ catalog' = 0 /\ UNCHANGED <<main, worker, cancel>>
        \/ /\ worker' = StartWorker("views")
           /\ cancel' = IF cancel = "armed" THEN "called" ELSE cancel
           /\ main' = [at |-> "send", on |-> "views", job |-> Current']
    BY <1>1, ViewRequested
  <2>4. CASE catalog' = 0 /\ UNCHANGED <<main, worker, cancel>>
    BY <1>0, <2>1, <2>2, <2>4, <2>6 DEF Standing, Frame, Workers
  <2>5. CASE /\ worker' = StartWorker("views")
             /\ cancel' = IF cancel = "armed" THEN "called" ELSE cancel
             /\ main' = [at |-> "send", on |-> "views", job |-> Current']
    <3>1. main'.at = "send" /\ main'.on = "views" /\ main'.job.revision = revision'
      BY <2>5 DEF Current
    <3>2. /\ \A i \in Workers : Doing(i)' = Doing(i)
          /\ worker'["thumbs"] = worker["thumbs"]
          /\ worker'["views"].at = IF worker["views"].at = "none" THEN "idle" ELSE worker["views"].at
      BY <2>5, WorkerStarted DEF Workers
    <3>3. cancel' # "none" <=> cancel # "none"
      BY <2>5
    <3> QED BY <1>0, <2>1, <2>2, <2>6, <3>1, <3>2, <3>3 DEF Standing, Frame, Workers
  <2> QED BY <2>3, <2>4, <2>5
<1>2. CASE OpenSelect \/ SelectNewest
  <2>1. /\ UNCHANGED <<revision, thumbRevision, main, requests, results, stop, cancel>>
        /\ worker' = StartWorker("thumbs")
    BY <1>2 DEF OpenSelect, SelectNewest, thumbVars
  <2>2. window' # None
    BY <1>2, WindowOpened DEF SongTypes
  <2>3. /\ \A i \in Workers : Doing(i)' = Doing(i)
        /\ worker'["views"] = worker["views"]
        /\ worker'["thumbs"].at = IF worker["thumbs"].at = "none" THEN "idle" ELSE worker["thumbs"].at
    BY <2>1, WorkerStarted DEF Workers
  <2> QED BY <1>0, <2>1, <2>2, <2>3 DEF Standing, Workers
<1>3. CASE ClosePopup \/ Shutdown \/ \E p \in Paths : MoveMouse(p)
  <2>1. /\ UNCHANGED <<revision, thumbRevision, worker, requests, results, window, stop, cancel>>
        /\ opened' => opened
        /\ \/ UNCHANGED main
           \/ main = Frame /\ main'.at = "close"
    BY <1>3 DEF ClosePopup, Shutdown, MoveMouse, launcherVars, thumbVars, workerVars
  <2> QED BY <1>0, <2>1 DEF Standing, Frame, Workers
<1> QED BY <1>1, <1>2, <1>3 DEF User

LEMMA WorkerStands ==
    ASSUME SongTypes, Standing, SongTypes', NEW k \in Workers, Worker(k)
    PROVE  Standing'
<1>0. WorkerType /\ WorkerType'
  BY DEF SongTypes
<1>1. UNCHANGED <<launcherVars, thumbVars, main, stop>>
  BY DEF Worker, StopWorker, ReceiveRequest, ArmCancel, BuildView, DecodeImage,
         PublishTry, PublishReplace, PublishPut
<1>2. /\ UNCHANGED <<revision, thumbRevision, window, opened, main, stop>>
      /\ \A i \in Workers : UNCHANGED <<Asked(i), Polling(i), Newest(i)>>
      /\ UNCHANGED Running
  BY <1>1 DEF launcherVars, thumbVars, Asked, Polling, Newest, Running
<1>3. \A i \in Workers \ {k} : worker'[i] = worker[i] /\ Doing(i)' = Doing(i)
                               /\ requests'[i] = requests[i] /\ results'[i] = results[i]
  BY <1>0, WorkerAt
     DEF Worker, StopWorker, ReceiveRequest, ArmCancel, BuildView, DecodeImage,
         PublishTry, PublishReplace, PublishPut, Published, GivenUp, WorkerType, Workers
<1>4. ASSUME /\ worker[k].at # "none" /\ worker'[k].at # "none"
             /\ worker'[k].at \in {"idle", "done"} <=> Doing(k)' = None
             /\ k = "views" => (worker'[k].at = "work" <=> cancel' # "none")
             /\ k = "views" /\ cancel' = "called" => cancel = "called" /\ UNCHANGED Doing(k)
             /\ k = "thumbs" => UNCHANGED cancel
      PROVE  Standing'
  BY <1>2, <1>3, <1>4 DEF Standing, Workers
<1>5. worker[k].at = "idle" => Doing(k) = None
  BY DEF Standing
<1>6. worker[k].at \in {"arm", "work", "publish", "replace", "put"} => Doing(k) # None
  BY DEF Standing
<1>7. CASE StopWorker(k)
  <2>1. worker'[k].at = "done" /\ Doing(k)' = None /\ worker[k].at = "idle"
    BY <1>0, <1>7 DEF StopWorker, WorkerType, Doing
  <2>2. UNCHANGED cancel
    BY <1>7 DEF StopWorker
  <2>3. k = "views" => cancel = "none"
    BY <2>1 DEF Standing
  <2> QED BY <1>4, <2>1, <2>2, <2>3
<1>8. CASE ReceiveRequest(k)
  <2>1. /\ worker[k].at = "idle" /\ requests[k] # None
        /\ worker'[k].at = (IF k = "views" THEN "arm" ELSE "work") /\ Doing(k)' = requests[k]
    BY <1>0, <1>8 DEF ReceiveRequest, WorkerType, Doing
  <2>2. UNCHANGED cancel
    BY <1>8 DEF ReceiveRequest
  <2>3. k = "views" => cancel = "none"
    BY <2>1 DEF Standing
  <2> QED BY <1>4, <2>1, <2>2, <2>3
<1>9. CASE k = "views" /\ ArmCancel
  <2>1. /\ worker[k].at = "arm" /\ worker'[k].at = "work" /\ Doing(k)' = Doing(k)
        /\ cancel' = "armed"
    BY <1>0, <1>9 DEF ArmCancel, WorkerType, Doing
  <2> QED BY <1>4, <1>6, <1>9, <2>1
<1>10. CASE k = "views" /\ BuildView
  <2>1. /\ worker[k].at = "work" /\ cancel' = "none"
        /\ \/ worker'[k].at = "idle" /\ Doing(k)' = None
           \/ worker'[k].at = "publish" /\ Doing(k)' = Doing(k)
    BY <1>0, <1>10 DEF BuildView, WorkerType, Doing
  <2> QED BY <1>4, <1>6, <1>10, <2>1
<1>11. CASE k = "thumbs" /\ DecodeImage
  <2>1. /\ worker[k].at = "work" /\ UNCHANGED cancel
        /\ worker'[k].at = "publish" /\ Doing(k)' = Doing(k)
    BY <1>0, <1>11 DEF DecodeImage, WorkerType, Doing
  <2> QED BY <1>4, <1>6, <1>11, <2>1
<1>12. CASE PublishTry(k) \/ PublishReplace(k) \/ PublishPut(k)
  <2>1. /\ worker[k].at \in {"publish", "replace", "put"} /\ UNCHANGED cancel
        /\ \/ worker'[k].at = "idle" /\ Doing(k)' = None
           \/ worker'[k].at \in {"replace", "put"} /\ Doing(k)' = Doing(k)
    BY <1>0, <1>12 DEF PublishTry, PublishReplace, PublishPut, Published, GivenUp,
                       WorkerType, Doing
  <2>2. k = "views" => cancel = "none"
    BY <2>1 DEF Standing
  <2> QED BY <1>4, <1>6, <2>1, <2>2
<1> QED BY <1>7, <1>8, <1>9, <1>10, <1>11, <1>12 DEF Worker

LEMMA Stands ==
    ASSUME SongTypes, Standing, InTurn("views"), InTurn("thumbs"), [Next]_vars
    PROVE  Standing'
<1>1. SongTypes'
  BY SongTyped
<1>2. CASE Over \/ UNCHANGED vars
  BY <1>2 DEF Over, vars, launcherVars, thumbVars, workerVars, Standing, Running, Asked,
              Doing, Polling, Newest
<1> QED BY <1>1, <1>2, MainStands, UserStands, WorkerStands DEF Next

LEMMA InitStands == Init => Standing /\ \A k \in Workers : InTurn(k)
BY DEF Init, Standing, InTurn, Running, Asked, Doing, Polling, Newest, Older, Workers, Frame

-----------------------------------------------------------------------------
(* The list.                                                                 *)

OnTheWay(k) == {Asked(k), requests[k], Doing(k), results[k], Polling(k)}
Sending     == building \/ Asked("views") # None

(* While a view is on its way the newest request is; otherwise the list is   *)
(* the current one.                                                          *)
Listed ==
    /\ view # None => revision > 0
    /\ Running /\ Sending => Current \in OnTheWay("views")
    /\ Running /\ ~Sending /\ revision > 0 => view = Current
    /\ \A j \in OnTheWay("views") : j # None /\ j.revision = revision => j = Current

LEMMA FromOld ==
    ASSUME NEW k \in Workers, Moves(k), UNCHANGED Newest(k), Newest(k) \in Nat
    PROVE  OnTheWay(k)' \subseteq OnTheWay(k) \union {None}
<1>1. Newest(k)' # Newest(k) + 1
  OBVIOUS
<1> QED BY <1>1 DEF Moves, Places, OnTheWay

(* Steps that neither ask for a view nor show one. *)
LEMMA OtherSteps ==
    ASSUME SongTypes, [Next]_vars, ~(CatalogEvent \/ SortChange), ~ApplyView
    PROVE  /\ UNCHANGED <<catalog, ascending, revision, view>>
           /\ Sending' <=> Sending
<1>0. MainType /\ main \in MainSteps
  BY DEF SongTypes, MainType
<1>1. UNCHANGED <<catalog, ascending, revision, view>>
  BY Zenon DEF Next, Main, User, Over, Worker, DropRequest, SendRequest,
         ApplyThumbnail, DrawMapTooltip, PollTake, JoinWorker, CloseWorker, Shutdown,
         StopWorker, ReceiveRequest, OpenSelect, SelectNewest,
         ClosePopup, MoveMouse, launcherVars,
         ArmCancel, BuildView, DecodeImage, PublishTry, PublishReplace, PublishPut, vars
<1>2. CASE SendRequest
  <2>1. main.job # None /\ Asked("views")' \in {None, Asked("views")}
    BY <1>0, <1>2, MainFacts, ParamsAssumption DEF SendRequest, Asked, Frame
  <2>2. CASE main.on = "views"
    BY <1>0, <1>2, <2>1, <2>2, MainFacts DEF SendRequest, Sending, Asked, Frame
  <2>3. CASE main.on # "views"
    BY <1>0, <1>2, <2>1, <2>3, MainFacts DEF SendRequest, Sending, Asked, Frame
  <2> QED BY <1>1, <2>2, <2>3
<1>3. CASE ~SendRequest
  <2>1. UNCHANGED building
    BY <1>3, Zenon DEF Next, Main, User, Over, Worker, DropRequest,
         ApplyThumbnail, DrawMapTooltip, PollTake, JoinWorker, CloseWorker, Shutdown,
         StopWorker, ReceiveRequest, OpenSelect, SelectNewest,
         ClosePopup, MoveMouse, launcherVars,
         ArmCancel, BuildView, DecodeImage, PublishTry, PublishReplace, PublishPut, vars
  <2>2. UNCHANGED Asked("views")
    <3>1. CASE UNCHANGED main
      BY <3>1 DEF Asked
    <3>2. CASE DropRequest
      BY <1>0, <3>2, MainFacts DEF DropRequest, Asked
    <3>3. CASE ApplyThumbnail \/ DrawMapTooltip \/ Shutdown
      BY <1>0, <3>3 DEF ApplyThumbnail, DrawMapTooltip, Shutdown, Polled, Asked, Frame
    <3>4. ASSUME NEW k \in Workers, PollTake(k) \/ CloseWorker(k) \/ JoinWorker(k)
          PROVE  UNCHANGED Asked("views")
      BY <1>0, <3>4 DEF PollTake, CloseWorker, JoinWorker, After, Asked, Frame
    <3>5. \/ UNCHANGED main \/ DropRequest \/ ApplyThumbnail \/ DrawMapTooltip \/ Shutdown
          \/ \E k \in Workers : PollTake(k) \/ CloseWorker(k) \/ JoinWorker(k)
      BY <1>3, Zenon DEF Next, Main, User, Over, Worker, 
         StopWorker, ReceiveRequest, OpenSelect, SelectNewest, ClosePopup, MoveMouse,
         ArmCancel, BuildView, DecodeImage, PublishTry, PublishReplace, PublishPut, vars
    <3> QED BY <3>1, <3>2, <3>3, <3>4, <3>5
  <2> QED BY <1>1, <2>1, <2>2 DEF Sending
<1> QED BY <1>2, <1>3

(* The newest view on its way is not lost: what is dropped is older, and     *)
(* while the launcher runs no worker is stopped.                             *)
LEMMA ViewKept ==
    ASSUME SongTypes, Standing, InTurn("views"), [Next]_vars, ~ApplyView,
           UNCHANGED revision, Running', Running,
           NEW j \in OnTheWay("views"), j # None, j.revision = revision,
           \A i \in OnTheWay("views") : i # None /\ i.revision = revision => i = j
    PROVE  j \in OnTheWay("views")'
<1> DEFINE a == Asked("views")
           b == requests["views"]
           c == Doing("views")
           d == results["views"]
           e == Polling("views")
<1>0. MainType /\ main \in MainSteps /\ WorkerType /\ revision \in Nat
  BY DEF SongTypes, MainType, DisplayType
<1>1. /\ \A i \in {a, b, c, d, e} : i # None => i.revision \in 1 .. revision
      /\ Older(b, {a}) /\ Older(c, {a, b}) /\ Older(d, {a, b, c}) /\ Older(e, {a, b, c, d})
      /\ a # None => a.revision = revision
  BY DEF InTurn, Standing, Newest, Workers
<1>2. SUFFICES \/ a' = a /\ b' = b /\ c' = c /\ d' = d /\ e' = e
               \/ a' = None /\ b' = a /\ b = None /\ c' = c /\ d' = d /\ e' = e
               \/ a # None /\ a' = a /\ c' = c /\ d' = d /\ e' = e
               \/ a' = a /\ b' = None /\ c' = b /\ c = None /\ d' = d /\ e' = e
               \/ a' = a /\ b' = b /\ d' = d /\ e' = e /\ c # j
               \/ a' = a /\ b' = b /\ d' = c /\ d = None /\ e' = e
               \/ a' = a /\ b' = b /\ c' = c /\ c # None /\ e' = e
               \/ a' = a /\ b' = b /\ c' = c /\ d # None /\ e' = d
  <2>1. j \in {a, b, c, d, e} /\ \A i \in {a, b, c, d, e} : i # None /\ i.revision = revision => i = j
    BY DEF OnTheWay
  <2> HIDE DEF a, b, c, d, e
  <2>2. j \in {a', b', c', d', e'}
    BY <1>0, <1>1, <1>2, <2>1 DEF Older
  <2> QED BY <2>2 DEF a, b, c, d, e, OnTheWay
<1>3. CASE Main
  <2> USE <1>0, MainFacts DEF Asked, Doing, Polling
  <2>1. CASE SendRequest
    BY <2>1 DEF SendRequest, WorkerType, Frame, Workers
  <2>2. CASE DropRequest
    BY <2>2, ParamsAssumption, JobFacts DEF DropRequest, WorkerType, Workers
  <2>3. CASE ApplyThumbnail \/ DrawMapTooltip
    BY <2>3 DEF ApplyThumbnail, DrawMapTooltip, Polled, workerVars, Frame
  <2>4. ASSUME NEW k \in Workers, PollTake(k)
        PROVE  UNCHANGED <<a, b, c, d, e>> \/ (UNCHANGED <<a, b, c>> /\ d # None /\ e' = d)
    BY <2>4 DEF PollTake, WorkerType, Frame, Workers
  <2>5. ASSUME NEW k \in Workers, CloseWorker(k) \/ JoinWorker(k) PROVE FALSE
    BY <2>5 DEF CloseWorker, JoinWorker, Running
  <2> QED BY <1>3, <2>1, <2>2, <2>3, <2>4, <2>5 DEF Main
<1>4. CASE User
  <2>1. ~(CatalogEvent \/ SortChange)
    <3>1. SUFFICES ASSUME CatalogEvent \/ SortChange PROVE FALSE
      OBVIOUS
    <3>2. revision' = revision + 1
      BY <3>1, ViewRequested
    <3> QED BY <1>0, <3>2
  <2>2. ~Shutdown
    BY DEF Shutdown, Running
  <2>3. UNCHANGED <<main, requests, results, c>>
    <3>1. CASE OpenSelect \/ SelectNewest
      BY <3>1, WorkerStarted DEF OpenSelect, SelectNewest, Workers
    <3>2. CASE ClosePopup \/ \E p \in Paths : MoveMouse(p)
      BY <3>2 DEF ClosePopup, MoveMouse, workerVars, Doing
    <3> QED BY <1>4, <2>1, <2>2, <3>1, <3>2 DEF User
  <2> QED BY <2>3 DEF Asked, Polling
<1>5. ASSUME NEW k \in Workers, Worker(k)
      PROVE  \/ UNCHANGED <<a, b, c, d, e>>
             \/ a' = a /\ b' = None /\ c' = b /\ c = None /\ d' = d /\ e' = e
             \/ a' = a /\ b' = b /\ d' = d /\ e' = e /\ c # j
             \/ a' = a /\ b' = b /\ d' = c /\ d = None /\ e' = e
             \/ a' = a /\ b' = b /\ c' = c /\ c # None /\ e' = e
  <2>1. UNCHANGED <<a, e>>
    <3>1. UNCHANGED main
      BY <1>5 DEF Worker, StopWorker, ReceiveRequest, ArmCancel, BuildView, DecodeImage,
             PublishTry, PublishReplace, PublishPut
    <3> QED BY <3>1 DEF Asked, Polling
  <2>2. CASE k = "thumbs"
    <3>1. UNCHANGED <<requests["views"], results["views"], Doing("views")>>
      BY <1>5, <2>2, WorkerAt
         DEF Worker, StopWorker, ReceiveRequest, ArmCancel, BuildView, DecodeImage,
             PublishTry, PublishReplace, PublishPut, Published, GivenUp, SongTypes,
             WorkerType, Workers
    <3> QED BY <2>1, <3>1
  <2>3. CASE k = "views"
    <3>0. /\ worker[k].at \in {"none", "idle", "done"} <=> c = None
          /\ ~stop[k]
          /\ cancel = "called" => c.revision < revision
      BY <2>3 DEF Standing, Workers
    <3>1. CASE StopWorker(k)
      BY <3>0, <3>1 DEF StopWorker
    <3>2. CASE ReceiveRequest(k)
      BY <1>0, <2>1, <2>3, <3>0, <3>2 DEF ReceiveRequest, WorkerType, Doing
    <3>3. CASE ArmCancel
      BY <1>0, <2>1, <2>3, <3>3 DEF ArmCancel, WorkerType, Doing
    <3>4. CASE BuildView
      <4>1. UNCHANGED c \/ cancel = "called"
        BY <1>0, <2>3, <3>4 DEF BuildView, WorkerType, Doing
      <4>2. cancel = "called" => c # j
        BY <1>0, <3>0
      <4> QED BY <2>1, <2>3, <3>4, <4>1, <4>2 DEF BuildView
    <3>5. CASE PublishTry(k) \/ PublishPut(k)
      BY <1>0, <2>1, <2>3, <3>0, <3>5
         DEF PublishTry, PublishPut, Published, GivenUp, WorkerType, Doing
    <3>6. CASE PublishReplace(k)
      BY <1>0, <2>1, <2>3, <3>0, <3>6 DEF PublishReplace, WorkerType, Doing
    <3> QED BY <1>5, <2>3, <3>1, <3>2, <3>3, <3>4, <3>5, <3>6 DEF Worker
  <2> QED BY <2>2, <2>3 DEF Workers
<1>6. CASE Over \/ UNCHANGED vars
  BY <1>6 DEF Over, vars, workerVars, Asked, Doing, Polling
<1> QED BY <1>3, <1>4, <1>5, <1>6 DEF Next

LEMMA ListKept ==
    ASSUME SongTypes, Standing, InTurn("views"), InTurn("thumbs"), Listed, [Next]_vars
    PROVE  Listed'
<1>0. MainType /\ main \in MainSteps /\ revision \in Nat
  BY DEF SongTypes, MainType, DisplayType
<1>1. SongTypes' /\ Standing' /\ Moves("views") /\ (Running' => Running)
  <2>1. Running' => Running
    BY ShuttingDown DEF SongTypes
  <2> QED BY <2>1, SongTyped, Stands, NextMoves DEF Workers
<1>2. CASE CatalogEvent \/ SortChange
  <2>1. /\ main = Frame /\ revision' = revision + 1
        /\ UNCHANGED <<requests, results>>
    BY <1>2, ViewRequested
  <2>2. Running /\ Asked("views") = None
    BY <2>1 DEF Running, Asked, Frame
  <2>3. Current' # None /\ Current'.revision = revision'
    BY <1>1, CurrentNext DEF SongTypes
  <2>4. OnTheWay("views")' \subseteq OnTheWay("views") \union {None, Asked("views")'}
    <3>1. Newest("views") = revision /\ Newest("views")' = revision'
      BY DEF Newest
    <3> QED BY <1>0, <1>1, <2>1, <3>1 DEF Moves, Places, OnTheWay
  <2>5. Asked("views")' \in {None, Current'} /\ (catalog' # 0 => Asked("views")' = Current')
    <3>1. catalog' = 0 => UNCHANGED main
      BY <1>2, ViewRequested
    <3>2. catalog' # 0 => main' = [at |-> "send", on |-> "views", job |-> Current']
      BY <1>2, ViewRequested
    <3> QED BY <2>1, <3>1, <3>2 DEF Asked, Frame
  <2>6. \A j \in OnTheWay("views") : j # None => j.revision # revision'
    BY <1>0, <2>1 DEF InTurn, OnTheWay, Newest
  <2>7. CASE catalog' = 0
    <3>1. view' = Current' /\ building' = FALSE /\ UNCHANGED main
      BY <1>2, <2>7, ViewRequested
    <3>2. ~Sending'
      BY <2>1, <3>1 DEF Sending, Asked, Frame
    <3> QED BY <1>0, <2>1, <2>4, <2>5, <2>6, <3>1, <3>2 DEF Listed
  <2>8. CASE catalog' # 0
    <3>1. Sending'
      BY <2>3, <2>5, <2>8 DEF Sending
    <3>2. Current' \in OnTheWay("views")'
      BY <2>5, <2>8 DEF OnTheWay
    <3>3. UNCHANGED view
      BY <1>2, <2>8, ViewRequested
    <3> QED BY <1>0, <2>1, <2>4, <2>5, <2>6, <3>1, <3>2, <3>3 DEF Listed
  <2> QED BY <2>7, <2>8
<1>3. CASE ApplyView
  <2>1. /\ main.at = "poll" /\ main.on = "views" /\ main' = Frame
        /\ UNCHANGED <<catalog, ascending, revision, requests, results, worker>>
    BY <1>3 DEF ApplyView, Polled, workerVars
  <2>2. /\ Running /\ Asked("views") = None /\ Asked("views")' = None
        /\ Polling("views") = main.job /\ Polling("views")' = None
        /\ UNCHANGED <<Doing("views"), requests["views"], results["views"], Current>>
    BY <2>1 DEF Running, Asked, Polling, Doing, Current, Frame
  <2>3. main.job # None /\ main.job \in OnTheWay("views")
    BY <1>0, <2>1, <2>2, MainFacts, JobFacts DEF OnTheWay
  <2>4. Current.revision = revision /\ Current.catalog = catalog /\ Current # None
    BY CurrentFacts, ParamsAssumption DEF SongTypes, Jobs
  <2>5. OnTheWay("views")' \subseteq OnTheWay("views") \union {None}
        /\ OnTheWay("views") \subseteq OnTheWay("views")' \union {main.job}
    BY <2>2 DEF OnTheWay
  <2>6. (\A j \in OnTheWay("views") : j # None /\ j.revision = revision => j = Current)'
    BY <2>1, <2>2, <2>5 DEF Listed
  <2>7. CASE main.job.revision = revision /\ main.job.catalog = catalog
    <3>1. view' = main.job /\ building' = FALSE
      BY <1>3, <2>7 DEF ApplyView
    <3>2. main.job = Current
      BY <2>3, <2>7 DEF Listed
    <3>3. ~Sending' /\ view' = Current'
      BY <2>2, <3>1, <3>2 DEF Sending
    <3>4. revision' > 0
      BY <2>1, <2>3, <2>7, <1>0 DEF InTurn, OnTheWay, Newest
    <3> QED BY <2>6, <3>3, <3>4 DEF Listed
  <2>8. CASE ~(main.job.revision = revision /\ main.job.catalog = catalog)
    <3>1. UNCHANGED <<view, building>>
      BY <1>3, <2>8 DEF ApplyView
    <3>2. main.job # Current /\ (Sending' <=> Sending)
      BY <2>2, <2>4, <2>8, <3>1 DEF Sending
    <3>3. (Running /\ Sending => Current \in OnTheWay("views"))'
      BY <2>2, <2>5, <3>2 DEF Listed
    <3>4. (Running /\ ~Sending /\ revision > 0 => view = Current)'
      BY <2>1, <2>2, <3>1, <3>2 DEF Listed
    <3>5. (view # None => revision > 0)'
      BY <2>1, <3>1 DEF Listed
    <3> QED BY <2>6, <3>3, <3>4, <3>5 DEF Listed
  <2> QED BY <2>7, <2>8
<1>4. CASE ~(CatalogEvent \/ SortChange \/ ApplyView)
  <2>1. /\ UNCHANGED <<catalog, ascending, revision, view>>
        /\ Sending' <=> Sending
    BY <1>4, OtherSteps
  <2>2. Current' = Current
    BY <2>1 DEF Current
  <2>3. OnTheWay("views")' \subseteq OnTheWay("views") \union {None}
    <3>1. Newest("views") = revision /\ Newest("views")' = revision'
      BY DEF Newest
    <3>2. "views" \in Workers
      BY DEF Workers
    <3> QED BY <1>0, <1>1, <2>1, <3>1, <3>2, FromOld
  <2>4. Current.revision = revision /\ Current # None
    BY CurrentFacts, ParamsAssumption DEF SongTypes, Jobs
  <2>5. ASSUME Running', Running, Current \in OnTheWay("views")
        PROVE  Current \in OnTheWay("views")'
    BY <1>4, <2>1, <2>4, <2>5, ViewKept DEF Listed
  <2>6. (view # None => revision > 0)'
    BY <2>1 DEF Listed
  <2>7. (Running /\ Sending => Current \in OnTheWay("views"))'
    BY <1>1, <2>1, <2>2, <2>5 DEF Listed
  <2>8. (Running /\ ~Sending /\ revision > 0 => view = Current)'
    BY <1>1, <2>1, <2>2 DEF Listed
  <2>9. (\A j \in OnTheWay("views") : j # None /\ j.revision = revision => j = Current)'
    BY <2>1, <2>2, <2>3 DEF Listed
  <2> QED BY <2>6, <2>7, <2>8, <2>9 DEF Listed
<1> QED BY <1>2, <1>3, <1>4

(* The popup agrees with the launcher: it shows the launcher's view and says *)
(* that it is being updated while a view is on its way.                      *)
Agrees(w) ==
    /\ w.building <=> Sending
    /\ w.view = view /\ w.catalog = catalog /\ w.revision = revision
    /\ w.selectNewest => Sending \/ revision = 0

WindowTrue == window # None => Agrees(window)

(* Begin and apply, field by field. *)
LEMMA BegunFields ==
    ASSUME NEW w \in Windows, NEW c, NEW r, NEW b
    PROVE  LET n == Begun(w, c, r, b)
           IN  /\ n.catalog = c /\ n.revision = r /\ n.building = b
               /\ n.view = w.view /\ n.selectNewest = w.selectNewest
BY ParamsAssumption DEF Begun, Windows

LEMMA AppliedFields ==
    ASSUME NEW w \in Windows, NEW v, v.revision = w.revision, v.catalog = w.catalog
    PROVE  LET n == Applied(w, v)
           IN  /\ n.catalog = w.catalog /\ n.revision = w.revision
               /\ n.building = FALSE /\ n.selectNewest = FALSE /\ n.view = v
BY ParamsAssumption DEF Applied, Windows

(* The window made when there was none agrees with the launcher. *)
LEMMA NewWindowAgrees ==
    ASSUME SongTypes, Listed, main = Frame
    PROVE  Agrees(NewWindow) /\ NewWindow.selectNewest = FALSE
<1>0. /\ DisplayType /\ revision \in Nat /\ building \in BOOLEAN
      /\ catalog \in 0 .. MaxActs /\ revision \in 0 .. MaxActs
  <2>1. building \in BOOLEAN
    BY DEF SongTypes, DisplayType
  <2> QED BY <2>1, ParamsAssumption DEF SongTypes, DisplayType
<1>1. Running /\ (Sending <=> building)
  BY DEF Running, Sending, Asked, Frame
<1> DEFINE w == [catalog |-> catalog, revision |-> revision, view |-> None,
                 building |-> building, selectNewest |-> FALSE]
           b == Begun(w, view.catalog, view.revision, building)
           v == Applied(b, view)
           e == Begun(v, catalog, revision, TRUE)
<1>2. w \in Windows
  BY <1>0, ZenonT(60) DEF Windows
<1>3. CASE view = None
  <2>1. NewWindow = w
    BY <1>3 DEF NewWindow
  <2>2. /\ w.catalog = catalog /\ w.revision = revision /\ w.view = None
        /\ w.selectNewest = FALSE
    OBVIOUS
  <2>3. w.building = building
    OBVIOUS
  <2> HIDE DEF w
  <2>4. w.building <=> Sending
    BY <1>1, <2>3
  <2> QED BY <1>3, <2>1, <2>2, <2>4 DEF Agrees
<1>4. CASE view # None
  <2>1. view \in Views /\ view.catalog \in 0 .. MaxActs /\ view.revision \in 0 .. MaxActs
    BY <1>0, <1>4 DEF DisplayType, Views
  <2>2. NewWindow = IF building THEN e ELSE v
    BY <1>4 DEF NewWindow
  <2>3. w.selectNewest = FALSE
    OBVIOUS
  <2> HIDE DEF w
  <2>4. b \in Windows /\ b.revision = view.revision /\ b.catalog = view.catalog
    <3>1. b.revision = view.revision /\ b.catalog = view.catalog
      BY <1>2, BegunFields
    <3>2. b \in Windows \union {None}
      BY <1>0, <1>2, <2>1, WindowTypes
    <3>3. b = None <=> w = None
      BY <1>0, <1>2, <2>1, WindowKept
    <3> QED BY <1>2, <3>1, <3>2, <3>3, ParamsAssumption
  <2> HIDE DEF b
  <2>5. /\ v \in Windows /\ v.catalog = view.catalog /\ v.revision = view.revision
        /\ v.building = FALSE /\ v.selectNewest = FALSE /\ v.view = view
    <3>1. /\ v.catalog = b.catalog /\ v.revision = b.revision
          /\ v.building = FALSE /\ v.selectNewest = FALSE /\ v.view = view
      BY <2>4, AppliedFields
    <3>2. v \in Windows \union {None}
      BY <2>1, <2>4, WindowTypes
    <3>3. v = None <=> b = None
      BY <1>0, <2>1, <2>4, WindowKept
    <3> QED BY <2>4, <3>1, <3>2, <3>3, ParamsAssumption
  <2> HIDE DEF v
  <2>6. CASE building
    <3>2. /\ e.catalog = catalog /\ e.revision = revision /\ e.building = TRUE
          /\ e.view = v.view /\ e.selectNewest = v.selectNewest
      BY <2>5, ParamsAssumption DEF Begun, Windows
    <3> HIDE DEF e
    <3>1. /\ e.catalog = catalog /\ e.revision = revision /\ e.building = TRUE
          /\ e.view = view /\ e.selectNewest = FALSE
      BY <2>5, <3>2
    <3> QED BY <1>1, <2>2, <2>6, <3>1 DEF Agrees
  <2>7. CASE ~building
    <3>1. view = Current /\ Current.revision = revision /\ Current.catalog = catalog
      BY <1>0, <1>1, <1>4, <2>7, CurrentFacts DEF Listed
    <3> QED BY <1>1, <2>2, <2>5, <2>7, <3>1 DEF Agrees
  <2> QED BY <2>6, <2>7
<1> QED BY <1>3, <1>4

LEMMA WindowStays ==
    ASSUME SongTypes, Standing, InTurn("views"), InTurn("thumbs"), Listed, WindowTrue, [Next]_vars
    PROVE  WindowTrue'
<1>0. /\ MainType /\ main \in MainSteps /\ revision \in Nat /\ DisplayType
      /\ window \in Windows \union {None} /\ building \in BOOLEAN
  BY DEF SongTypes, MainType, DisplayType
<1>1. SongTypes' /\ Standing' /\ Listed'
  BY SongTyped, Stands, ListKept
<1>2. CASE CatalogEvent \/ SortChange
  <2>1. /\ main = Frame /\ catalog' \in 0 .. MaxActs /\ revision' \in 0 .. MaxActs
        /\ Current' # None
    BY <1>1, <1>2, ViewRequested, CurrentNext DEF SongTypes
  <2> DEFINE n == Begun(window, catalog', revision', TRUE)
  <2>6. window \in Windows \union {None} => n \in Windows \union {None} /\ (n = None <=> window = None)
    BY <1>0, <2>1, WindowTypes, WindowKept
  <2>9. window = None => window' = None
    BY <1>2, ViewRequested DEF Begun, Applied
  <2>2. SUFFICES ASSUME window # None PROVE Agrees(window)'
    BY <2>9 DEF WindowTrue
  <2>3. /\ n.catalog = catalog' /\ n.revision = revision' /\ n.building = TRUE
        /\ n.view = window.view /\ n \in Windows
    <3>1. window \in Windows
      BY <1>0, <2>2
    <3>2. /\ n.catalog = catalog' /\ n.revision = revision' /\ n.building = TRUE
          /\ n.view = window.view
      BY <2>2, <3>1 DEF Begun, Windows
    <3> QED BY <1>0, <2>2, <2>6, <3>2
  <2> HIDE DEF n
  <2>4. CASE catalog' = 0
    <3>1. /\ view' = Current' /\ building' = FALSE /\ UNCHANGED main
          /\ window' = Applied(n, Current')
      BY <1>2, <2>4, ViewRequested DEF n
    <3>2. Current'.revision = revision' /\ Current'.catalog = catalog'
      BY DEF Current
    <3>3. ~Sending'
      BY <2>1, <3>1 DEF Sending, Asked, Frame
    <3>4. /\ window'.catalog = catalog' /\ window'.revision = revision'
          /\ window'.building = FALSE /\ window'.selectNewest = FALSE /\ window'.view = view'
      BY <2>3, <3>1, <3>2, AppliedFields
    <3> QED BY <3>3, <3>4 DEF Agrees
  <2>5. CASE catalog' # 0
    <3>1. /\ UNCHANGED view /\ window' = n
          /\ main' = [at |-> "send", on |-> "views", job |-> Current']
      BY <1>2, <2>5, ViewRequested DEF n
    <3>3. Sending'
      BY <2>1, <3>1 DEF Sending, Asked
    <3> QED BY <2>2, <2>3, <3>1, <3>3 DEF Agrees, WindowTrue
  <2> QED BY <2>4, <2>5
<1>3. CASE OpenSelect \/ SelectNewest
  <2> DEFINE e == EnsuredWindow
  <2>1. main = Frame /\ UNCHANGED <<main, catalog, revision, view, building>>
    BY <1>3 DEF OpenSelect, SelectNewest, Act
  <2>2. Sending' <=> Sending
    BY <2>1 DEF Sending, Asked
  <2>3. Agrees(e) /\ e \in Windows
    BY <1>0, <2>1, NewWindowAgrees, EnsuredWindowType DEF EnsuredWindow, WindowTrue
  <2>4. \/ window' = e
        \/ /\ SelectNewest
           /\ window' = [e EXCEPT !.selectNewest = (e.view = None \/ e.building)]
    BY <1>3, Zenon DEF OpenSelect, SelectNewest
  <2>5. view = None => Sending \/ revision = 0
    <3>1. Running
      BY <2>1 DEF Running, Frame
    <3> QED BY <1>0, <3>1, CurrentFacts, ParamsAssumption DEF Listed, Jobs
  <2> HIDE DEF e
  <2>6. /\ e.building <=> Sending'
        /\ e.view = view' /\ e.catalog = catalog' /\ e.revision = revision'
        /\ e.selectNewest => Sending' \/ revision' = 0
    BY <2>1, <2>2, <2>3 DEF Agrees
  <2>7. CASE window' = e
    BY <2>6, <2>7 DEF WindowTrue, Agrees
  <2>8. CASE window' = [e EXCEPT !.selectNewest = (e.view = None \/ e.building)]
    <3>1. /\ window'.view = e.view /\ window'.building = e.building
          /\ window'.catalog = e.catalog /\ window'.revision = e.revision
          /\ window'.selectNewest = (e.view = None \/ e.building)
      BY <2>3, <2>8 DEF Windows
    <3>2. window'.selectNewest => Sending' \/ revision' = 0
      BY <2>1, <2>2, <2>5, <2>6, <3>1
    <3>3. window'.building <=> Sending'
      BY <2>6, <3>1
    <3> QED BY <2>6, <3>1, <3>2, <3>3 DEF WindowTrue, Agrees
  <2> QED BY <2>4, <2>7, <2>8
<1>4. CASE ApplyView
  <2>1. /\ main.at = "poll" /\ main.on = "views" /\ main' = Frame
        /\ UNCHANGED <<catalog, ascending, revision>>
    BY <1>4 DEF ApplyView, Polled
  <2>2. Asked("views") = None /\ Asked("views")' = None
    BY <2>1 DEF Asked, Frame
  <2>7. CASE main.job.revision = revision /\ main.job.catalog = catalog
    <3>1. view' = main.job /\ building' = FALSE /\ window' = Applied(window, main.job)
      BY <1>4, <2>7 DEF ApplyView
    <3>2. ~Sending'
      BY <2>2, <3>1 DEF Sending
    <3>3. window' # None => window # None
      BY <3>1 DEF Applied
    <3>4. window # None =>
            /\ window'.catalog = catalog /\ window'.revision = revision
            /\ window'.building = FALSE /\ window'.selectNewest = FALSE /\ window'.view = view'
      BY <1>0, <2>7, <3>1, AppliedFields DEF WindowTrue, Agrees
    <3> QED BY <2>1, <3>2, <3>3, <3>4 DEF WindowTrue, Agrees
  <2>8. CASE ~(main.job.revision = revision /\ main.job.catalog = catalog)
    <3>1. UNCHANGED <<view, building, window>>
      BY <1>4, <2>8 DEF ApplyView
    <3>2. Sending' <=> Sending
      BY <2>2, <3>1 DEF Sending
    <3> QED BY <2>1, <3>1, <3>2 DEF WindowTrue, Agrees
  <2> QED BY <2>7, <2>8
<1>5. CASE ~(CatalogEvent \/ SortChange \/ ApplyView \/ OpenSelect \/ SelectNewest)
  <2>1. /\ UNCHANGED <<catalog, revision, view>>
        /\ Sending' <=> Sending
    BY <1>5, OtherSteps
  <2>2. UNCHANGED window
    BY <1>5, Zenon DEF Next, Main, User, Over, Worker, SendRequest, DropRequest,
         ApplyThumbnail, DrawMapTooltip, PollTake, JoinWorker, CloseWorker, Shutdown,
         StopWorker, ReceiveRequest, ClosePopup, MoveMouse, launcherVars,
         ArmCancel, BuildView, DecodeImage, PublishTry, PublishReplace, PublishPut, vars
  <2> QED BY <2>1, <2>2 DEF WindowTrue, Agrees
<1> QED BY <1>2, <1>3, <1>4, <1>5

-----------------------------------------------------------------------------
(* The images.                                                               *)

(* The texture is that of the map under the mouse, and all is released when  *)
(* the launcher has shut down.                                               *)
Tooltip ==
    /\ texture \in {None, path}
    /\ path # None => window # None
    /\ main.at = "over" \/ (main.at = "join" /\ main.on = "thumbs") => path = None
    /\ main.at = "over" =>
         results["thumbs"] = None /\ worker["thumbs"].at \in {"none", "done"}

LEMMA TooltipStays ==
    ASSUME SongTypes, Standing, InTurn("views"), InTurn("thumbs"), Tooltip, [Next]_vars
    PROVE  Tooltip'
<1>0. MainType /\ main \in MainSteps /\ WorkerType
  BY DEF SongTypes, MainType
<1>1. Standing' /\ SongTypes'
  BY SongTyped, Stands
<1>2. window # None => window' # None
  BY <1>1, WindowLasts
<1>3. CASE main.at = "over"
  <2>1. UNCHANGED <<thumbVars, main, results["thumbs"], worker["thumbs"]>>
    <3>1. ~Running
      BY <1>3 DEF Running
    <3>2. CASE UNCHANGED vars
      BY <3>2 DEF vars, workerVars
    <3>3. ASSUME NEW k \in Workers, CloseWorker(k) \/ JoinWorker(k) PROVE FALSE
      BY <1>3, <3>3 DEF CloseWorker, JoinWorker
    <3>4. ASSUME Worker("thumbs") PROVE FALSE
      <4>1. worker["thumbs"].at \in {"none", "done"}
        BY <1>3 DEF Tooltip
      <4> QED BY <3>4, <4>1 DEF Worker, StopWorker, ReceiveRequest, DecodeImage, PublishTry,
                   PublishReplace, PublishPut
    <3>5. CASE Worker("views")
      <4>1. UNCHANGED <<thumbVars, main>>
        BY <3>5 DEF Worker, StopWorker, ReceiveRequest, ArmCancel, BuildView,
               PublishTry, PublishReplace, PublishPut
      <4>2. UNCHANGED <<results["thumbs"], worker["thumbs"]>>
        BY <1>0, <3>5
           DEF Worker, StopWorker, ReceiveRequest, ArmCancel, BuildView, PublishTry,
               PublishReplace, PublishPut, Published, GivenUp, WorkerType, Workers
      <4> QED BY <4>1, <4>2
    <3> QED BY <3>1, <3>2, <3>3, <3>4, <3>5, ShuttingDown DEF Workers, SongTypes
  <2> QED BY <1>2, <1>3, <2>1 DEF Tooltip, thumbVars
<1>4. CASE main.at # "over"
  <2>1. CASE ClosePopup
    BY <1>4, <2>1 DEF ClosePopup, Act, Tooltip, Frame
  <2>2. CASE DrawMapTooltip
    BY <1>2, <2>2 DEF DrawMapTooltip, launcherVars, Tooltip, Standing, Frame
  <2>3. CASE ApplyThumbnail
    BY <1>2, <2>3 DEF ApplyThumbnail, Polled, Tooltip, Frame
  <2>4. ASSUME NEW k \in Workers, CloseWorker(k) PROVE Tooltip'
    BY <1>0, <1>2, <2>4 DEF CloseWorker, After, Tooltip, Standing, launcherVars, Workers
  <2>5. ASSUME NEW k \in Workers, JoinWorker(k) PROVE Tooltip'
    BY <1>0, <1>2, <2>5 DEF JoinWorker, After, Tooltip, launcherVars, thumbVars, WorkerType, Workers
  <2>6. CASE UNCHANGED <<texture, path>>
             /\ main'.at # "over" /\ (main'.at = "join" => UNCHANGED main)
    BY <1>2, <2>6 DEF Tooltip
  <2>7. \/ ClosePopup \/ DrawMapTooltip \/ ApplyThumbnail
        \/ (\E k \in Workers : CloseWorker(k) \/ JoinWorker(k)) 
        \/ UNCHANGED <<texture, path>> /\ main'.at # "over" /\ (main'.at = "join" => UNCHANGED main)
    <3>1. CASE CatalogEvent \/ SortChange
      <4>1. UNCHANGED thumbVars /\ main = Frame
        BY <3>1, ViewRequested
      <4>2. UNCHANGED main \/ main' = [at |-> "send", on |-> "views", job |-> Current']
        BY <3>1, ViewRequested
      <4> QED BY <1>4, <4>1, <4>2 DEF thumbVars
    <3>2. CASE SendRequest \/ DropRequest \/ ApplyView \/ Shutdown
      BY <1>0, <3>2, MainFacts
         DEF SendRequest, DropRequest, ApplyView, Polled, Shutdown, thumbVars, Frame
    <3>3. ASSUME NEW k \in Workers, PollTake(k)
          PROVE  UNCHANGED <<texture, path>> /\ main'.at = "poll"
      BY <3>3 DEF PollTake, thumbVars
    <3>4. ASSUME OpenSelect \/ SelectNewest \/ \E p \in Paths : MoveMouse(p)
          PROVE  UNCHANGED <<texture, path, main>>
      BY <3>4, Zenon DEF OpenSelect, SelectNewest, MoveMouse, thumbVars
    <3>5. ASSUME NEW k \in Workers, Worker(k) PROVE UNCHANGED <<texture, path, main>>
      BY <3>5, Zenon DEF Worker, StopWorker, ReceiveRequest, ArmCancel, BuildView, DecodeImage,
               PublishTry, PublishReplace, PublishPut, thumbVars
    <3>6. CASE Over \/ UNCHANGED vars
      BY <1>4, <3>6 DEF Over, vars, thumbVars
    <3> QED BY <1>4, <3>1, <3>2, <3>3, <3>4, <3>5, <3>6 DEF Next, Main, User
  <2> QED BY <2>1, <2>2, <2>3, <2>4, <2>5, <2>6, <2>7
<1> QED BY <1>3, <1>4

(* Who holds a decoded image, and the requests not decoded yet.              *)
Holders   == {Doing("thumbs"), results["thumbs"], Polling("thumbs")} \ {None}
Undecoded == ({Asked("thumbs"), requests["thumbs"]}
              \union (IF worker["thumbs"].at = "work" THEN {Doing("thumbs")} ELSE {})) \ {None}

(* An image is alive exactly while it has a holder.                          *)
PixmapsHeld ==
    /\ \A j \in Undecoded : j.revision \notin DOMAIN pixmaps
    /\ \A q \in DOMAIN pixmaps :
         pixmaps[q] = IF \E j \in Holders : j.revision = q THEN "live" ELSE "disposed"

LEMMA HoldersDiffer ==
    ASSUME SongTypes, InTurn("thumbs")
    PROVE  /\ \A i, j \in Holders : i.revision = j.revision => i = j
           /\ \A i \in Undecoded, j \in Holders : j.revision = i.revision => i = j
           /\ \A j \in Undecoded \union Holders : j # None /\ j.revision \in 1 .. thumbRevision
<1>1. thumbRevision \in Nat
  BY DEF SongTypes, ImageType
<1> DEFINE a == Asked("thumbs")
           b == requests["thumbs"]
           c == Doing("thumbs")
           d == results["thumbs"]
           e == Polling("thumbs")
<1>2. /\ Older(b, {a}) /\ Older(c, {a, b}) /\ Older(d, {a, b, c}) /\ Older(e, {a, b, c, d})
      /\ \A j \in {a, b, c, d, e} : j # None => j.revision \in 1 .. thumbRevision
  BY DEF InTurn, Newest
<1>3. Holders = {c, d, e} \ {None} /\ Undecoded \subseteq {a, b, c} \ {None}
  BY DEF Holders, Undecoded
<1> HIDE DEF a, b, c, d, e
<1> QED BY <1>1, <1>2, <1>3 DEF Older

LEMMA Apart ==
    ASSUME SongTypes, InTurn("thumbs")
    PROVE  /\ Doing("thumbs") # None =>
                Doing("thumbs") \notin {Asked("thumbs"), requests["thumbs"],
                                       results["thumbs"], Polling("thumbs")}
           /\ results["thumbs"] # None => results["thumbs"] # Polling("thumbs")
<1>1. thumbRevision \in Nat
  BY DEF SongTypes, ImageType
<1> DEFINE a == Asked("thumbs")
           b == requests["thumbs"]
           c == Doing("thumbs")
           d == results["thumbs"]
           e == Polling("thumbs")
<1>2. /\ Older(c, {a, b}) /\ Older(d, {a, b, c}) /\ Older(e, {a, b, c, d})
      /\ \A j \in {a, b, c, d, e} : j # None => j.revision \in 1 .. thumbRevision
  BY DEF InTurn, Newest
<1> HIDE DEF a, b, c, d, e
<1>3. (c # None => c \notin {a, b, d, e}) /\ (d # None => d # e)
  BY <1>1, <1>2 DEF Older
<1> QED BY <1>3 DEF a, b, c, d, e

(* A result (or none) is thrown away by the one who held it. *)
LEMMA Released ==
    ASSUME SongTypes, InTurn("thumbs"), PixmapsHeld,
           NEW x \in Holders \union {None}, pixmaps' = Disposed("thumbs", x),
           Holders' = Holders \ {x}, Undecoded' \subseteq Undecoded
    PROVE  PixmapsHeld'
<1>1. PixmapType
  BY DEF SongTypes
<1>2. /\ DOMAIN pixmaps' = DOMAIN pixmaps
      /\ \A q \in DOMAIN pixmaps :
           pixmaps'[q] = IF x # None /\ q = x.revision
                         THEN IF pixmaps[q] = "live" THEN "disposed" ELSE "twice"
                         ELSE pixmaps[q]
  BY <1>1, DisposedType
<1>3. ASSUME NEW q \in DOMAIN pixmaps
      PROVE  pixmaps'[q] = IF \E j \in Holders' : j.revision = q THEN "live" ELSE "disposed"
  BY <1>2, HoldersDiffer DEF PixmapsHeld
<1> QED BY <1>2, <1>3 DEF PixmapsHeld

(* An image is decoded for the request it was asked by. *)
LEMMA Decoded ==
    ASSUME SongTypes, Standing, InTurn("thumbs"), PixmapsHeld, DecodeImage
    PROVE  PixmapsHeld'
<1>0. WorkerType /\ PixmapType
  BY DEF SongTypes
<1> DEFINE c == Doing("thumbs")
           r == worker["thumbs"].job.revision
<1>1. c # None /\ r = c.revision
  BY DEF DecodeImage, Standing, Doing, Workers
<1>2. c \in Undecoded /\ c \in Holders
  BY <1>1 DEF DecodeImage, Undecoded, Holders
<1>3. Holders' = Holders /\ Undecoded' \subseteq Undecoded \ {c}
  <2>1. UNCHANGED <<main, requests, results, c>> /\ worker'["thumbs"].at # "work"
    BY <1>0 DEF DecodeImage, WorkerType, Doing, Workers
  <2>2. Asked("thumbs") # c /\ requests["thumbs"] # c
    BY <1>1, Apart
  <2>3. UNCHANGED <<Asked("thumbs"), Polling("thumbs")>>
    BY <2>1 DEF Asked, Polling
  <2> QED BY <2>1, <2>2, <2>3 DEF Holders, Undecoded
<1>4. \/ pixmaps' = [q \in DOMAIN pixmaps \union {r} |-> IF q = r THEN "live" ELSE pixmaps[q]]
      \/ UNCHANGED pixmaps
  BY DEF DecodeImage
<1>5. \A j \in Undecoded' : j.revision # c.revision
  BY <1>2, <1>3, HoldersDiffer
<1> HIDE DEF c, r
<1>6. \A j \in Undecoded' : j.revision \notin DOMAIN pixmaps'
  BY <1>1, <1>3, <1>4, <1>5 DEF PixmapsHeld
<1>7. ASSUME NEW q \in DOMAIN pixmaps'
      PROVE  pixmaps'[q] = IF \E j \in Holders' : j.revision = q THEN "live" ELSE "disposed"
  BY <1>1, <1>2, <1>3, <1>4 DEF PixmapsHeld
<1> QED BY <1>6, <1>7 DEF PixmapsHeld

(* The other steps: a request is taken up, asked for, or somebody lets go.   *)
LEMMA PixmapsStay ==
    ASSUME SongTypes, Standing, InTurn("views"), InTurn("thumbs"), PixmapsHeld, [Next]_vars
    PROVE  PixmapsHeld'
<1>0. MainType /\ main \in MainSteps /\ WorkerType /\ PixmapType /\ None \notin Jobs
  BY JobFacts DEF SongTypes, MainType, Workers
<1> DEFINE a == Asked("thumbs")
           b == requests["thumbs"]
           c == Doing("thumbs")
           d == results["thumbs"]
           e == Polling("thumbs")
           t == worker["thumbs"].at
<1>1. ASSUME UNCHANGED pixmaps, Holders' = Holders, Undecoded' \subseteq Undecoded
      PROVE  PixmapsHeld'
  BY <1>1 DEF PixmapsHeld
<1>2. ASSUME UNCHANGED <<pixmaps, c, d, e>>, {a, b}' \subseteq {a, b, None}, UNCHANGED t
      PROVE  PixmapsHeld'
  <2>1. Holders' = Holders /\ Undecoded' \subseteq Undecoded
    BY <1>2 DEF Holders, Undecoded
  <2> QED BY <1>1, <1>2, <2>1
<1>4. CASE ApplyView
  <2>1. UNCHANGED <<pixmaps, a, b, c, d, e, t>>
    BY <1>4 DEF ApplyView, Polled, workerVars, Asked, Doing, Polling, Frame
  <2> QED BY <1>2, <2>1
<1>5. ASSUME NEW x \in {c, d, e}, pixmaps' = Disposed("thumbs", x), Holders' = Holders \ {x},
             {a, b}' \subseteq {a, b, None}, t' # "work"
      PROVE  PixmapsHeld'
  <2>1. Undecoded' \subseteq Undecoded
    BY <1>5 DEF Undecoded
  <2>2. x \in Holders \union {None}
    BY <1>5 DEF Holders
  <2> QED BY <1>5, <2>1, <2>2, Released
<1>6. ASSUME NEW x \in {d, e}, pixmaps' = Disposed("thumbs", x), Holders' = Holders \ {x},
             UNCHANGED <<a, b, c, t>>
      PROVE  PixmapsHeld'
  <2>1. Undecoded' \subseteq Undecoded
    BY <1>6 DEF Undecoded
  <2>2. x \in Holders \union {None}
    BY <1>6 DEF Holders
  <2> QED BY <1>6, <2>1, <2>2, Released
<1>7. /\ c # None => c \notin {a, b, d, e}
      /\ d # None => d # e
  BY Apart
<1>8. Disposed("views", main.job) = pixmaps /\ Disposed("views", results["views"]) = pixmaps
  BY DEF Disposed, HasPixmap
<1>9. CASE ApplyThumbnail
  <2>1. pixmaps' = Disposed("thumbs", e) /\ e' = None /\ UNCHANGED <<a, b, c, d, t>>
    BY <1>0, <1>9, MainFacts DEF ApplyThumbnail, Polled, workerVars, Asked, Doing, Polling, Frame
  <2>2. Holders' = Holders \ {e}
    BY <1>7, <2>1 DEF Holders
  <2> QED BY <1>6, <2>1, <2>2
<1>10. CASE DrawMapTooltip
  <2>1. /\ UNCHANGED <<pixmaps, b, c, d, e, t>> /\ a'.revision = thumbRevision + 1
    BY <1>0, <1>10 DEF DrawMapTooltip, workerVars, Asked, Doing, Polling, Frame
  <2>2. Holders' = Holders /\ Undecoded' \subseteq Undecoded \union {a'}
    BY <2>1 DEF Holders, Undecoded
  <2>3. thumbRevision + 1 \notin DOMAIN pixmaps
    BY <1>0 DEF PixmapType, SongTypes, ImageType
  <2> QED BY <2>1, <2>2, <2>3 DEF PixmapsHeld
<1>11. ASSUME NEW k \in Workers, PollTake(k) PROVE PixmapsHeld'
  <2>1. CASE k = "views"
    <3>1. UNCHANGED <<pixmaps, a, b, c, d, e, t>>
      BY <1>0, <1>8, <1>11, <2>1 DEF PollTake, Asked, Doing, Polling, Frame, WorkerType, Workers
    <3> QED BY <1>2, <3>1
  <2>2. CASE k = "thumbs"
    <3>1. /\ pixmaps' = Disposed("thumbs", e)
          /\ d # None /\ e' = d /\ d' = None /\ UNCHANGED <<a, b, c, t>>
      <4>1. main = Frame => Disposed("thumbs", e) = pixmaps
        BY DEF Disposed, HasPixmap, Polling, Frame
      <4> QED BY <1>0, <1>11, <2>2, <4>1 DEF PollTake, Asked, Doing, Polling, Frame, WorkerType
    <3>2. Holders' = Holders \ {e}
      BY <1>7, <3>1 DEF Holders
    <3> QED BY <1>6, <3>1, <3>2
  <2> QED BY <2>1, <2>2 DEF Workers
<1>12. ASSUME NEW k \in Workers, CloseWorker(k) PROVE PixmapsHeld'
  <2>1. UNCHANGED <<pixmaps, a, b, c, d, e, t>>
    BY <1>0, <1>12 DEF CloseWorker, After, Asked, Doing, Polling
  <2> QED BY <1>2, <2>1
<1>13. ASSUME NEW k \in Workers, JoinWorker(k) PROVE PixmapsHeld'
  <2>1. UNCHANGED <<a, b, c, e, t>>
    BY <1>0, <1>13 DEF JoinWorker, After, Asked, Doing, Polling
  <2>2. CASE k = "views"
    <3>1. UNCHANGED <<pixmaps, d>>
      BY <1>8, <1>13, <2>2 DEF JoinWorker
    <3> QED BY <1>2, <2>1, <3>1
  <2>3. CASE k = "thumbs"
    <3>1. pixmaps' = Disposed("thumbs", d) /\ d' = None
      BY <1>0, <1>13, <2>3 DEF JoinWorker, WorkerType
    <3>2. Holders' = Holders \ {d}
      BY <1>7, <2>1, <3>1 DEF Holders
    <3> QED BY <1>6, <2>1, <3>1, <3>2
  <2> QED BY <2>2, <2>3 DEF Workers
<1>14. CASE User
  <2>1. UNCHANGED <<pixmaps, a, b, d, e>>
    <3>1. CASE CatalogEvent \/ SortChange
      <4>1. UNCHANGED main \/ main' = [at |-> "send", on |-> "views", job |-> Current']
        BY <3>1, ViewRequested
      <4>2. main = Frame /\ UNCHANGED <<pixmaps, requests, results>>
        BY <3>1, ViewRequested
      <4> QED BY <4>1, <4>2 DEF Asked, Polling, Frame
    <3>2. CASE OpenSelect \/ SelectNewest \/ ClosePopup \/ \E p \in Paths : MoveMouse(p)
      BY <3>2, Zenon DEF OpenSelect, SelectNewest, ClosePopup, MoveMouse, workerVars, Asked, Polling
    <3>3. CASE Shutdown
      BY <3>3 DEF Shutdown, workerVars, Asked, Polling, Frame
    <3> QED BY <1>14, <3>1, <3>2, <3>3 DEF User
  <2>2. UNCHANGED c /\ (t' = t \/ (t = "none" /\ t' = "idle"))
    <3>1. UNCHANGED worker \/ \E k \in Workers : worker' = StartWorker(k)
      <4>1. CASE CatalogEvent \/ SortChange
        BY <4>1, ViewRequested DEF Workers
      <4>2. CASE OpenSelect \/ SelectNewest
        BY <4>2 DEF OpenSelect, SelectNewest, Workers
      <4>3. CASE ClosePopup \/ Shutdown \/ \E p \in Paths : MoveMouse(p)
        BY <4>3, Zenon DEF ClosePopup, Shutdown, MoveMouse, workerVars
      <4> QED BY <1>14, <4>1, <4>2, <4>3 DEF User
    <3>2. CASE UNCHANGED worker
      BY <3>2 DEF Doing
    <3>3. ASSUME NEW k \in Workers, worker' = StartWorker(k)
          PROVE  UNCHANGED c /\ (t' = t \/ (t = "none" /\ t' = "idle"))
      BY <3>3, WorkerStarted DEF Workers
    <3> QED BY <3>1, <3>2, <3>3
  <2>3. Holders' = Holders /\ Undecoded' \subseteq Undecoded
    BY <2>1, <2>2 DEF Holders, Undecoded
  <2> QED BY <1>1, <2>1, <2>3
<1>15. CASE Worker("views")
  <2>1. UNCHANGED <<main, b, c, d, t>>
    BY <1>0, <1>15, WorkerAt
       DEF Worker, StopWorker, ReceiveRequest, ArmCancel, BuildView, PublishTry,
           PublishReplace, PublishPut, Published, GivenUp, WorkerType, Workers, Doing
  <2>2. UNCHANGED pixmaps
    BY <1>15 DEF Worker, StopWorker, ReceiveRequest, ArmCancel, BuildView, PublishTry,
           PublishReplace, PublishPut, Published, GivenUp, Disposed, HasPixmap
  <2> QED BY <1>2, <2>1, <2>2 DEF Asked, Polling
<1>16. CASE Worker("thumbs")
  <2> DEFINE k == "thumbs"
  <2>1. UNCHANGED <<a, e>>
    <3>1. UNCHANGED main
      BY <1>16 DEF Worker, StopWorker, ReceiveRequest, DecodeImage, PublishTry,
             PublishReplace, PublishPut
    <3> QED BY <3>1 DEF Asked, Polling
  <2>2. t \in {"none", "idle", "done"} <=> c = None
    BY DEF Standing, Workers
  <2>3. CASE StopWorker(k)
    <3>1. UNCHANGED <<pixmaps, b, d>> /\ c' = None /\ c = None /\ t' = "done"
      BY <1>0, <2>2, <2>3 DEF StopWorker, WorkerType, Doing, Workers
    <3>2. Holders' = Holders /\ Undecoded' \subseteq Undecoded
      BY <2>1, <3>1 DEF Holders, Undecoded
    <3> QED BY <1>1, <3>1, <3>2
  <2>4. CASE ReceiveRequest(k)
    <3>1. UNCHANGED <<pixmaps, d>> /\ b # None /\ c' = b /\ c = None /\ b' = None
      BY <1>0, <2>2, <2>4 DEF ReceiveRequest, WorkerType, Doing, Workers
    <3>2. Holders' = Holders \union {b} /\ Undecoded' \subseteq Undecoded /\ b \in Undecoded
      BY <2>1, <3>1 DEF Holders, Undecoded
    <3> QED BY <3>1, <3>2 DEF PixmapsHeld
  <2>5. CASE DecodeImage
    BY <2>5, Decoded
  <2>6. CASE PublishTry(k) \/ PublishPut(k)
    <3>1. UNCHANGED b /\ t' # "work" /\ c # None
      BY <1>0, <2>2, <2>6 DEF PublishTry, PublishPut, Published, GivenUp, WorkerType, Workers
    <3>2. \/ UNCHANGED pixmaps /\ d = None /\ d' = c /\ c' = None
          \/ pixmaps' = Disposed("thumbs", c) /\ UNCHANGED d /\ c' = None
          \/ UNCHANGED <<pixmaps, c, d>>
      BY <1>0, <2>6 DEF PublishTry, PublishPut, Published, GivenUp, WorkerType, Doing, Workers
    <3>3. CASE pixmaps' = Disposed("thumbs", c) /\ UNCHANGED d /\ c' = None
      <4>1. Holders' = Holders \ {c}
        BY <1>7, <2>1, <3>3 DEF Holders
      <4> QED BY <1>5, <2>1, <3>1, <3>3, <4>1
    <3>4. CASE UNCHANGED pixmaps /\ {c, d}' = {c, d}
      <4>1. Holders' = Holders /\ Undecoded' \subseteq Undecoded
        BY <2>1, <3>1, <3>4 DEF Holders, Undecoded
      <4> QED BY <1>1, <3>4, <4>1
    <3>5. \/ UNCHANGED pixmaps /\ {c, d}' = {c, d}
          \/ pixmaps' = Disposed("thumbs", c) /\ UNCHANGED d /\ c' = None
      <4> HIDE DEF c, d
      <4> QED BY <3>2
    <3> QED BY <3>3, <3>4, <3>5
  <2>7. CASE PublishReplace(k)
    <3>1. UNCHANGED <<b, c>> /\ t' # "work" /\ d' = None /\ pixmaps' = Disposed("thumbs", d)
      BY <1>0, <2>7 DEF PublishReplace, WorkerType, Doing, Workers
    <3>2. Holders' = Holders \ {d}
      BY <1>7, <2>1, <3>1 DEF Holders
    <3> QED BY <1>5, <2>1, <3>1, <3>2
  <2> QED BY <1>16, <2>3, <2>4, <2>5, <2>6, <2>7 DEF Worker
<1>17. CASE SendRequest \/ DropRequest
  <2>1. UNCHANGED <<pixmaps, c, d, e, t>> /\ {a, b}' \subseteq {a, b, None}
    BY <1>0, <1>17, MainFacts DEF SendRequest, DropRequest, Asked, Doing, Polling, Frame,
                               WorkerType, Workers
  <2> QED BY <1>2, <2>1
<1>18. CASE Over \/ UNCHANGED vars
  <2>1. UNCHANGED <<pixmaps, a, b, c, d, e, t>>
    BY <1>18 DEF Over, vars, workerVars, Asked, Doing, Polling
  <2> QED BY <1>2, <2>1
<1> QED BY <1>4, <1>9, <1>10, <1>11, <1>12, <1>13, <1>14, <1>15, <1>16, <1>17, <1>18
        DEF Next, Main, Workers

-----------------------------------------------------------------------------
(* The invariant and what follows from it.                                   *)

SongInv ==
    /\ SongTypes /\ Standing /\ InTurn("views") /\ InTurn("thumbs")
    /\ Listed /\ WindowTrue /\ Tooltip /\ PixmapsHeld

LEMMA SongInvInit == Init => SongInv
<1> SUFFICES ASSUME Init PROVE SongInv
  OBVIOUS
<1>1. SongTypes /\ Standing /\ InTurn("views") /\ InTurn("thumbs")
  BY InitTypes, InitStands DEF Workers
<1>2. OnTheWay("views") = {None} /\ view = None /\ ~Sending /\ revision = 0
  BY DEF Init, OnTheWay, Sending, Asked, Doing, Polling, Frame, Workers
<1>3. Listed /\ WindowTrue
  BY <1>2 DEF Listed, WindowTrue, Init
<1>4. Tooltip
  BY DEF Tooltip, Init, Frame
<1>5. PixmapsHeld
  <2>1. Undecoded = {} /\ DOMAIN pixmaps = {}
    BY DEF Init, Undecoded, Asked, Doing, Frame, Workers
  <2> QED BY <2>1 DEF PixmapsHeld
<1> QED BY <1>1, <1>3, <1>4, <1>5 DEF SongInv

LEMMA SongInvNext == SongInv /\ [Next]_vars => SongInv'
<1> SUFFICES ASSUME SongInv, [Next]_vars PROVE SongInv'
  OBVIOUS
<1>0. /\ SongTypes /\ Standing /\ InTurn("views") /\ InTurn("thumbs")
      /\ Listed /\ WindowTrue /\ Tooltip /\ PixmapsHeld
  BY DEF SongInv
<1>1. SongTypes' /\ Standing'
  BY <1>0, SongTyped, Stands
<1>2. ASSUME NEW k \in Workers, InTurn(k) PROVE InTurn(k)'
  BY <1>0, <1>2, NewestNat, NextMoves, MovesInTurn
<1>3. InTurn("views")' /\ InTurn("thumbs")'
  BY <1>0, <1>2 DEF Workers
<1>4. Listed' /\ WindowTrue'
  BY <1>0, ListKept, WindowStays
<1>5. Tooltip' /\ PixmapsHeld'
  BY <1>0, TooltipStays, PixmapsStay
<1> QED BY <1>1, <1>3, <1>4, <1>5 DEF SongInv

LEMMA SongInvInvariant == Spec => []SongInv
BY SongInvInit, SongInvNext, PTL DEF Spec

LEMMA ImagesOwned == SongInv => PixmapsOwned
<1> SUFFICES ASSUME SongInv PROVE PixmapsOwned
  OBVIOUS
<1> USE DEF SongInv
<1> DEFINE holders == {results["thumbs"], worker["thumbs"].job,
                       IF main.at = "poll" /\ main.on = "thumbs" THEN main.job ELSE None}
<1>1. Holders = holders \ {None}
  BY DEF Holders, Doing, Polling
<1>2. ASSUME NEW r \in DOMAIN pixmaps
      PROVE  pixmaps[r] = IF \E j \in holders : j # None /\ j.revision = r
                          THEN "live" ELSE "disposed"
  <2> HIDE DEF holders
  <2> QED BY <1>1, <1>2 DEF PixmapsHeld
<1>3. results["thumbs"] # None => results["thumbs"] # worker["thumbs"].job
  BY Apart DEF Doing
<1>4. main.at = "over" => Holders = {}
  <2> SUFFICES ASSUME main.at = "over" PROVE Holders = {}
    OBVIOUS
  <2>1. results["thumbs"] = None /\ worker["thumbs"].at \in {"none", "done"}
    BY DEF Tooltip
  <2>2. Doing("thumbs") = None
    BY <2>1 DEF Standing, Workers
  <2> QED BY <2>1, <2>2 DEF Holders, Polling
<1>5. main.at = "over" => \A r \in DOMAIN pixmaps : pixmaps[r] = "disposed"
  BY <1>4 DEF PixmapsHeld
<1>6. texture \in {None, path} /\ (main.at = "over" => texture = None)
  BY DEF Tooltip
<1> QED BY <1>2, <1>3, <1>5, <1>6 DEF PixmapsOwned

LEMMA ListTrue == SongInv => BuildingIsTrue
<1> SUFFICES ASSUME SongInv PROVE BuildingIsTrue
  OBVIOUS
<1> USE DEF SongInv
<1>0. TypeOK /\ MainType /\ main \in MainSteps /\ None \notin Jobs /\ revision \in Nat
  BY TypesImplyTypeOK, JobFacts DEF SongTypes, MainType, DisplayType, Workers
<1>1. Sending <=> building \/ (main.at \in {"send", "drop"} /\ main.on = "views")
  BY <1>0, MainFacts DEF Sending, Asked
<1>2. ASSUME Running, Sending PROVE Current \in Outstanding("views")
  <2>1. Current \in OnTheWay("views") /\ Current # None /\ Current.revision = revision
    BY <1>0, <1>2, CurrentFacts DEF Listed, SongTypes, Jobs
  <2>2. worker["views"].at = "work" /\ cancel = "called" => worker["views"].job # Current
    BY <1>0, <1>2, <2>1 DEF Standing, Doing, SongTypes, InTurn, Newest, Workers
  <2> QED BY <2>1, <2>2 DEF OnTheWay, Outstanding, Asked, Doing, Polling
<1>3. ASSUME Running, ~Sending, revision > 0 PROVE view = Current
  BY <1>3 DEF Listed
<1>4. ASSUME main = Frame, window # None
      PROVE  /\ window.building = building
             /\ window.view = view
             /\ window.catalog = catalog /\ window.revision = revision
             /\ window.selectNewest => building \/ revision = 0
  <2>1. Agrees(window) /\ (Sending <=> building)
    BY <1>4 DEF WindowTrue, Sending, Asked, Frame
  <2>2. window \in Windows
    BY <1>4 DEF SongTypes, DisplayType
  <2>3. window.building \in BOOLEAN
    BY <2>2 DEF Windows
  <2>4. building \in BOOLEAN
    BY DEF SongTypes, DisplayType
  <2>5. window.building = building
    BY <2>1, <2>3, <2>4 DEF Agrees
  <2>6. window.selectNewest => building \/ revision = 0
    BY <2>1 DEF Agrees
  <2> QED BY <2>1, <2>5, <2>6 DEF Agrees
<1> QED BY <1>0, <1>1, <1>2, <1>3, <1>4 DEF BuildingIsTrue, Current

LEMMA ShownSteps ==
    SongInv /\ [Next]_vars => [Display!Want \/ Display!Show \/ Display!Close]_(Display!vars)
<1> SUFFICES ASSUME SongInv, [Next]_vars
             PROVE  [Display!Want \/ Display!Show \/ Display!Close]_(Display!vars)
  OBVIOUS
<1> USE DEF SongInv
<1> DEFINE wanted == IF revision = 0 THEN None ELSE <<catalog, ascending>>
           shown  == IF view = None THEN None ELSE <<view.catalog, view.ascending>>
<1>0. MainType
  BY DEF SongTypes
<1>1. ASSUME shown' \in {shown, wanted'}, Running, Running'
      PROVE  [Display!Want \/ Display!Show]_(Display!vars)
  <2>1. (~Running)' = ~Running
    BY <1>1
  <2>2. CASE wanted' # wanted
    BY <1>1, <2>1, <2>2, Zenon DEF Display!Want
  <2>3. CASE wanted' = wanted /\ shown' # shown
    BY <1>1, <2>1, <2>3, Zenon DEF Display!Show
  <2>4. CASE wanted' = wanted /\ shown' = shown
    BY <2>1, <2>4, Zenon DEF Display!vars
  <2> QED BY <2>2, <2>3, <2>4
<1>2. CASE CatalogEvent \/ SortChange
  <2>1. main = Frame /\ view' \in {view, Current'} /\ revision' = revision + 1
    BY <1>2, ViewRequested
  <2>2. main' = Frame \/ main' = [at |-> "send", on |-> "views", job |-> Current']
    BY <1>2, <2>1, ViewRequested
  <2>3. Running /\ Running'
    BY <2>1, <2>2 DEF Running, Frame
  <2>4. Current' # None /\ Current'.catalog = catalog' /\ Current'.ascending = ascending'
    BY SongTyped, CurrentNext DEF SongTypes, Current
  <2>5. revision' # 0
    BY <2>1 DEF SongTypes, DisplayType
  <2>6. shown' \in {shown, wanted'}
    BY <2>1, <2>4, <2>5
  <2> QED BY <1>1, <2>3, <2>6
<1>3. CASE ApplyView
  <2>1. main.at = "poll" /\ main' = Frame /\ UNCHANGED <<catalog, ascending, revision>>
    BY <1>3 DEF ApplyView, Polled
  <2>2. Running /\ Running'
    BY <2>1 DEF Running, Frame
  <2>3. view' = view \/ (view' = Current /\ ~Sending')
    <3>1. Listed'
      BY ListKept
    <3>2. main.job \in OnTheWay("views") /\ main.job # None
      BY <1>0, <1>3, JobFacts DEF ApplyView, Polled, OnTheWay, Polling, MainType, Workers
    <3>3. view' \in {view, main.job} /\ (view' # view => main.job.revision = revision)
      BY <1>3 DEF ApplyView
    <3>4. main.job.revision = revision => main.job = Current
      BY <3>2 DEF Listed
    <3>5. view' # view => building' = FALSE
      BY <1>3 DEF ApplyView
    <3> QED BY <2>1, <3>3, <3>4, <3>5 DEF Sending, Asked, Frame
  <2>4. view' = Current => revision # 0
    <3>1. Listed' /\ Current # None
      BY ListKept, CurrentFacts, ParamsAssumption DEF SongTypes, Jobs
    <3> QED BY <2>1, <3>1 DEF Listed
  <2>5. Current # None /\ Current.catalog = catalog /\ Current.ascending = ascending
    BY CurrentFacts, ParamsAssumption DEF SongTypes, Jobs
  <2>6. shown' \in {shown, wanted'}
    BY <2>1, <2>3, <2>4, <2>5
  <2> QED BY <1>1, <2>2, <2>6
<1>4. CASE ~(CatalogEvent \/ SortChange \/ ApplyView)
  <2>1. UNCHANGED <<wanted, shown>>
    BY <1>4, OtherSteps
  <2>2. (Running' <=> Running) \/ ~Running'
    BY <1>0, ShuttingDown
  <2>3. CASE Running' <=> Running
    <3>1. (~Running)' = ~Running
      BY <2>3
    <3> QED BY <2>1, <3>1, Zenon DEF Display!vars
  <2>4. CASE ~Running'
    <3>1. (~Running)' = TRUE
      BY <2>4
    <3> QED BY <2>1, <3>1, Zenon DEF Display!Close
  <2> QED BY <2>2, <2>3, <2>4
<1> QED BY <1>2, <1>3, <1>4

LEMMA ShownInit == Init => Display!Init
<1> SUFFICES ASSUME Init PROVE Display!Init
  OBVIOUS
<1>1. (~Running) = FALSE
  BY DEF Init, Running, Frame
<1>2. view = None /\ revision = 0
  BY DEF Init
<1> QED BY <1>1, <1>2, Zenon DEF Display!Init

(* Every image decoded is freed exactly once, after the last who held it has *)
(* let go, and none is left when the launcher has shut down.                 *)
THEOREM PixmapsOwnedOnce == Spec => []PixmapsOwned
BY SongInvInvariant, ImagesOwned, PTL

(* "Updating map list..." is shown exactly while the newest list is on its   *)
(* way, and otherwise the list is the current one.                           *)
THEOREM ListIsTrue == Spec => []BuildingIsTrue
BY SongInvInvariant, ListTrue, PTL

(* The list on screen changes only to the list wanted at that moment: every  *)
(* step of the window and its workers is a step of CatalogDisplay or none.   *)
THEOREM ListSteps ==
    Spec => Display!Init /\ [][Display!Want \/ Display!Show \/ Display!Close]_(Display!vars)
BY SongInvInvariant, ShownInit, ShownSteps, PTL DEF Spec
=============================================================================
