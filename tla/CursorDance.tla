----------------------------- MODULE CursorDance -----------------------------
(***************************************************************************)
(* Generated cursors: each has a scheduler that walks its queue as time    *)
(* passes and an input processor that presses the two keys.  The cursor    *)
(* travels along a mover's curve from the end of one object to the start   *)
(* of the next; on the way it is nowhere in particular.                    *)
(*                                                                         *)
(* A frame advances the time by 1 to cfg.frame milliseconds; participants  *)
(* that are scored are brought forward one millisecond at a time.          *)
(***************************************************************************)
EXTENDS DanceQueue

CONSTANTS
  Maps,        \* sequences of hit objects, sorted by start, from time 2 on
  Configs,     \* what the settings ask for, see MCDance
  Hold,        \* how long a key stays down after its object (50 ms)
  SingleTap,   \* from this distance on the same key is used again (140 ms)
  HitWindow,   \* how far from its time a note may be tapped
  SeekTimes    \* where playback may begin

ASSUME CursorDanceAssumption ==
  /\ Hold \in Nat \ {0} /\ SingleTap \in Nat /\ HitWindow \in Nat
  /\ \A m \in Maps : \A i \in DOMAIN m : m[i].start >= 2

VARIABLES
  map, cfg,   \* the objects of the map and the settings, chosen at start
  phase,      \* "new", "ready" (the cursors exist) or "playing"
  time,       \* of the last update
  plan,       \* what each scheduler's queue was at its Init
  scheduler,  \* per cursor: its queue, its mover's window and curve
  input,      \* per cursor: what is to be pressed, when the keys come up
  cursor,     \* per cursor: where it is and which keys are down
  untapped    \* per cursor: the notes it has not hit yet

vars == <<map, cfg, phase, time, plan, scheduler, input, cursor, untapped>>

Away == -1      \* between objects
Keys == {"left", "right"}

LastEnd == LET ends == {map[i].end : i \in DOMAIN map}
           IN  CHOOSE e \in ends : \A f \in ends : f <= e

Horizon == LastEnd + Hold + 2
-----------------------------------------------------------------------------
(* Movers.  A window is a piece of a queue, the mover leads from its first *)
(* object to the next one, or, the spline mover, to the next long one or   *)
(* the last, passing the others at their times.                            *)
Target(window) ==
  IF cfg.spline
  THEN CHOOSE i \in 2 .. Len(window) :
         /\ IsLong(window[i]) \/ i = Len(window)
         /\ \A j \in 2 .. i - 1 : ~IsLong(window[j])
  ELSE 2

SetObjects(window, last) ==
  LET from == window[1]  to == window[Target(window)]
  IN  [start |-> from.end, end |-> to.start, from |-> from.place, to |-> to.place,
       passed |-> SubSeq(window, 2, Target(window) - 1), last |-> last]

(* The cursor on the curve at t; a passed object is met once, and dropped. *)
Meets(curve, o, t) == o.start <= t /\ curve.last <= o.start

OnCurve(curve, t) ==
  LET met == SelectSeq(curve.passed, LAMBDA o : Meets(curve, o, t))
  IN  IF met # <<>> THEN met[Len(met)].place
      ELSE IF t >= curve.end THEN curve.to
      ELSE IF t <= curve.start THEN curve.from
      ELSE Away

Passed(curve, t) ==
  [curve EXCEPT !.passed = SelectSeq(@, LAMBDA o : ~Meets(curve, o, t)), !.last = t]
-----------------------------------------------------------------------------
(* A scheduler's update walks the objects that have begun: the cursor is   *)
(* set on them, and those that have ended leave, the next ones with them   *)
(* that the new curve passes.                                              *)
Window(q, i, lastEnd) ==
  LET late == {j \in i .. Len(q) : q[j].end >= lastEnd}
      upper == IF late = {} \/ i \in late THEN Len(q)
               ELSE (CHOOSE j \in late : \A k \in late : j <= k) - 1
  IN  SubSeq(q, i, upper)

(* As many leave with an object that has ended as the new curve passes.    *)
ConsumesOne(window) == 1

Consumed(window) == IF Len(window) > 1 THEN Target(window) - 1 ELSE 1

(* From the i-th object on, for an update at t after one at last.          *)
RECURSIVE Walk(_, _, _, _)
Walk(w, i, t, last) ==
  IF i > Len(w.queue) \/ w.queue[i].start > t THEN w
  ELSE LET g == w.queue[i]
           lastEnd == Larger(w.lastEnd, g.end)
           meets == last <= g.start
           on == [w EXCEPT !.lastEnd = lastEnd,
                           !.place = IF meets \/ t <= g.end THEN g.place ELSE @,
                           !.moves = @ /\ ~meets]
           window == Window(w.queue, i, lastEnd)
       IN  IF t <= g.end THEN Walk(on, i + 1, t, last)
           ELSE Walk([on EXCEPT !.queue = SubSeq(@, 1, i - 1) \o SubSeq(@, i + Consumed(window), Len(@)),
                                !.curve = IF Len(window) > 1 THEN SetObjects(window, @.last) ELSE @],
                     i, t, last)

UpdatedScheduler(s, place, t) ==
  LET w == Walk([queue |-> s.queue, curve |-> s.curve, place |-> place,
                 moves |-> TRUE, lastEnd |-> 0], 1, t, s.last)
      moved == s.queue # <<>> /\ w.moves /\ w.curve.end >= t
  IN  [scheduler |-> [queue |-> w.queue, last |-> t,
                      curve |-> IF moved THEN Passed(w.curve, t) ELSE w.curve],
       place |-> IF moved THEN OnCurve(w.curve, t) ELSE w.place]

(* A seek drops what has ended and rebuilds one curve.                     *)
SoughtScheduler(s, place, t) ==
  LET begun == {i \in DOMAIN s.queue : s.queue[i].end >= t}
      current == CHOOSE i \in begun : \A j \in begun : i <= j
      window == SubSeq(s.queue, current - 1, Len(s.queue))
      left == [s EXCEPT !.last = t]
  IN  IF s.queue = <<>> THEN [scheduler |-> left, place |-> place]
      ELSE IF begun = {}
      THEN [scheduler |-> [left EXCEPT !.queue = <<>>], place |-> s.queue[Len(s.queue)].place]
      ELSE UpdatedScheduler(
             IF current = 1 THEN left
             ELSE [left EXCEPT !.queue = SubSeq(window, Target(window), Len(window)),
                               !.curve = SetObjects(window, @.last)], place, t)
-----------------------------------------------------------------------------
(* The input processor gives each object a key.  A key is let go in time   *)
(* for the next object that needs it.                                      *)
ReleaseBefore(q, free, end) ==
  IF free <= Len(q) /\ Larger(end + 1, q[free].start - 1) < end + Hold
  THEN Larger(end + 1, q[free].start - 1) ELSE end + Hold

ReleaseForAlternation(q, end) == ReleaseBefore(q, 3, end)

ReleaseAt(q, end) ==
  LET bothNeeded == Len(q) > 1 /\ (q[1].double \/ q[2].double)
  IN  ReleaseBefore(q, IF bothNeeded THEN 2 ELSE 3, end)

(* The slider points right after an object prolong its press.              *)
NextNote(q) ==
  LET others == {k \in 2 .. Len(q) : ~IsSliderPoint(q[k]) \/ q[k].part = "head"}
  IN  IF others = {} THEN Len(q) + 1 ELSE CHOOSE k \in others : \A l \in others : k <= l

HeadOnly(q) ==
  [end |-> q[1].end, queue |-> <<q[1]>> \o SubSeq(q, NextNote(q), Len(q))]

Prolonged(q) ==
  [end |-> q[NextNote(q) - 1].end, queue |-> <<q[1]>> \o SubSeq(q, NextNote(q), Len(q))]

Pressed(p) ==      \* the press for the first object
  LET g == p.queue[1]
      long == Prolonged(p.queue)
      release == ReleaseAt(long.queue, long.end)
      useLeft == ~p.wasLeft /\ (g.start - p.previousEnd < SingleTap \/ p.release["right"] >= g.start)
      used == IF g.double THEN Keys ELSE IF useLeft THEN {"left"} ELSE {"right"}
  IN  [p EXCEPT !.queue = Tail(long.queue), !.wasLeft = useLeft, !.previousEnd = long.end,
                !.release = [k \in Keys |-> IF k \in used THEN release ELSE @[k]]]

(* Those of all objects that have begun.                                    *)
RECURSIVE PressedUntil(_, _)
PressedUntil(p, t) ==
  IF p.queue = <<>> \/ Head(p.queue).start > t THEN p ELSE PressedUntil(Pressed(p), t)
-----------------------------------------------------------------------------
Cursors == 1 .. cfg.tag

Notes == {i \in DOMAIN map : map[i].kind # "spinner"}

(* A scored participant has to tap every note, the cursors of a tag share  *)
(* them.  A fresh press hits the first open note under the cursor.         *)
Team(c) == IF cfg.scored THEN {c} ELSE Cursors

HitBy(team, open, t) ==
  LET presses(p) == Cardinality({<<c, k>> \in team \X Keys :
                      cursor'[c].place = p /\ k \in cursor'[c].down \ cursor[c].down})
      near == {n \in open : t - map[n].start \in -HitWindow .. HitWindow}
      Before(n) == {m \in near : m < n /\ map[m].place = map[n].place}
  IN  {n \in near : Cardinality(Before(n)) < presses(map[n].place)}

Shown(updated, open, t) ==
  /\ scheduler' = [c \in Cursors |-> updated[c].scheduler]
  /\ input' = [c \in Cursors |->
                 IF plan[c] = <<>> THEN input[c] ELSE PressedUntil(input[c], t)]
  /\ cursor' = [c \in Cursors |->
                  [place |-> updated[c].place,
                   down |-> {k \in Keys : t < input'[c].release[k]}]]
  /\ untapped' = [c \in Cursors |-> open[c] \ HitBy(Team(c), open[c], t)]
  /\ time' = t
  /\ phase' = "playing"
  /\ UNCHANGED <<map, cfg, plan>>

Init ==
  /\ map \in Maps /\ cfg \in Configs
  /\ phase = "new" /\ time = 0
  /\ plan = <<>> /\ scheduler = <<>> /\ input = <<>> /\ cursor = <<>> /\ untapped = <<>>

Fresh(queue) ==
  LET window == <<DummyCircle(Away, -500)>> \o queue
  IN  IF queue = <<>> THEN [queue |-> <<>>, last |-> 0, curve |-> SetObjects(window \o window, -1000)]
      ELSE [queue |-> SubSeq(window, Target(window), Len(window)), last |-> 0,
            curve |-> SetObjects(window, -1000)]

InitCursors ==
  /\ phase = "new"
  /\ LET queue == SharedQueue(map, cfg)
     IN  plan' = [c \in Cursors |-> Prepared(ShareOf(queue, c, cfg), cfg)]
  /\ scheduler' = [c \in Cursors |-> Fresh(plan'[c])]
  /\ input' = [c \in Cursors |->
                 [queue |-> plan'[c], wasLeft |-> FALSE, previousEnd |-> 0,
                  release |-> [k \in Keys |-> -1000]]]
  /\ cursor' = [c \in Cursors |-> [place |-> Away, down |-> {}]]
  /\ untapped' = [c \in Cursors |-> Notes]
  /\ phase' = "ready"
  /\ UNCHANGED <<map, cfg, time>>

Seek(t) ==
  /\ phase = "ready"
  /\ Shown([c \in Cursors |-> SoughtScheduler(scheduler[c], cursor[c].place, t)],
           [c \in Cursors |-> {n \in Notes : map[n].start > t + MergeGap}], t)

Update(t) ==
  /\ phase # "new" /\ t <= Horizon
  /\ Shown([c \in Cursors |-> UpdatedScheduler(scheduler[c], cursor[c].place, t)],
           untapped, t)

Over == time = Horizon /\ UNCHANGED vars

Next ==
  \/ InitCursors
  \/ \E t \in SeekTimes : Seek(t)
  \/ \E d \in 1 .. cfg.frame : Update(time + d)
  \/ Over

Spec == Init /\ [][Next]_vars
-----------------------------------------------------------------------------
(* What a scheduler is prepared with can be played one after the other: a  *)
(* long object shares no moment with another one, and of circles only a    *)
(* slider's point may fall on the one before it.                           *)
Untangled ==
  phase # "new" => \A c \in Cursors : \A i \in 1 .. Len(plan[c]) - 1 :
    LET o == plan[c][i]  n == plan[c][i + 1]
    IN  o.end < n.start \/ (o.end = n.start /\ ~IsLong(o) /\ IsSliderPoint(n) /\ n.part # "head")

(* What is left to play depends on the time alone, neither on how long the *)
(* frames were nor on where playback began.                                *)
Remaining(c) ==
  LET q == plan[c]
      ahead == {i \in DOMAIN q : q[i].end >= time /\ (~cfg.spline \/ IsLong(q[i]) \/ i = Len(q))}
  IN  IF ahead = {} THEN <<>>
      ELSE SubSeq(q, CHOOSE i \in ahead : \A j \in ahead : i <= j, Len(q))

Timely == phase = "playing" => \A c \in Cursors : scheduler[c].queue = Remaining(c)

(* No note passes untapped.                                                *)
EveryNoteTapped ==
  (phase = "playing" /\ cfg.frame = 1) =>
    \A c \in Cursors : \A n \in untapped[c] : time <= map[n].start + HitWindow

(* When a slider's point is judged a key is down and the cursor is there,  *)
(* unless something is due elsewhere at the time or, played together with  *)
(* it, in the lenient end of a lazer slider; so it is while spinning.      *)
Dues(n) == {map[n].start} \cup Range(PointTimes(map[n], cfg))

Shared(n, t) ==
  \E m \in Notes \ {n} :
    /\ map[m].place # map[n].place \/ (cfg.lazer /\ t = map[n].end)
    /\ \E u \in Dues(m) : u - t \in -HitWindow .. HitWindow

HeldAt(c, place) == cursor[c].down # {} /\ cursor[c].place = place

HeldThrough ==
  (phase = "playing" /\ cfg.frame = 1) =>
    /\ \A n \in Notes : \A t \in Range(PointTimes(map[n], cfg)) :
         (time = t /\ ~Shared(n, t)) =>
           \A c \in Cursors : \E d \in Team(c) : HeldAt(d, map[n].place)
    /\ \A c \in Cursors : \A i \in DOMAIN plan[c] :
         (plan[c][i].kind = "spinner" /\ time \in plan[c][i].start .. plan[c][i].end)
           => HeldAt(c, Centre)
=============================================================================
