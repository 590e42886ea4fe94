----------------------------- MODULE DanceQueue -----------------------------
(***************************************************************************)
(* How the hit objects of a map become the queues the generated cursors    *)
(* play: sliders are replaced by points, overlaps ("2B" maps) are resolved,*)
(* the objects are shared out between the cursors, circles on top of each  *)
(* other become one double click and what still shares a moment is spread. *)
(*                                                                         *)
(* A hit object is a record; a place stands for a position and everything  *)
(* within a circle's radius of it, times are whole milliseconds.           *)
(*   id      its place in the map; every object opens a combo of its own   *)
(*   kind    "circle", "slider" or "spinner"                               *)
(*   points  the times of a slider's score points after its head; a        *)
(*           slider that cannot be followed has none                       *)
(*   part    what a circle stands for: a "note" of its own, or the "head", *)
(*           a "tick" or the "tail" of an expanded slider                  *)
(*   double  it is played with both keys                                   *)
(***************************************************************************)
EXTENDS Integers, Sequences, SequencesExt, FiniteSets

CONSTANTS
  MergeGap,     \* circles this close in time become one double click (3 ms)
  SpinnerGap,   \* what a spinner leaves free around an object (30 ms)
  TailLead      \* how early the end of a scored stable slider is played (36 ms)

ASSUME DanceQueueAssumption ==
  /\ MergeGap \in Nat
  /\ SpinnerGap \in Nat \ {0}
  /\ TailLead \in Nat

Centre == 0     \* where spinners are spun

Larger(a, b) == IF a > b THEN a ELSE b

IsLong(o) == o.kind # "circle"

IsSliderPoint(o) == o.kind = "circle" /\ o.part # "note"

DummyCircle(place, at) ==
  [id |-> 0, kind |-> "circle", start |-> at, end |-> at, place |-> place,
   points |-> <<>>, part |-> "note", double |-> FALSE]

DummySpinner(from, to) ==
  [DummyCircle(Centre, from) EXCEPT !.kind = "spinner", !.end = to]

SortByStart(q) ==
  LET Before(i, j) == q[i].start < q[j].start \/ (q[i].start = q[j].start /\ i < j)
      Rank(i) == Cardinality({j \in DOMAIN q : Before(j, i)})
  IN  [k \in DOMAIN q |-> q[CHOOSE i \in DOMAIN q : Rank(i) = k - 1]]

(***************************************************************************)
(* Sliders as points.  A participant judged by the stable rules plays the  *)
(* last point early, though never in the first half of the slider.         *)
(***************************************************************************)
PointTimes(o, cfg) ==
  LET n == Len(o.points)
      early == Larger(o.start + (o.end - o.start) \div 2, o.end - TailLead)
  IN  IF n > 0 /\ cfg.scored /\ ~cfg.lazer THEN [o.points EXCEPT ![n] = early] ELSE o.points

AsDummyCircles(o, cfg) ==
  LET times == PointTimes(o, cfg)
      Point(at, part) == [o EXCEPT !.kind = "circle", !.start = at, !.end = at,
                                   !.points = <<>>, !.part = part]
  IN  <<Point(o.start, "head")>> \o
      [k \in DOMAIN times |-> Point(times[k], IF k = Len(times) THEN "tail" ELSE "tick")]

(* The sliders of these ids, and those that can only be points.            *)
Expand(q, ids, cfg) ==
  SortByStart(FlattenSeq([i \in DOMAIN q |->
    IF q[i].kind = "slider" /\ (q[i].id \in ids \/ q[i].points = <<>>)
    THEN AsDummyCircles(q[i], cfg) ELSE <<q[i]>>]))

(***************************************************************************)
(* The 2B solver, first pass: a slider something else happens in is played *)
(* as points.  Objects are not sorted by their ends, so the whole queue    *)
(* before the slider is looked at.                                         *)
(***************************************************************************)
OverlappedBefore(q, i) == \E j \in 1 .. i - 1 : q[j].end >= q[i].start

Overlapped(q, i) ==
  \/ \E j \in 1 .. i - 1 : q[j].end >= q[i].start
  \/ i < Len(q) /\ q[i + 1].start <= q[i].end

(* From the i-th object of the queue on.                                   *)
RECURSIVE SlidersSolved(_, _, _)
SlidersSolved(q, i, cfg) ==
  IF i > Len(q) THEN q
  ELSE SlidersSolved(IF q[i].kind = "slider" /\ Overlapped(q, i)
                     THEN Expand(q, {q[i].id}, cfg) ELSE q, i + 1, cfg)

(***************************************************************************)
(* Second pass: a spinner is cut around the objects inside it.             *)
(***************************************************************************)
CutAround(q, i) ==
  LET s == q[i]
      at0 == IF i > 1 /\ q[i - 1].end = s.start THEN s.start + SpinnerGap ELSE s.start
      inside == SelectSeq(SubSeq(q, i + 1, Len(q)), LAMBDA o : o.start <= s.end)
      Cut(c, o) ==
        [at   |-> o.end + SpinnerGap,
         subs |-> IF o.start - SpinnerGap > c.at
                  THEN Append(c.subs, DummySpinner(c.at, o.start - SpinnerGap)) ELSE c.subs]
      c == FoldLeft(Cut, [at |-> at0, subs |-> <<>>], inside)
  IN  IF c.at = s.start THEN [cut |-> FALSE, subs |-> <<>>]
      ELSE [cut  |-> TRUE,
            subs |-> IF s.end > c.at THEN Append(c.subs, DummySpinner(c.at, s.end)) ELSE c.subs]

RECURSIVE SpinnersSolved(_, _)
SpinnersSolved(q, i) ==
  IF i > Len(q) THEN q
  ELSE IF q[i].kind # "spinner" \/ ~CutAround(q, i).cut THEN SpinnersSolved(q, i + 1)
  ELSE LET subs == CutAround(q, i).subs
           rest == SubSeq(q, 1, i - 1) \o subs \o SubSeq(q, i + 1, Len(q))
       IN  IF subs = <<>> THEN SpinnersSolved(rest, i)
           ELSE SpinnersSolved(SortByStart(rest), i + 1)

Solve2B(q, cfg) == SpinnersSolved(SlidersSolved(q, 1, cfg), 1)

(***************************************************************************)
(* Which cursor plays what.                                                *)
(***************************************************************************)
AllIds(q) == {q[i].id : i \in DOMAIN q}

SharedQueue(map, cfg) ==
  LET followed == Expand(map, {}, cfg)
      danced == IF cfg.tagDance /\ cfg.tag > 1 /\ ~cfg.comboTag /\ ~cfg.battle
                THEN Expand(followed, AllIds(followed), cfg) ELSE followed
  IN  IF cfg.after THEN danced ELSE Solve2B(danced, cfg)

ShareOf(q, c, cfg) ==
  LET Gets(j) == \/ cfg.scored \/ cfg.battle
                 \/ q[j].kind = "spinner" /\ cfg.together
                 \/ (IF cfg.comboTag THEN q[j].id % cfg.tag ELSE (j - 1) % cfg.tag) = c - 1
  IN  FoldLeftDomain(LAMBDA s, j : IF Gets(j) THEN Append(s, q[j]) ELSE s, <<>>, q)

(***************************************************************************)
(* Two circles on top of each other are played with both keys at once, and *)
(* what is still due while another object is played comes after it.        *)
(***************************************************************************)
MayStack(o, cfg) ==
  o.kind = "circle" /\ (~IsSliderPoint(o) \/ o.part = "head" \/ (o.part = "tail" /\ cfg.lazer))

Stacked(a, b, cfg) ==
  /\ MayStack(a, cfg) /\ MayStack(b, cfg)
  /\ a.place = b.place
  /\ b.start - a.end <= MergeGap

DoubleClick(a, b, cfg) ==
  LET at == IF a.part = "tail" /\ cfg.lazer THEN a.end ELSE (b.start + a.end) \div 2
  IN  [DummyCircle(a.place, at) EXCEPT !.double = ~cfg.lazer \/ "tail" \notin {a.part, b.part}]

RECURSIVE Merged(_, _, _)
Merged(q, i, cfg) ==
  IF i >= Len(q) THEN q
  ELSE Merged(IF Stacked(q[i], q[i + 1], cfg)
              THEN [RemoveAt(q, i + 1) EXCEPT ![i] = DoubleClick(q[i], q[i + 1], cfg)]
              ELSE q, i + 1, cfg)

RECURSIVE Spread(_, _)
Spread(q, i) ==
  IF i >= Len(q) THEN q
  ELSE LET o == q[i]
           far == {k \in i + 1 .. Len(q) : q[k].start > o.end}
           Due(k) == k > i /\ \A f \in far : k < f
           Moves(c) == c.kind = "circle" /\ c.part \in {"note", "head"}
           Moved(k) == DummyCircle(q[k].place,
                                   q[k].start + (k - i) + (IF o.double THEN 1 ELSE 0))
       IN  Spread([k \in DOMAIN q |-> IF Due(k) /\ Moves(q[k]) THEN Moved(k) ELSE q[k]], i + 1)

(* The queue a scheduler is left with by its Init.                         *)
Prepared(objs, cfg) ==
  LET solved == IF cfg.after THEN Solve2B(objs, cfg) ELSE objs
      danced == Expand(solved, cfg.danced, cfg)
  IN  Spread(Merged(danced, 1, cfg), 1)
=============================================================================
