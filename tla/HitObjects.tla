----------------------------- MODULE HitObjects -----------------------------
(***************************************************************************)
(* How one participant's hit objects are judged: the per-object handlers   *)
(* of app/rulesets/osu (circle.go, slider.go, spinner.go) as functions     *)
(* from the participant's play to the play after the call.                 *)
(*                                                                         *)
(* A play has the state of every object and the running score.  Results    *)
(* are told apart only by what the score does with them: which part of an  *)
(* object is judged, whether it is a hit, and what it does to the combo.   *)
(* 300, 100 and 50 are one class ("hit"), so the three hit windows are the *)
(* one of a 50.  Positions are reduced to what the code asks of them: is   *)
(* the cursor over a head, and is it inside the ball ("on"), inside the    *)
(* follow circle only ("near") or neither ("out", which also stands for a  *)
(* button that is not held).  Rotation is counted in quarter turns.        *)
(***************************************************************************)
EXTENDS Integers, Sequences, FiniteSets, SequencesExt

CONSTANTS
    W50,            \* diff.Hit50: the window of the weakest hit
    HittableRange,  \* difficulty.HittableRange: presses further away shake
    Leniency,       \* lazerSliderTailLeniency: how early a tail may be judged
    Tolerance2B,    \* overlap under which an object does not lock the next
    SpinBonusGap    \* difficulty.LazerSpinBonusGap

ASSUME WindowsAssumption ==
    /\ {W50, HittableRange, Leniency, Tolerance2B, SpinBonusGap} \subseteq Nat
    /\ W50 < HittableRange

-----------------------------------------------------------------------------
(* Objects.  points are the times of a slider's ticks and repeats in order, *)
(* its tail the last; stacked is a positive stack index; required and       *)
(* bonus are a spinner's required spins and its maximum of bonus spins.     *)

Circle(start, stacked) ==
    [kind |-> "circle", start |-> start, end |-> start, stacked |-> stacked,
     points |-> <<>>, required |-> 0, bonus |-> 0]

Slider(start, points) ==
    [kind |-> "slider", start |-> start, end |-> Last(points),
     stacked |-> FALSE, points |-> points, required |-> 0, bonus |-> 0]

Spinner(start, end, required, bonus) ==
    [kind |-> "spinner", start |-> start, end |-> end, stacked |-> FALSE,
     points |-> <<>>, required |-> required, bonus |-> bonus]

\* Circles and sliders have a head to click; a spinner has not.
HasHead(o) == o.kind # "spinner"

\* objstate, sliderstate and spinnerState in one shape: hit is isHit or
\* finished, head is isStartHit, good is a head, circle or spinner that was hit, judged
\* counts the slider's judged points (they are judged in order), sliding and
\* since are the follow state.  rotation, most and spins are
\* currentSpinRotation, currentSpinMaxRotation and rotationCount, in quarters.
FreshObject ==
    [hit |-> FALSE, head |-> FALSE, good |-> FALSE, judged |-> 0, scored |-> 0,
     sliding |-> FALSE, since |-> 0, rotation |-> 0, most |-> 0, spins |-> 0]

\* The score processor's combo, hits and the Score's counters.
FreshScore ==
    [combo |-> 0, best |-> 0, potential |-> 0, base |-> 0, hits |-> 0,
     ends |-> 0, maxEnds |-> 0, bonus |-> 0]

FreshPlay(map) ==
    [obj |-> [i \in DOMAIN map |-> FreshObject], score |-> FreshScore]

-----------------------------------------------------------------------------
(* The score of one result. *)

\* Results that are a 300, 100, 50 or miss: the parent of an object, except
\* that lazer without Classic judges the head of a slider as its parent.
IsBase(r, part) ==
    part \in {"object", "summary"} \/ (part = "head" /\ r.lazer /\ ~r.classic)

\* ScoreV1 counts base results; ScoreV3 every result that can affect accuracy.
Counts(r, part) ==
    IF r.lazer THEN part # "bonus" ELSE IsBase(r, part)

AddResult(r, score, part, isHit, combo) ==
    LET next == CASE combo = "Reset"    -> 0
                  [] combo = "Increase" -> score.combo + 1
                  [] combo = "Hold"     -> score.combo
        One(b) == IF b THEN 1 ELSE 0
    IN  [combo     |-> next,
         best      |-> IF next > score.best THEN next ELSE score.best,
         potential |-> score.potential + One(combo # "Hold"),
         base      |-> score.base + One(IsBase(r, part)),
         hits      |-> score.hits + One(Counts(r, part)),
         ends      |-> score.ends + One(part = "tail" /\ isHit),
         maxEnds   |-> score.maxEnds + One(part = "tail"),
         bonus     |-> score.bonus + One(part = "bonus")]

SendResult(r, s, part, isHit, combo) ==
    [s EXCEPT !.score = AddResult(r, @, part, isHit, combo)]

\* scoreV3Processor.Init plays the map without a mistake to know its maxima.
Perfect(map, r) ==
    LET Add(score, part, combo) == AddResult(r, score, part, TRUE, combo)
        Points(score, n) ==
            FoldLeft(LAMBDA sc, k :
                        IF k < n THEN Add(sc, "tick", "Increase")
                        ELSE Add(sc, "tail",
                                 IF r.classic THEN "Hold" ELSE "Increase"),
                     score, [k \in 1 .. n |-> k])
        Object(score, o) ==
            IF o.kind # "slider" THEN Add(score, "object", "Increase")
            ELSE LET nested == Points(Add(score, "head", "Increase"),
                                      Len(o.points))
                 IN  CASE r.classic -> Add(nested, "summary", "Increase")
                       [] ~r.lazer  -> Add(nested, "summary", "Hold")
                       [] OTHER     -> nested
    IN  FoldLeft(Object, FreshScore, map)

-----------------------------------------------------------------------------
(* Note lock.  ps are the active objects, in order. *)

\* Mutant: an object on the screen locks the next, hit or not.
LockedWhileShown(map, ps, s, i) ==
    \A g \in Range(ps) \ {i} : map[g].end + Tolerance2B >= map[i].start

CanBeHitStable(map, ps, s, i) ==
    LET index == CHOOSE k \in DOMAIN ps : ps[k] = i
    IN  /\ ~ /\ map[i].kind = "circle"
             /\ index > 1
             /\ map[ps[index - 1]].stacked
             /\ ~s.obj[ps[index - 1]].hit
        /\ \A g \in Range(ps) \ {i} :
              ~s.obj[g].hit => map[g].end + Tolerance2B >= map[i].start

\* The active circles and sliders that start before object i.
Earlier(map, ps, i) ==
    SelectSeq(ps, LAMBDA g : HasHead(map[g]) /\ map[g].start < map[i].start)

CanBeHitLazer(map, ps, s, t, i) ==
    LET earlier == Earlier(map, ps, i)
    IN  \/ earlier = <<>>
        \/ s.obj[Last(earlier)].head
        \/ t >= map[Last(earlier)].start

Distance(a, b) == IF a < b THEN b - a ELSE a - b

CanBeHit(map, ps, r, s, t, i) ==
    /\ IF r.driver = "generated" \/ (r.lazer /\ ~r.noteLock)
       THEN CanBeHitLazer(map, ps, s, t, i)
       ELSE CanBeHitStable(map, ps, s, i)
    /\ Distance(t, map[i].start) < HittableRange

\* GetResultForDelta: is a press this far from the start a hit?
ResultForDelta(r, delta) == IF r.lazer THEN delta <= W50 ELSE delta < W50

MissForcefully(map, r, s, i) ==
    IF s.obj[i].head THEN s
    ELSE IF map[i].kind = "circle"
         THEN [SendResult(r, s, "object", FALSE, "Reset")
                 EXCEPT !.obj[i].hit = TRUE, !.obj[i].head = TRUE]
         ELSE [SendResult(r, s, "head", FALSE, "Reset")
                 EXCEPT !.obj[i].head = TRUE]

\* Mutant: autoplay on a stable map skips without missing.
PostHitLazer(map, ps, r, s, i) ==
    IF r.lazer
    THEN FoldLeft(LAMBDA play, g : MissForcefully(map, r, play, g),
                  s, Earlier(map, ps, i))
    ELSE s

\* Lazer and autoplay miss what was skipped when a later object is clicked.
PostHit(map, ps, r, s, i) ==
    IF r.driver = "generated" \/ r.lazer
    THEN FoldLeft(LAMBDA play, g : MissForcefully(map, r, play, g),
                  s, Earlier(map, ps, i))
    ELSE s

-----------------------------------------------------------------------------
(* Circles.  in is the participant's input in this call: presses is the     *)
(* number of buttons that went down, over the heads under the cursor, ball  *)
(* where the cursor is on the active slider, past whether all the points    *)
(* that a late head leaves behind are inside the follow circle, turn the    *)
(* rotation and cleared the stable spinner's verdict.  A click is a play    *)
(* and the presses that are left for the objects that follow.               *)

CircleClick(map, ps, r, in, t, i, click) ==
    LET s == click.play
        good == ResultForDelta(r, Distance(t, map[i].end))
        combo == IF good THEN "Increase" ELSE "Reset"
    IN  IF s.obj[i].hit \/ click.presses = 0 \/ i \notin in.over THEN click
        ELSE IF ~CanBeHit(map, ps, r, s, t, i)
             THEN [click EXCEPT !.presses = 0]
             ELSE [presses |-> click.presses - 1,
                   play |-> [SendResult(r, PostHit(map, ps, r, s, i),
                                        "object", good, combo)
                               EXCEPT !.obj[i].hit = TRUE,
                                      !.obj[i].head = TRUE,
                                      !.obj[i].good = good]]

CirclePost(map, r, s, t, i) ==
    IF t > map[i].end + W50 THEN MissForcefully(map, r, s, i) ELSE s

-----------------------------------------------------------------------------
(* Sliders. *)

\* The stable tail is judged before the end; the lazer one at the end.
StablePoint(o, k) ==
    IF k < Len(o.points) THEN o.points[k]
    ELSE LET half == o.start + ((o.end - o.start) \div 2)
         IN  IF half > o.end - Leniency THEN half ELSE o.end - Leniency

JudgePoint(r, s, i, part, isHit, combo) ==
    [SendResult(r, s, part, isHit, combo)
       EXCEPT !.obj[i].judged = @ + 1,
              !.obj[i].scored = IF isHit THEN @ + 1 ELSE @]

\* processTicksStable: at most one point a call.
TicksStable(map, r, s, t, i, allowable) ==
    LET o == map[i]
        k == s.obj[i].judged + 1
        isHit == allowable /\ s.obj[i].since <= StablePoint(o, k)
        isTail == k = Len(o.points)
    IN  IF k > Len(o.points) THEN s
        ELSE IF t < StablePoint(o, k) THEN s
        ELSE JudgePoint(r, s, i, IF isTail THEN "tail" ELSE "tick", isHit,
                        IF isHit THEN "Increase"
                        ELSE IF isTail THEN "Hold" ELSE "Reset")

\* lazerSliderEventDue, and an early tail that is not followed waits.
PointDue(o, t, k, allowable) ==
    IF k < Len(o.points) THEN t >= o.points[k]
    ELSE t >= o.end \/ (allowable /\ t >= o.end - Leniency)

\* Mutant: a dropped tail breaks the combo like a missed tick.
TailBreaks(map, r, s, t, i, allowable) ==
    LET o == map[i]
        pending == (s.obj[i].judged + 1) .. Len(o.points)
        due == {k \in pending :
                  \A j \in pending : j <= k => PointDue(o, t, j, allowable)}
        Judge(play, k) ==
            JudgePoint(r, play, i, IF k < Len(o.points) THEN "tick" ELSE "tail",
                       allowable, IF allowable THEN "Increase" ELSE "Reset")
    IN  FoldLeft(Judge, s, SetToSortSeq(due, <))

\* processTicksLazer: every point that is due, in order.
TicksLazer(map, r, s, t, i, allowable) ==
    LET o == map[i]
        pending == (s.obj[i].judged + 1) .. Len(o.points)
        due == {k \in pending :
                  \A j \in pending : j <= k => PointDue(o, t, j, allowable)}
        Judge(play, k) ==
            IF k < Len(o.points)
            THEN JudgePoint(r, play, i, "tick", allowable,
                            IF allowable THEN "Increase" ELSE "Reset")
            ELSE JudgePoint(r, play, i, "tail", allowable,
                            IF allowable /\ ~r.classic THEN "Increase"
                            ELSE "Hold")
    IN  FoldLeft(Judge, s, SetToSortSeq(due, <))

HeadMiss(map, r, s, t, i) ==
    IF t > map[i].start + W50 THEN MissForcefully(map, r, s, i) ELSE s

\* A late head is followed by the points that were waiting for it.
LazerPostHeadProcess(map, r, s, in, t, i) ==
    LET late == \E k \in (s.obj[i].judged + 1) .. Len(map[i].points) :
                   map[i].points[k] <= t
        inRange == in.past \/ ~late
        \* Before its start the ball waits under the head that was clicked.
        ball == IF t <= map[i].start THEN "on" ELSE in.ball
        judged == TicksLazer(map, r, s, t, i, inRange)
    IN  IF ball = "out" THEN s
        ELSE IF inRange \/ ball = "on"
             THEN [judged EXCEPT !.obj[i].sliding = TRUE, !.obj[i].since = t]
             ELSE judged

SliderClick(map, ps, r, in, t, i, click) ==
    LET s == click.play
        good == ResultForDelta(r, Distance(t, map[i].start))
        combo == IF good THEN "Increase" ELSE "Reset"
        started == [s EXCEPT !.obj[i].head = TRUE, !.obj[i].good = good]
        judged == SendResult(r, PostHit(map, ps, r, started, i),
                             "head", good, combo)
    IN  IF \/ click.presses = 0
           \/ i \notin in.over
           \/ s.obj[i].head
           \/ s.obj[i].hit /\ ~r.lazer
        THEN click
        ELSE IF ~CanBeHit(map, ps, r, s, t, i)
             THEN [click EXCEPT !.presses = 0]
             ELSE [presses |-> click.presses - 1,
                   play |-> IF good /\ r.lazer
                            THEN LazerPostHeadProcess(map, r, judged, in, t, i)
                            ELSE judged]

\* Slider.UpdateFor after the head: follow the ball and judge what is due.
Follow(map, r, s, in, t, i) ==
    LET sliding == s.obj[i].sliding
        allowable == in.ball = "on" \/ (in.ball = "near" /\ sliding)
        onto == IF allowable /\ ~sliding
                THEN [s EXCEPT !.obj[i].sliding = TRUE, !.obj[i].since = t]
                ELSE s
        ticked == IF r.lazer THEN TicksLazer(map, r, onto, t, i, allowable)
                  ELSE TicksStable(map, r, onto, t, i, allowable)
        unjudged == ticked.obj[i].judged < Len(map[i].points)
    IN  IF ~allowable /\ unjudged
        THEN [ticked EXCEPT !.obj[i].sliding = FALSE]
        ELSE ticked

SliderNormal(map, r, s, in, t, i) ==
    LET head == IF r.lazer THEN HeadMiss(map, r, s, t, i) ELSE s
    IN  IF /\ t >= map[i].start
           /\ IF r.lazer THEN head.obj[i].head ELSE ~head.obj[i].hit
        THEN Follow(map, r, head, in, t, i)
        ELSE head

\* Mutant: every slider sends a summary.
SummaryAlways(map, r, s, t, i) ==
    LET late == IF r.lazer THEN s ELSE HeadMiss(map, r, s, t, i)
        isHit == late.obj[i].scored > 0 \/ late.obj[i].good
    IN  IF t < map[i].end \/ late.obj[i].hit THEN late
        ELSE [SendResult(r, late, "summary", isHit,
                         IF isHit THEN "Increase" ELSE "Reset")
                EXCEPT !.obj[i].hit = TRUE]

SliderPost(map, r, s, t, i) ==
    LET late == IF r.lazer THEN s ELSE HeadMiss(map, r, s, t, i)
        done == late.obj[i]
        isHit == done.scored > 0 \/ done.good
        combo == CASE ~isHit            -> "Reset"
                   [] isHit /\ ~r.lazer -> "Hold"
                   [] isHit /\ r.lazer  -> "Increase"
    IN  IF t < map[i].end \/ done.hit THEN late
        ELSE [(IF r.lazer /\ ~r.classic THEN late
               ELSE SendResult(r, late, "summary", isHit, combo))
                EXCEPT !.obj[i].hit = TRUE]

-----------------------------------------------------------------------------
(* Spinners. *)

Abs(n) == IF n < 0 THEN -n ELSE n

\* reportLazerRotationDelta: a reversal gives up the spin that is under way,
\* never one that is complete.  A spin is four quarters; the loop takes away
\* one complete spin at a time, in the direction of the rotation.
ReportRotation(o, delta) ==
    LET rotation == o.rotation + delta
        most == IF Abs(rotation) > o.most THEN Abs(rotation) ELSE o.most
        rest == IF rotation < 0 THEN -(Abs(rotation) % 4) ELSE rotation % 4
    IN  IF most < 4
        THEN [o EXCEPT !.rotation = rotation, !.most = most]
        ELSE [o EXCEPT !.rotation = rest, !.most = Abs(rest),
                       !.spins = @ + Abs(rotation) \div 4]

\* processLazer: the first active frame only remembers the angle (sliding is
\* updatedBefore here).  Completed spins score until the bonus is used up.
SpinnerNormal(map, r, s, in, t, i) ==
    LET o == map[i]
        delta == IF s.obj[i].sliding THEN in.turn ELSE 0
        spun == [s EXCEPT !.obj[i] = [ReportRotation(@, delta)
                                        EXCEPT !.sliding = TRUE]]
        total == o.bonus + o.required + SpinBonusGap
        Complete(play, n) == SendResult(r, play, "bonus", TRUE, "Hold")
        scoring == {n \in s.obj[i].spins .. (spun.obj[i].spins - 1) : n < total}
    IN  IF ~r.lazer \/ s.obj[i].hit \/ t < o.start \/ t >= o.end THEN s
        ELSE FoldLeft(Complete, spun, SetToSortSeq(scoring, <))

\* Lazer: three quarters of the required spins are a hit.  Stable integrates a
\* velocity, of which only the verdict is kept.
SpinnerCleared(o, r, state, in) ==
    IF r.lazer THEN 4 * state.spins + state.most >= 3 * o.required
    ELSE in.cleared

SpinnerPost(map, r, s, in, t, i) ==
    LET isHit == SpinnerCleared(map[i], r, s.obj[i], in)
    IN  IF t < map[i].end \/ s.obj[i].hit THEN s
        ELSE [SendResult(r, s, "object", isHit,
                         IF isHit THEN "Increase" ELSE "Reset")
                EXCEPT !.obj[i].hit = TRUE, !.obj[i].head = TRUE,
                       !.obj[i].good = isHit]
=============================================================================
