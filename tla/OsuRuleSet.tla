----------------------------- MODULE OsuRuleSet -----------------------------
(***************************************************************************)
(* app/rulesets/osu/ruleset.go under the controllers that drive it         *)
(* (app/dance/rcontroller.go, controller.go, pcontroller.go): the queue    *)
(* and the active objects that all participants share, and what one        *)
(* millisecond does to them.  In a millisecond every participant has its   *)
(* turn and then the ruleset has its own; who gets which calls depends on  *)
(* where the participant's input comes from:                               *)
(*                                                                         *)
(*   a stable replay    click, normal and post, on its replay frames only; *)
(*                      replays before 2019-05-06 run post for every       *)
(*                      millisecond up to the next frame;                  *)
(*   a lazer replay     click on replay frames, the rest every millisecond;*)
(*   a generated cursor all three, every millisecond;                      *)
(*   a live player      all three, whenever the update loop comes round.   *)
(*                                                                         *)
(* The program runs the game of all Players.  Next to it every participant *)
(* plays the same map with the same input alone, on a ruleset of its own,  *)
(* so that a property can compare the two.                                 *)
(***************************************************************************)
EXTENDS HitObjects, FiniteSetsExt

CONSTANTS
    Scenarios,    \* [map, rules]: objects by start time, rules by participant
    Preempt,      \* how long before its start an object becomes active
    Gaps,         \* milliseconds between replay frames or live updates
    SeekTimes,    \* where playback may start in the middle of the map
    Horizon       \* bound: the model's clock stops here

ASSUME ScenariosAssumption ==
    \A sc \in Scenarios : \A i, j \in DOMAIN sc.map :
        i < j => sc.map[i].start <= sc.map[j].start

VARIABLES
    map,     \* the beatmap
    rules,   \* per participant: how it is judged and what drives it, a
             \* sequence in the order of the controllers
    now,     \* the millisecond being played
    turn,    \* the participant whose turn it is, or one more for the ruleset
    game,    \* per game: queue, processed, ended and the plays
    due,     \* stable replays: the time of the next frame, Never after the last
    failed   \* players whose clicks are no longer looked at

vars == <<map, rules, now, turn, game, due, failed>>

Never == -1
Players == DOMAIN rules
Games == {Players} \cup {{p} : p \in Players}
First == 1
Ruleset == Len(rules) + 1

-----------------------------------------------------------------------------
(* The three calls, over the active objects ps of one game. *)

UpdateClickFor(ps, p, s, in, t) ==
    LET r == rules[p]
        Click(click, i) ==
            CASE map[i].kind = "circle"  -> CircleClick(map, ps, r, in, t, i, click)
              [] map[i].kind = "slider"  -> SliderClick(map, ps, r, in, t, i, click)
              [] map[i].kind = "spinner" -> click
    IN  IF p \in failed THEN s
        ELSE FoldLeft(Click, [play |-> s, presses |-> in.presses], ps).play

\* A stable replay moves one slider at a time: the first that is not over.
UpdateNormalFor(ps, p, s, in, t) ==
    LET r == rules[p]
        Waits(play, i) == /\ r.driver = "replay" /\ ~r.lazer
                          /\ \E j \in Range(ps) : /\ j < i
                                                  /\ map[j].kind = "slider"
                                                  /\ ~play.obj[j].hit
        Normal(play, i) ==
            CASE map[i].kind = "circle"  -> play
              [] map[i].kind = "spinner" -> SpinnerNormal(map, r, play, in, t, i)
              [] map[i].kind = "slider"  ->
                    IF Waits(play, i) THEN play
                    ELSE SliderNormal(map, r, play, in, t, i)
    IN  FoldLeft(Normal, s, ps)

UpdatePostFor(ps, p, s, in, t) ==
    LET r == rules[p]
        Post(play, i) ==
            CASE map[i].kind = "circle"  -> CirclePost(map, r, play, t, i)
              [] map[i].kind = "slider"  -> SliderPost(map, r, play, t, i)
              [] map[i].kind = "spinner" -> SpinnerPost(map, r, play, in, t, i)
    IN  FoldLeft(Post, s, ps)

UpdateAll(ps, p, s, in, t) ==
    UpdatePostFor(ps, p,
        UpdateNormalFor(ps, p, UpdateClickFor(ps, p, s, in, t), in, t), in, t)

-----------------------------------------------------------------------------
(* OsuRuleSet.Update: what every participant is done with leaves, what has  *)
(* begun to fade in becomes active.                                         *)

Finished(plays, i) ==
    \A p \in DOMAIN plays : plays[p].obj[i].hit /\ plays[p].obj[i].head

Refresh(g, t) ==
    LET left == SelectSeq(g.processed, LAMBDA i : ~Finished(g.play, i))
        begun == SelectSeq(g.queue, LAMBDA i : map[i].start - Preempt <= t)
        rest == SubSeq(g.queue, Len(begun) + 1, Len(g.queue))
    IN  [g EXCEPT !.processed = left \o begun,
                  !.queue = rest,
                  !.ended = @ \/ (rest = <<>> /\ left \o begun = <<>>)]

NewGame(g) ==
    [queue |-> [i \in DOMAIN map |-> i], processed |-> <<>>, ended |-> FALSE,
     play |-> [p \in g |-> FreshPlay(map)]]

Init ==
    /\ \E sc \in Scenarios : map = sc.map /\ rules = sc.rules
    /\ now = 0
    /\ turn = First
    /\ game = [g \in Games |-> NewGame(g)]
    /\ due = [p \in Players |-> 0]
    /\ failed = {}

-----------------------------------------------------------------------------
(* Inputs.  Only what can matter is told apart: presses when there is a     *)
(* head under the cursor, and no more than heads; the ball of an active     *)
(* slider; the points a late head leaves behind; the turn of a spinner.     *)

Open(p, kind) ==
    {i \in Range(game[Players].processed) :
        map[i].kind = kind /\ ~(game[Players].play[p].obj[i].hit
                                /\ game[Players].play[p].obj[i].head)}

Inputs(p) ==
    LET sliders == Open(p, "slider")
        heads == {i \in Open(p, "circle") \cup sliders :
                     ~game[Players].play[p].obj[i].head}
        spins == Open(p, "spinner") # {}
        all == [presses : 0 .. Cardinality(heads),
                over    : SUBSET heads,
                ball    : IF sliders = {} THEN {"out"} ELSE {"out", "near", "on"},
                past    : IF sliders = {} THEN {FALSE} ELSE BOOLEAN,
                turn    : IF spins /\ rules[p].lazer THEN -2 .. 2 ELSE {0},
                cleared : IF spins /\ ~rules[p].lazer THEN BOOLEAN ELSE {FALSE}]
    IN  {in \in all :
            /\ in.presses <= Cardinality(in.over)
            /\ in.over # {} => in.presses > 0
            /\ in.past => rules[p].lazer /\ in.over \cap sliders # {}}

\* No buttons are held once the frames have run out.
NoInput == [presses |-> 0, over |-> {}, ball |-> "out", past |-> FALSE,
            turn |-> 0, cleared |-> FALSE]

\* Participant p's turn, in every game it plays: played[g] is its play of
\* game g after the calls.
GamesOf(p) == {g \in Games : p \in g}
Own(g, p) == game[g].play[p]
Active(g) == game[g].processed

Turn(p, played) ==
    /\ turn = p
    /\ turn' = turn + 1
    /\ game' = [g \in Games |->
                  IF p \in g THEN [game[g] EXCEPT !.play[p] = played[g]]
                  ELSE game[g]]
    /\ UNCHANGED <<map, rules, now, failed>>

\* All three calls, with the same input in every game.
PlayAll(p, in) ==
    [g \in GamesOf(p) |-> UpdateAll(Active(g), p, Own(g, p), in, now)]

-----------------------------------------------------------------------------
(* processStable *)

\* The calls of one stable frame at now; next is the time of the one after.
StableCalls(ps, p, s, in, next) ==
    LET Post(play, t) == UpdatePostFor(ps, p, play, in, t)
        until == IF rules[p].old /\ next # Never THEN next - 1 ELSE now
        normal == UpdateNormalFor(ps, p, UpdateClickFor(ps, p, s, in, now),
                                  in, now)
    IN  FoldLeft(Post, normal, [k \in 1 .. (until - now + 1) |-> now + k - 1])

StableFrame(p, in, next) ==
    /\ rules[p].driver = "replay" /\ ~rules[p].lazer
    /\ due[p] = now
    /\ Turn(p, [g \in GamesOf(p) |->
                  StableCalls(Active(g), p, Own(g, p), in, next)])
    /\ due' = [due EXCEPT ![p] = next]

\* Between frames only the cursor moves.
StableBetween(p) ==
    /\ rules[p].driver = "replay" /\ ~rules[p].lazer
    /\ due[p] > now
    /\ Turn(p, [g \in GamesOf(p) |-> Own(g, p)])
    /\ UNCHANGED due

\* Mutant: a replay that has run out is not looked at any more.
StableGone(p) ==
    /\ rules[p].driver = "replay" /\ ~rules[p].lazer
    /\ due[p] = Never
    /\ Turn(p, [g \in GamesOf(p) |-> Own(g, p)])
    /\ UNCHANGED due

StableOver(p) ==
    /\ rules[p].driver = "replay" /\ ~rules[p].lazer
    /\ due[p] = Never
    /\ Turn(p, PlayAll(p, NoInput))
    /\ UNCHANGED due

(* processLazer *)

LazerFrame(p, in) ==
    /\ rules[p].driver = "replay" /\ rules[p].lazer
    /\ Turn(p, PlayAll(p, in))
    /\ UNCHANGED due

LazerBetween(p, in) ==
    /\ rules[p].driver = "replay" /\ rules[p].lazer
    /\ Turn(p, [g \in GamesOf(p) |->
                  LET s == UpdateNormalFor(Active(g), p, Own(g, p), in, now)
                  IN  UpdatePostFor(Active(g), p, s, in, now)])
    /\ UNCHANGED due

\* GenericController.updateAt, the dance part of ReplayController.updateMain
\* and PlayerController.Update.
Played(p, in) ==
    /\ rules[p].driver \in {"generated", "live"}
    /\ Turn(p, PlayAll(p, in))
    /\ UNCHANGED due

-----------------------------------------------------------------------------
(* The ruleset's turn.  Skipped milliseconds are made up for one by one,    *)
(* except by a live player's loop, which takes the time as it comes.        *)

Update(step) ==
    /\ turn = Ruleset
    /\ \E g \in Games : ~game[g].ended
    /\ now + step <= Horizon
    /\ step = 1 \/ \A p \in Players : rules[p].driver = "live"
    /\ game' = [g \in Games |-> Refresh(game[g], now)]
    /\ turn' = First
    /\ now' = now + step
    /\ UNCHANGED <<map, rules, due, failed>>

\* Seek, before playback starts: the overdue part of the queue is activated
\* and the millisecond of the target is then played like any other.
Seek(time) ==
    /\ now = 0 /\ turn = First
    /\ \A p \in Players : rules[p].driver = "generated"
    /\ game' = [g \in Games |-> Refresh(game[g], time)]
    /\ now' = time
    /\ UNCHANGED <<map, rules, turn, due, failed>>

\* The health of a live player runs out; replays and generated cursors play
\* on whatever their health (FailurePolicySuppress, FailurePolicyContinue).
Fail(p) ==
    /\ p \notin failed
    /\ rules[p].driver = "live"
    /\ failed' = failed \cup {p}
    /\ UNCHANGED <<map, rules, now, turn, game, due>>

Rest ==
    /\ turn = Ruleset
    /\ (\A g \in Games : game[g].ended) \/ now = Horizon
    /\ UNCHANGED vars

NextFrames == {now + g : g \in Gaps} \cup {Never}

Cursor(p) ==
    \/ \E in \in Inputs(p), next \in NextFrames : StableFrame(p, in, next)
    \/ StableBetween(p)
    \/ StableOver(p)
    \/ \E in \in Inputs(p) :
          LazerFrame(p, in) \/ LazerBetween(p, in) \/ Played(p, in)

Next ==
    \/ \E p \in Players : Cursor(p)
    \/ \E step \in Gaps \cup {1} : Update(step)
    \/ \E time \in SeekTimes : Seek(time)
    \/ \E p \in Players : Fail(p)
    \/ Rest

Spec == Init /\ [][Next]_vars

-----------------------------------------------------------------------------
(* Properties. *)

\* Types; and every object is in the queue, active or done with, in order.
TypeOK ==
    /\ now \in 0 .. Horizon
    /\ turn \in First .. Ruleset
    /\ failed \subseteq Players
    /\ due \in [Players -> {Never} \cup 0 .. Horizon + Max(Gaps)]
    /\ \A g \in Games :
          LET coming == game[g].processed \o game[g].queue
          IN  /\ game[g].ended = (coming = <<>>)
              /\ DOMAIN game[g].play = g
              /\ coming = SelectSeq([i \in DOMAIN map |-> i],
                                   LAMBDA i : i \in Range(coming))
              /\ \A i \in DOMAIN map : i \in Range(coming)
                                       \/ Finished(game[g].play, i)

Score(p) == game[Players].play[p].score
Object(p, i) == game[Players].play[p].obj[i]

\* Types; and every object is judged as a parent exactly once, whatever the input and
\* however late: the count that indexes the difficulty attributes in
\* GetCurrentDiffAttribs never runs past the map, and at the end neither it
\* nor ScoreV3's hits are short of what scoreV3Processor.Init counted.
JudgedOnce ==
    /\ TypeOK
    /\ \A p \in Players :
          /\ Score(p).base <= Len(map)
          /\ Score(p).hits <= Perfect(map, rules[p]).hits
          /\ game[Players].ended =>
                /\ Score(p).base = Len(map)
                /\ Score(p).hits = Perfect(map, rules[p]).hits

\* The combo that GetFCPP gives to a play without its mistakes is one the map
\* has, and it is all of it in lazer but for the tails that were dropped.
PotentialCombo ==
    \A p \in Players :
        LET full == Perfect(map, rules[p]).best
            score == Score(p)
        IN  /\ score.combo <= score.best
            /\ score.best <= score.potential
            /\ score.potential <= full
            /\ game[Players].ended /\ rules[p].lazer =>
                  score.potential = full - (IF rules[p].classic THEN 0
                                            ELSE score.maxEnds - score.ends)

\* The two accounts GetFCPP reads agree with the map: what has been judged, and
\* the combo that was made or could have been.
Accounted == JudgedOnce /\ PotentialCombo

\* Notes are hit in order.  Lazer and autoplay: when a head was hit, every
\* head that starts earlier has been judged.  Stable: when one was hit, every
\* object that ended before it started was over.
NoteOrder ==
    \A p \in Players : \A i, j \in DOMAIN map :
        LET skipping == rules[p].lazer \/ rules[p].driver = "generated"
        IN  Object(p, j).good =>
              /\ skipping /\ HasHead(map[i]) /\ map[i].start < map[j].start
                    => Object(p, i).head
              /\ ~skipping /\ map[i].end + Tolerance2B < map[j].start
                    => Object(p, i).hit

Judgement(play) ==
    [score |-> play.score,
     objects |-> [i \in DOMAIN map |->
        LET o == play.obj[i] IN <<o.hit, o.head, o.good, o.judged, o.scored>>]]

\* A participant is judged as it would be alone: who else is in the game,
\* under which rules and with which input, makes no difference to it.  (Where
\* objects start together it does: the lock looks at what everyone left active.)
Isolation ==
    \A g \in Games : \A p \in g :
        Judgement(game[g].play[p]) = Judgement(game[Players].play[p])

\* A play that hits everything has the whole combo of the map, however early
\* or late, and in whichever frame, each part of it was hit.
Hit(p, i) == Object(p, i).good /\ Object(p, i).scored = Len(map[i].points)

FullComboOf(p) ==
    game[Players].ended /\ (\A i \in DOMAIN map : Hit(p, i)) =>
        Score(p).best = Perfect(map, rules[p]).best

FullCombo == \A p \in Players : ~rules[p].classic => FullComboOf(p)

\* The game ends: whatever was or was not pressed, nobody is waited for longer
\* than the window of the last head, or the last end, and one frame more.
EndsInTime ==
    LET Over(i) == IF HasHead(map[i]) /\ map[i].end < map[i].start + W50
                   THEN map[i].start + W50 ELSE map[i].end
        last == Max({Over(i) : i \in DOMAIN map})
    IN  now > last + Max(Gaps) => game[Players].ended
=============================================================================
