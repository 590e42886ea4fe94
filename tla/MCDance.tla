------------------------------- MODULE MCDance -------------------------------
(* Every playable map of three or four objects over a few times and two    *)
(* places, under settings that between them use every way of sharing.      *)
EXTENDS CursorDance

Object(kind, start, len, place) ==
  [id |-> 0, kind |-> kind, start |-> start, end |-> start + len, place |-> place,
   points |-> IF kind = "slider" THEN <<start + len \div 2, start + len>> ELSE <<>>,
   part |-> "note", double |-> FALSE]

MCObjects(starts) ==
  {Object("circle", s, 0, p) : s \in starts, p \in {1, 2}}
  \cup {Object("slider", s, 8, p) : s \in starts, p \in {1, 2}}
  \cup {Object("spinner", s, 16, Centre) : s \in starts}

Numbered(m) == [i \in DOMAIN m |-> [m[i] EXCEPT !.id = i]]

(* One spinner; when two notes begin together, no third object is due then *)
(* and none begins at a point of a slider among the two.                   *)
Near(t, u) == t - u \in -MergeGap .. MergeGap

Moments(o) ==
  {o.start} \cup Range(o.points) \cup (IF o.kind = "slider" THEN {o.end - TailLead} ELSE {})

Playable(m) ==
  /\ Cardinality({i \in DOMAIN m : m[i].kind = "spinner"}) <= 1
  /\ \A i, j, k \in DOMAIN m :
       (Cardinality({i, j, k}) = 3 /\ Near(m[i].start, m[j].start)) =>
         /\ \A t \in Moments(m[k]) : ~Near(t, m[i].start)
         /\ m[k].start \notin Moments(m[i])

MapsOf(n, starts) ==
  {m \in {Numbered(q) : q \in [1 .. n -> MCObjects(starts)]} :
     /\ m[1].place # 2
     /\ \A i \in 1 .. n - 1 : m[i].start <= m[i + 1].start
     /\ Playable(m)}

MCMaps == MapsOf(3, {10, 12, 16, 24, 28}) \cup MapsOf(4, {10, 14, 20})

Plain == [tag |-> 1, scored |-> FALSE, lazer |-> FALSE, spline |-> FALSE, danced |-> {},
          after |-> FALSE, tagDance |-> FALSE, comboTag |-> FALSE, battle |-> FALSE,
          together |-> FALSE, frame |-> 1]

All == 1 .. 4

MCConfigs == {
  [Plain EXCEPT !.scored = TRUE],
  [Plain EXCEPT !.scored = TRUE, !.lazer = TRUE, !.danced = {2}, !.after = TRUE],
  [Plain EXCEPT !.scored = TRUE, !.lazer = TRUE, !.danced = All, !.spline = TRUE],
  [Plain EXCEPT !.spline = TRUE, !.danced = {1}, !.frame = 3],
  [Plain EXCEPT !.frame = 3, !.lazer = TRUE],
  [Plain EXCEPT !.tag = 2],
  [Plain EXCEPT !.tag = 2, !.tagDance = TRUE, !.lazer = TRUE, !.spline = TRUE],
  [Plain EXCEPT !.tag = 2, !.comboTag = TRUE, !.together = TRUE, !.after = TRUE],
  [Plain EXCEPT !.tag = 2, !.battle = TRUE, !.danced = All] }

MCSeekTimes == {15, 21}
=============================================================================
