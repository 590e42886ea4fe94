----------------------------- MODULE MCTimeline -----------------------------
(* Small instances of RecordingTimeline for TLC: rates that divide each     *)
(* other and rates that do not, shutters narrower and wider than a frame.   *)
EXTENDS RecordingTimeline

MCDurations == 0..26
MCBlurs == {<<1, 1>>, <<2, 1>>, <<2, 3>>, <<3, 2>>, <<3, 8>>, <<4, 5>>}
=============================================================================
