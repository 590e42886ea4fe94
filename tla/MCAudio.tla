------------------------------ MODULE MCAudio ------------------------------
(* Small instances of AudioPipeline for TLC.                               *)
EXTENDS AudioPipeline

(* Intervals shorter than a block, a block long, and not a multiple of one. *)
MCIntervals == {1, 2, 3, 5}
============================================================================
