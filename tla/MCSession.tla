------------------------------ MODULE MCSession ------------------------------
(* Small instances of RecordingSession for TLC.                             *)
EXTENDS RecordingSession, TLC

MCSymmetry == Permutations(Recorders)
=============================================================================
