------------------------------ MODULE MCVideo ------------------------------
(* Small instances of VideoPipeline for TLC.                               *)
EXTENDS VideoPipeline

(* A fence wait without a GL context times out or fails.  GL leaves it      *)
(* undefined; were it ignored, checkData could not end at all.              *)
MCOffContext == {"waits", "fails"}
============================================================================
