----------------------- MODULE RecordingSessionProofs -----------------------
(***************************************************************************)
(* What holds of a recording for every number of recorders and on every    *)
(* platform: what is reported as good is at the final path and whole,      *)
(* nothing is replaced where the publication links, and nothing that was   *)
(* once whole is lost.                                                     *)
(*                                                                         *)
(* The proofs follow one recorder: its own steps, and the one step of      *)
(* another recorder it can notice, a publication at the same final path.   *)
(***************************************************************************)
EXTENDS RecordingSession, TLAPS

-----------------------------------------------------------------------------
(* The inductive invariant.                                                *)

(* What an encoder leaves when it ends well, if it leaves anything to use. *)
Stream(r) == IF loop[r] = "ended" THEN "whole" ELSE "cut"

BothGood == [video |-> "ok", audio |-> "ok"]
Encoders == {"lstat", "mkdir", "video", "audio", "loop", "stopvideo", "stopaudio"}
Combined == {"publish", "rename", "unlink", "cleanup"}

(* What r has on disk at each step, and how its encoders ended. *)
OnDisk(r) ==
    /\ at[r] \notin Encoders \cup {"returned", "killed"} => verdict[r] = BothGood
    /\ at[r] \in {"stopvideo", "stopaudio", "verify", "mux"} \cup Combined => loop[r] # "running"
    /\ at[r] \in Encoders => files[r].audio = "absent"
    /\ at[r] \in Encoders \cup {"verify", "mux", "cleanup"} => files[r].staged = "absent"
    /\ at[r] = "stopaudio" /\ verdict[r].video = "ok" => files[r].video \in {"absent", "empty", Stream(r)}
    /\ at[r] = "verify" => {files[r].video, files[r].audio} \subseteq {"absent", "empty", Stream(r)}
    /\ at[r] \in {"mux"} \cup Combined => files[r].video = Stream(r) /\ files[r].audio = Stream(r)
    /\ at[r] \in {"publish", "rename", "unlink"} => files[r].staged = Stream(r)

(* What r has published. *)
AtFinalPath(r) ==
    /\ at[r] = "rename" => platform = "windows"
    /\ at[r] = "unlink" => platform = "other" /\ final.by = r
    /\ at[r] = "cleanup" => final.by = r \/ Superseded(r)
    /\ final.by = r => /\ at[r] \in {"unlink", "cleanup", "returned", "killed"}
                       /\ verdict[r] = BothGood /\ final.holds = Stream(r)
    /\ report[r] = "ok" => /\ at[r] = "returned" /\ loop[r] = "ended"
                           /\ final.by = r \/ Superseded(r)

Inv == TypeOK /\ \A r \in Recorders : OnDisk(r) /\ AtFinalPath(r)

-----------------------------------------------------------------------------
LEMMA InitInv == Init => Inv
<1> SUFFICES ASSUME Init PROVE Inv
  OBVIOUS
<1>1. TypeOK
  BY DEF Init, TypeOK, NoFiles, Content, Session, Verdicts, Steps
<1>2. ASSUME NEW r \in Recorders PROVE OnDisk(r)
  BY DEF Init, OnDisk, NoFiles, Encoders, Combined
<1>3. ASSUME NEW r \in Recorders PROVE AtFinalPath(r)
  BY SessionAssumption DEF Init, AtFinalPath
<1> QED
  BY <1>1, <1>2, <1>3 DEF Inv

(* What r does to its own entry in the session directories, by stream.      *)
LEMMA FileWritten ==
  ASSUME TypeOK, NEW r \in Recorders, NEW c \in Content
  PROVE  /\ [files EXCEPT ![r].video = c] \in [Recorders -> Session]
         /\ [files EXCEPT ![r].audio = c] \in [Recorders -> Session]
         /\ [files EXCEPT ![r].staged = c] \in [Recorders -> Session]
<1> DEFINE f == files[r]
<1>1. files \in [Recorders -> Session] /\ f \in Session
  BY DEF TypeOK
<1>2. /\ [f EXCEPT !.video = c] \in Session /\ [f EXCEPT !.audio = c] \in Session
      /\ [f EXCEPT !.staged = c] \in Session
  BY <1>1 DEF Session
<1> QED
  BY <1>1, <1>2

LEMMA BothWritten ==
  ASSUME TypeOK, NEW r \in Recorders, NEW c \in Content, NEW d \in Content
  PROVE  [files EXCEPT ![r].video = c, ![r].audio = d] \in [Recorders -> Session]
<1> DEFINE f == files[r]
<1>1. files \in [Recorders -> Session] /\ f \in Session
  BY DEF TypeOK
<1>2. [f EXCEPT !.video = c, !.audio = d] \in Session
  BY <1>1 DEF Session
<1> QED
  BY <1>1, <1>2

LEMMA VerdictGiven ==
  ASSUME TypeOK, NEW r \in Recorders, NEW v \in {"ok", "error"}
  PROVE  /\ [verdict EXCEPT ![r].video = v] \in [Recorders -> Verdicts]
         /\ [verdict EXCEPT ![r].audio = v] \in [Recorders -> Verdicts]
<1> DEFINE w == verdict[r]
<1>1. verdict \in [Recorders -> Verdicts] /\ w \in Verdicts
  BY DEF TypeOK
<1>2. [w EXCEPT !.video = v] \in Verdicts /\ [w EXCEPT !.audio = v] \in Verdicts
  BY <1>1 DEF Verdicts
<1> QED
  BY <1>1, <1>2

(* What a step of r leaves alone, and what it may do to the final path.     *)
Untouched(r) ==
    \A u \in Recorders \ {r} :
       /\ at'[u] = at[u] /\ loop'[u] = loop[u] /\ verdict'[u] = verdict[u]
       /\ files'[u] = files[u] /\ dir'[u] = dir[u] /\ report'[u] = report[u]

Publishes(r) ==
    \/ final' = final
    \/ final.by = Nobody /\ final'.by = r
    \/ at[r] = "rename" /\ final'.by = r

LEMMA OwnStep ==
  ASSUME TypeOK, NEW r \in Recorders, Record(r) \/ Kill(r)
  PROVE  Untouched(r) /\ Publishes(r)
<1> USE DEF TypeOK, Untouched, Publishes, GoTo
<1>1. CASE CheckFinalPath(r)
  BY <1>1 DEF CheckFinalPath, Fail, Return, DirAfterError
<1>2. CASE MakeSession(r)
  BY <1>2 DEF MakeSession, Fail, Return, DirAfterError
<1>3. CASE StartVideo(r)
  BY <1>3 DEF StartVideo, Fail, Return, DirAfterError
<1>4. CASE StartAudio(r)
  BY <1>4 DEF StartAudio, Return
<1>5. CASE RunLoop(r)
  BY <1>5 DEF RunLoop
<1>6. CASE StopVideo(r)
  BY <1>6 DEF StopVideo
<1>7. CASE StopAudio(r)
  BY <1>7 DEF StopAudio, Return
<1>8. CASE VerifyIntermediates(r)
  BY <1>8 DEF VerifyIntermediates, Fail, Return, DirAfterError
<1>9. CASE Combine(r)
  BY <1>9 DEF Combine, Return
<1>10. CASE PublishLink(r)
  BY <1>10 DEF PublishLink, Fail, Return, DirAfterError, LinkAllowed
<1>11. CASE RemoveStaged(r)
  BY <1>11 DEF RemoveStaged, Fail, Return, DirAfterError
<1>12. CASE PublishLook(r)
  BY <1>12 DEF PublishLook, Fail, Return, DirAfterError
<1>13. CASE PublishRename(r)
  BY <1>13 DEF PublishRename, Fail, Return, DirAfterError
<1>14. CASE Cleanup(r)
  BY <1>14 DEF Cleanup, Return
<1>15. CASE Kill(r)
  BY <1>15 DEF Kill
<1> QED
  BY <1>1, <1>2, <1>3, <1>4, <1>5, <1>6, <1>7, <1>8, <1>9, <1>10, <1>11, <1>12, <1>13, <1>14,
     <1>15
  DEF Record

LEMMA TypeKept ==
  ASSUME TypeOK, NEW r \in Recorders, Record(r) \/ Kill(r), UNCHANGED platform
  PROVE  TypeOK'
<1> USE DEF GoTo
<1>1. CASE CheckFinalPath(r)
  BY <1>1 DEF TypeOK, CheckFinalPath, Fail, Return, DirAfterError, Steps
<1>2. CASE MakeSession(r)
  BY <1>2 DEF TypeOK, MakeSession, Fail, Return, DirAfterError, Steps
<1>3. CASE StartVideo(r)
  BY <1>3 DEF TypeOK, StartVideo, Fail, Return, DirAfterError, Steps
<1>4. CASE StartAudio(r)
  <2>1. files' = files \/ \E c \in Content : files' = [files EXCEPT ![r].video = c]
    BY <1>4 DEF StartAudio, Fail
  <2>2. files' \in [Recorders -> Session]
    <3>1. files \in [Recorders -> Session]
      BY DEF TypeOK
    <3>2. ASSUME NEW c \in Content, files' = [files EXCEPT ![r].video = c]
          PROVE  files' \in [Recorders -> Session]
      BY <3>2, FileWritten, Zenon
    <3> QED
      BY <2>1, <3>1, <3>2
  <2> QED
    BY <1>4, <2>2 DEF TypeOK, StartAudio, Return, Steps
<1>5. CASE RunLoop(r)
  BY <1>5 DEF TypeOK, RunLoop, Steps
<1>6. CASE StopVideo(r)
  <2>1. PICK v \in {"ok", "error"} :
               /\ verdict' = [verdict EXCEPT ![r].video = v]
               /\ \E c \in Encoded(r, v) : files' = [files EXCEPT ![r].video = c]
    BY <1>6 DEF StopVideo
  <2>2. PICK c \in Encoded(r, v) : files' = [files EXCEPT ![r].video = c]
    BY <2>1
  <2>3. c \in Content
    BY DEF Encoded, Content
  <2>4. files' \in [Recorders -> Session]
    BY <2>2, <2>3, FileWritten, Zenon
  <2>5. verdict' \in [Recorders -> Verdicts]
    BY <2>1, VerdictGiven, Zenon
  <2> QED
    BY <1>6, <2>4, <2>5 DEF TypeOK, StopVideo, Steps
<1>7. CASE StopAudio(r)
  <2>1. PICK v \in {"ok", "error"} :
               /\ verdict' = [verdict EXCEPT ![r].audio = v]
               /\ \E c \in Encoded(r, v) : files' = [files EXCEPT ![r].audio = c]
    BY <1>7 DEF StopAudio
  <2>2. PICK c \in Encoded(r, v) : files' = [files EXCEPT ![r].audio = c]
    BY <2>1
  <2>3. c \in Content
    BY DEF Encoded, Content
  <2>4. files' \in [Recorders -> Session]
    BY <2>2, <2>3, FileWritten, Zenon
  <2>5. verdict' \in [Recorders -> Verdicts]
    BY <2>1, VerdictGiven, Zenon
  <2> QED
    BY <1>7, <2>4, <2>5 DEF TypeOK, StopAudio, Return, Steps
<1>8. CASE VerifyIntermediates(r)
  BY <1>8 DEF TypeOK, VerifyIntermediates, Fail, Return, DirAfterError, Steps
<1>9. CASE Combine(r)
  <2>1. {"absent", "empty", "cut", Muxed(r)} \subseteq Content
    BY DEF Muxed, Content
  <2>2. PICK c \in {"absent", "empty", "cut", Muxed(r)} : files' = [files EXCEPT ![r].staged = c]
    BY <1>9 DEF Combine
  <2>3. files' \in [Recorders -> Session]
    BY <2>1, <2>2, FileWritten, Zenon
  <2> QED
    BY <1>9, <2>3 DEF TypeOK, Combine, Return, Steps
<1>10. CASE PublishLink(r)
  <2>1. files[r].staged \in Content
    BY DEF TypeOK, Session
  <2> QED
    BY <1>10, <2>1 DEF TypeOK, PublishLink, Fail, Return, DirAfterError, Steps
<1>11. CASE RemoveStaged(r)
  <2>1. [files EXCEPT ![r].staged = "absent"] \in [Recorders -> Session]
    BY FileWritten DEF Content
  <2> QED
    BY <1>11, <2>1 DEF TypeOK, RemoveStaged, Fail, Return, DirAfterError, Steps
<1>12. CASE PublishLook(r)
  BY <1>12 DEF TypeOK, PublishLook, Fail, Return, DirAfterError, Steps
<1>13. CASE PublishRename(r)
  <2>1. [files EXCEPT ![r].staged = "absent"] \in [Recorders -> Session]
    BY FileWritten DEF Content
  <2>2. files[r].staged \in Content
    BY DEF TypeOK, Session
  <2> QED
    BY <1>13, <2>1, <2>2
    DEF TypeOK, PublishRename, Fail, Return, DirAfterError, Steps
<1>14. CASE Cleanup(r)
  <2>1. "absent" \in Content /\ NoFiles \in Session
    BY DEF Content, NoFiles, Session
  <2>2. files[r].video \in Content /\ files[r].audio \in Content
    BY DEF TypeOK, Session
  <2>3. CASE files' = [files EXCEPT ![r] = NoFiles]
    BY <1>14, <2>1, <2>3 DEF TypeOK, Cleanup, Return, Steps
  <2>4. ASSUME NEW v \in {files[r].video, "absent"}, NEW a \in {files[r].audio, "absent"},
               files' = [files EXCEPT ![r].video = v, ![r].audio = a]
        PROVE  TypeOK'
    <3>1. files' \in [Recorders -> Session]
      BY <2>1, <2>2, <2>4, BothWritten
    <3> QED
      BY <1>14, <3>1 DEF TypeOK, Cleanup, Return, Steps
  <2> QED
    BY <1>14, <2>3, <2>4 DEF Cleanup
<1>15. CASE Kill(r)
  <2>1. PICK v \in Content \ {"whole"}, a \in Content \ {"whole"} :
               files' = IF at[r] \in {"audio", "loop", "stopvideo"}
                        THEN [files EXCEPT ![r].video = v, ![r].audio = a]
                        ELSE IF at[r] = "stopaudio" THEN [files EXCEPT ![r].audio = a]
                        ELSE files
    BY <1>15 DEF Kill
  <2>2. files' \in [Recorders -> Session]
    BY <2>1, FileWritten, BothWritten, Zenon DEF TypeOK
  <2> QED
    BY <1>15, <2>2 DEF TypeOK, Kill, Steps
<1> QED
  BY <1>1, <1>2, <1>3, <1>4, <1>5, <1>6, <1>7, <1>8, <1>9, <1>10, <1>11, <1>12, <1>13, <1>14,
     <1>15
  DEF Record

LEMMA OthersKept ==
  ASSUME Inv, NEW r \in Recorders, Record(r) \/ Kill(r), UNCHANGED platform,
         NEW u \in Recorders, u # r
  PROVE  OnDisk(u)' /\ AtFinalPath(u)'
<1>1. Untouched(r) /\ Publishes(r)
  BY OwnStep DEF Inv
<1>2. OnDisk(u)'
  BY <1>1 DEF Inv, OnDisk, Stream, Untouched
<1>3. AtFinalPath(u)'
  BY <1>1, SessionAssumption
  DEF Inv, AtFinalPath, Superseded, Stream, Untouched, Publishes
<1> QED
  BY <1>2, <1>3

LEMMA OnDiskKept ==
  ASSUME Inv, NEW r \in Recorders, Record(r) \/ Kill(r), UNCHANGED platform
  PROVE  OnDisk(r)'
<1> USE DEF Inv, TypeOK, Session, Verdicts, OnDisk, Stream, GoTo, Encoders, Combined
<1>1. CASE CheckFinalPath(r)
  BY <1>1 DEF CheckFinalPath, Fail, Return, DirAfterError
<1>2. CASE MakeSession(r)
  BY <1>2 DEF MakeSession, Fail, Return, DirAfterError
<1>3. CASE StartVideo(r)
  BY <1>3 DEF StartVideo, Fail, Return, DirAfterError
<1>4. CASE StartAudio(r)
  BY <1>4 DEF StartAudio, Return
<1>5. CASE RunLoop(r)
  BY <1>5 DEF RunLoop
<1>6. CASE StopVideo(r)
  BY <1>6 DEF StopVideo, Encoded
<1>7. CASE StopAudio(r)
  BY <1>7 DEF StopAudio, Encoded, Return, EncodersGood, BothGood
<1>8. CASE VerifyIntermediates(r)
  BY <1>8 DEF VerifyIntermediates, Fail, Return, DirAfterError, Verified, Usable
<1>9. CASE Combine(r)
  BY <1>9 DEF Combine, Muxed, StagedGood, Usable, Return
<1>10. CASE PublishLink(r)
  BY <1>10 DEF PublishLink, Fail, Return, DirAfterError
<1>11. CASE RemoveStaged(r)
  BY <1>11 DEF RemoveStaged, Fail, Return, DirAfterError
<1>12. CASE PublishLook(r)
  BY <1>12 DEF PublishLook, Fail, Return, DirAfterError
<1>13. CASE PublishRename(r)
  BY <1>13 DEF PublishRename, Fail, Return, DirAfterError
<1>14. CASE Cleanup(r)
  BY <1>14 DEF Cleanup, Return, NoFiles
<1>15. CASE Kill(r)
  BY <1>15 DEF Kill
<1> QED
  BY <1>1, <1>2, <1>3, <1>4, <1>5, <1>6, <1>7, <1>8, <1>9, <1>10, <1>11, <1>12, <1>13, <1>14,
     <1>15
  DEF Record

LEMMA AtFinalPathKept ==
  ASSUME Inv, NEW r \in Recorders, Record(r) \/ Kill(r), UNCHANGED platform
  PROVE  AtFinalPath(r)'
<1> USE SessionAssumption
    DEF Inv, TypeOK, AtFinalPath, Superseded, Stream, GoTo
<1>1. CASE CheckFinalPath(r)
  BY <1>1 DEF CheckFinalPath, Fail, Return, DirAfterError
<1>2. CASE MakeSession(r)
  BY <1>2 DEF MakeSession, Fail, Return, DirAfterError
<1>3. CASE StartVideo(r)
  BY <1>3 DEF StartVideo, Fail, Return, DirAfterError
<1>4. CASE StartAudio(r)
  BY <1>4 DEF StartAudio, Return
<1>5. CASE RunLoop(r)
  BY <1>5 DEF RunLoop
<1>6. CASE StopVideo(r)
  BY <1>6 DEF StopVideo
<1>7. CASE StopAudio(r)
  BY <1>7 DEF StopAudio, Return
<1>8. CASE VerifyIntermediates(r)
  BY <1>8 DEF VerifyIntermediates, Fail, Return, DirAfterError
<1>9. CASE Combine(r)
  BY <1>9 DEF Combine, Return
<1>10. CASE PublishLink(r)
  BY <1>10 DEF PublishLink, Fail, Return, DirAfterError, LinkAllowed, OnDisk, Encoders, Combined
<1>11. CASE RemoveStaged(r)
  BY <1>11 DEF RemoveStaged, Fail, Return, DirAfterError
<1>12. CASE PublishLook(r)
  BY <1>12 DEF PublishLook, Fail, Return, DirAfterError
<1>13. CASE PublishRename(r)
  BY <1>13 DEF PublishRename, Fail, Return, DirAfterError, OnDisk, Encoders, Combined
<1>14. CASE Cleanup(r)
  BY <1>14 DEF Cleanup, Return, OnDisk, Combined
<1>15. CASE Kill(r)
  <2>1. /\ at[r] \in Steps /\ at'[r] = "killed"
        /\ loop'[r] = loop[r] /\ verdict' = verdict /\ final' = final /\ report' = report
    BY <1>15 DEF Kill
  <2>2. report[r] # "ok"
    BY <2>1 DEF Steps
  <2>3. final.by = r => /\ at'[r] \in {"unlink", "cleanup", "returned", "killed"}
                        /\ verdict[r] = BothGood /\ final.holds = Stream(r)
    BY <2>1
  <2> QED
    BY <2>1, <2>2, <2>3
<1> QED
  BY <1>1, <1>2, <1>3, <1>4, <1>5, <1>6, <1>7, <1>8, <1>9, <1>10, <1>11, <1>12, <1>13, <1>14,
     <1>15
  DEF Record

(* Another program's file takes the path only while nothing is there.       *)
LEMMA ForeignKept ==
  ASSUME Inv, ForeignFile, UNCHANGED platform
  PROVE  Inv'
<1>1. /\ final.by = Nobody /\ final' = [by |-> Foreign, holds |-> "whole"]
      /\ UNCHANGED <<platform, at, loop, verdict, files, dir, report>>
  BY DEF ForeignFile
<1>2. TypeOK'
  BY <1>1 DEF Inv, TypeOK, Content
<1>3. ASSUME NEW r \in Recorders PROVE OnDisk(r)'
  BY <1>1 DEF Inv, OnDisk, Stream
<1>4. ASSUME NEW r \in Recorders PROVE AtFinalPath(r)'
  BY <1>1, SessionAssumption DEF Inv, AtFinalPath, Superseded, Stream
<1> QED
  BY <1>2, <1>3, <1>4 DEF Inv

LEMMA StepKeepsInv == Inv /\ [Next]_vars => Inv'
<1> SUFFICES ASSUME Inv, [Next]_vars PROVE Inv'
  OBVIOUS
<1>1. ASSUME NEW r \in Recorders, Record(r) \/ Kill(r), UNCHANGED platform
      PROVE  Inv'
  <2>1. TypeOK'
    BY <1>1, TypeKept DEF Inv
  <2>2. ASSUME NEW u \in Recorders PROVE OnDisk(u)' /\ AtFinalPath(u)'
    <3>1. CASE u = r
      BY <1>1, <3>1, OnDiskKept, AtFinalPathKept
    <3>2. CASE u # r
      BY <1>1, <3>2, OthersKept
    <3> QED
      BY <3>1, <3>2
  <2> QED
    BY <2>1, <2>2 DEF Inv
<1>2. CASE UNCHANGED vars
  BY <1>2 DEF vars, Inv, TypeOK, OnDisk, AtFinalPath, Superseded, Stream
<1> QED
  BY <1>1, <1>2, ForeignKept DEF Next, AllOver

THEOREM Invariance == Spec => []Inv
  BY InitInv, StepKeepsInv, PTL DEF Spec

-----------------------------------------------------------------------------
(* A recording reported as good is at the final path and whole, unless      *)
(* another one replaced it on Windows; and what a recorder has there was    *)
(* published after both of its encoders ended well, with both streams       *)
(* (publishRecording, mainLoopRecord).                                      *)
THEOREM ReportedIsPublished == Spec => []SuccessIsPublished
<1>1. Inv => SuccessIsPublished
  <2> SUFFICES ASSUME Inv, NEW r \in Recorders
               PROVE  /\ report[r] = "ok" => \/ final = [by |-> r, holds |-> "whole"]
                                             \/ Superseded(r)
                      /\ final.by = r => /\ verdict[r] = [video |-> "ok", audio |-> "ok"]
                                         /\ final.holds \in Usable
    BY DEF Inv, SuccessIsPublished
  <2>1. AtFinalPath(r)
    BY DEF Inv
  <2>2. final = [by |-> final.by, holds |-> final.holds]
    BY DEF Inv, TypeOK
  <2>3. ASSUME report[r] = "ok", final.by = r PROVE final.holds = "whole"
    BY <2>1, <2>3 DEF AtFinalPath, Stream
  <2>4. final.by = r => verdict[r] = BothGood /\ final.holds \in Usable
    BY <2>1 DEF AtFinalPath, Stream, Usable
  <2> QED
    BY <2>1, <2>2, <2>3, <2>4 DEF AtFinalPath, BothGood
<1> QED
  BY <1>1, Invariance, PTL

(* Where the publication links, no recorder replaces what is at the final   *)
(* path, whoever put it there and whenever (publish_other.go).              *)
THEOREM NothingReplaced == Spec => NoReplace
<1>1. Inv /\ [Next]_vars => [Replaced => platform = "windows"]_vars
  <2> SUFFICES ASSUME Inv, Next, Replaced PROVE platform = "windows"
    BY DEF Replaced, vars
  <2>1. CASE ForeignFile \/ AllOver
    BY <2>1 DEF ForeignFile, AllOver, Replaced, vars
  <2>2. ASSUME NEW r \in Recorders, Record(r) \/ Kill(r)
        PROVE  platform = "windows"
    <3>1. Publishes(r)
      BY <2>2, OwnStep DEF Inv
    <3>2. at[r] = "rename"
      BY <3>1 DEF Publishes, Replaced
    <3> QED
      BY <3>2 DEF Inv, AtFinalPath
  <2> QED
    BY <2>1, <2>2 DEF Next
<1> QED
  BY <1>1, Invariance, PTL DEF Spec, NoReplace

-----------------------------------------------------------------------------
(* What r does itself never undoes a whole recording of its own. *)
LEMMA OwnKept ==
  ASSUME Inv, NEW r \in Recorders, Record(r) \/ Kill(r), UNCHANGED platform, InFull(r)
  PROVE  InFull(r)' \/ Superseded(r)'
<1> USE SessionAssumption DEF Inv, TypeOK, Session, InFull, OnDisk, AtFinalPath, Superseded,
        Stream, GoTo, Encoders, Combined
<1>1. CASE CheckFinalPath(r)
  BY <1>1 DEF CheckFinalPath, Fail, Return, DirAfterError
<1>2. CASE MakeSession(r)
  BY <1>2 DEF MakeSession, Fail, Return, DirAfterError
<1>3. CASE StartVideo(r)
  BY <1>3 DEF StartVideo, Fail, Return, DirAfterError
<1>4. CASE StartAudio(r)
  BY <1>4 DEF StartAudio, Return
<1>5. CASE RunLoop(r)
  BY <1>5 DEF RunLoop
<1>6. CASE StopVideo(r)
  BY <1>6 DEF StopVideo
<1>7. CASE StopAudio(r)
  BY <1>7 DEF StopAudio, Return
<1>8. CASE VerifyIntermediates(r)
  BY <1>8 DEF VerifyIntermediates, Fail, Return, DirAfterError
<1>9. CASE Combine(r)
  BY <1>9 DEF Combine, Return
<1>10. CASE PublishLink(r)
  BY <1>10 DEF PublishLink, Fail, Return, DirAfterError, LinkAllowed
<1>11. CASE RemoveStaged(r)
  BY <1>11 DEF RemoveStaged, Fail, Return, DirAfterError
<1>12. CASE PublishLook(r)
  BY <1>12 DEF PublishLook, Fail, Return, DirAfterError
<1>13. CASE PublishRename(r)
  BY <1>13 DEF PublishRename, Fail, Return, DirAfterError
<1>14. CASE Cleanup(r)
  BY <1>14 DEF Cleanup, Return, NoFiles
<1>15. CASE Kill(r)
  BY <1>15 DEF Kill
<1> QED
  BY <1>1, <1>2, <1>3, <1>4, <1>5, <1>6, <1>7, <1>8, <1>9, <1>10, <1>11, <1>12, <1>13, <1>14,
     <1>15
  DEF Record

(* Of what another recorder does only a replacing publication touches it. *)
LEMMA OthersSpare ==
  ASSUME Inv, NEW u \in Recorders, Record(u) \/ Kill(u), UNCHANGED platform,
         NEW r \in Recorders, r # u, InFull(r)
  PROVE  InFull(r)' \/ Superseded(r)'
<1>1. Untouched(u) /\ Publishes(u)
  BY OwnStep DEF Inv
<1>2. AtFinalPath(r) /\ AtFinalPath(u)
  BY DEF Inv
<1>3. CASE final' = final
  BY <1>1, <1>3 DEF InFull, Untouched
<1>4. CASE final.by = Nobody
  BY <1>1, <1>4, SessionAssumption DEF InFull, Untouched
<1>5. CASE at[u] = "rename" /\ final'.by = u
  BY <1>1, <1>2, <1>5 DEF InFull, Untouched, Superseded, AtFinalPath
<1> QED
  BY <1>1, <1>3, <1>4, <1>5 DEF Publishes

(* From the moment both of its streams are on disk whole, a recording stays *)
(* on disk in full whatever fails and whoever is killed or writes the same  *)
(* name, unless another recording replaces it on Windows (combine,          *)
(* publishRecording, cleanupSession).                                       *)
THEOREM WholeStaysWhole == Spec => NothingLost
<1>1. ASSUME Inv, [Next]_vars, NEW r \in Recorders, InFull(r)
      PROVE  InFull(r)' \/ Superseded(r)'
  <2>1. CASE ForeignFile
    BY <1>1, <2>1, SessionAssumption DEF ForeignFile, InFull
  <2>2. CASE UNCHANGED vars
    BY <1>1, <2>2 DEF vars, InFull
  <2>3. ASSUME NEW u \in Recorders, Record(u) \/ Kill(u), UNCHANGED platform
        PROVE  InFull(r)' \/ Superseded(r)'
    BY <1>1, <2>3, OwnKept, OthersSpare
  <2> QED
    BY <1>1, <2>1, <2>2, <2>3 DEF Next, AllOver
<1>2. Inv /\ [Next]_vars
      => [\A r \in Recorders : InFull(r) => (InFull(r) \/ Superseded(r))']_vars
  BY <1>1
<1> QED
  BY <1>2, Invariance, PTL DEF Spec, NothingLost
=============================================================================
