-------------------------- MODULE RecordingSession --------------------------
(***************************************************************************)
(* A recording from StartPreparedRecording to StopFFmpeg                   *)
(* (app/ffmpeg/ffmpeg.go, publish_*.go, mainLoopRecord): encode video and  *)
(* audio into a session directory, mux them into a staged file, publish    *)
(* that as the final output without replacing anything, remove the session.*)
(*                                                                         *)
(* Several danser processes may record under one output name, other        *)
(* programs write to the output directory, and a process may be killed     *)
(* between any two steps.                                                  *)
(***************************************************************************)
EXTENDS Naturals, FiniteSets

CONSTANTS
  Recorders, \* the danser processes
  Nobody, Foreign, \* the final path is absent, or not one of ours
  Platforms  \* "windows" and "other" choose which publish_*.go is built

ASSUME SessionAssumption ==
  /\ Nobody # Foreign /\ Recorders \cap {Nobody, Foreign} = {}
  /\ Platforms \subseteq {"windows", "other"}

VARIABLES
  platform, \* the platform of all the processes
  at,      \* where each process stands
  loop,    \* what became of its timeline: "running", "ended" or "aborted"
  verdict, \* what stopVideo and stopAudio returned
  files,   \* the session directory: video, audio and staged output
  dir,     \* whether that directory exists
  final,   \* who made the file at the final path, and what it holds
  report   \* what mainLoopRecord returned

vars == <<platform, at, loop, verdict, files, dir, final, report>>

(* A stream is whole, cut short, empty or not there.                        *)
Content == {"whole", "cut", "empty", "absent"}
Usable == {"whole", "cut"}
NoFiles == [video |-> "absent", audio |-> "absent", staged |-> "absent"]

Steps == {"lstat", "mkdir", "video", "audio", "loop", "stopvideo", "stopaudio",
          "verify", "mux", "publish", "rename", "unlink", "cleanup"}

Session == [video : Content, audio : Content, staged : Content]
Verdicts == [video : {"none", "ok", "error"}, audio : {"none", "ok", "error"}]

TypeOK ==
  /\ platform \in Platforms
  /\ at \in [Recorders -> Steps \cup {"returned", "killed"}]
  /\ loop \in [Recorders -> {"running", "ended", "aborted"}]
  /\ verdict \in [Recorders -> Verdicts]
  /\ files \in [Recorders -> Session]
  /\ dir \in [Recorders -> BOOLEAN]
  /\ final \in [by : Recorders \cup {Nobody, Foreign}, holds : Content]
  /\ report \in [Recorders -> {"none", "ok", "error"}]

Init ==
  /\ platform \in Platforms
  /\ at = [r \in Recorders |-> "lstat"]
  /\ loop = [r \in Recorders |-> "running"]
  /\ verdict = [r \in Recorders |-> [video |-> "none", audio |-> "none"]]
  /\ files = [r \in Recorders |-> NoFiles]
  /\ dir = [r \in Recorders |-> FALSE]
  /\ final = [by |-> Nobody, holds |-> "absent"]
  /\ report = [r \in Recorders |-> "none"]

-----------------------------------------------------------------------------
GoTo(r, step) == at' = [at EXCEPT ![r] = step]

(* mainLoopRecord returns: an aborted recording stays failed even when the  *)
(* deferred StopFFmpeg succeeds.                                            *)
Return(r, outcome) ==
  /\ GoTo(r, "returned")
  /\ report' = [report EXCEPT ![r] = IF loop[r] = "aborted" THEN "error" ELSE outcome]

(* Mutant: an error removes the session directory.                          *)
RemovedOnError(r) == [dir EXCEPT ![r] = FALSE]

DirAfterError(r) == dir

Fail(r) == /\ Return(r, "error") /\ dir' = DirAfterError(r)
           /\ UNCHANGED <<loop, verdict, files, final>>

(* StartPreparedRecording.                                                  *)
CheckFinalPath(r) ==
  /\ at[r] = "lstat"
  /\ \/ final.by = Nobody /\ GoTo(r, "mkdir")
        /\ UNCHANGED <<loop, verdict, files, dir, final, report>>
     \/ Fail(r)

MakeSession(r) ==
  /\ at[r] = "mkdir"
  /\ \/ /\ dir' = [dir EXCEPT ![r] = TRUE] /\ GoTo(r, "video")
        /\ UNCHANGED <<loop, verdict, files, final, report>>
     \/ Fail(r)

StartVideo(r) ==
  /\ at[r] = "video"
  /\ \/ GoTo(r, "audio") /\ UNCHANGED <<loop, verdict, files, dir, final, report>>
     \/ Fail(r)

(* When the audio encoder does not start, the video encoder is stopped.     *)
StartAudio(r) ==
  /\ at[r] = "audio"
  /\ \/ GoTo(r, "loop") /\ UNCHANGED <<loop, verdict, files, dir, final, report>>
     \/ /\ Return(r, "error")
        /\ \E c \in Content : files' = [files EXCEPT ![r].video = c]
        /\ UNCHANGED <<loop, verdict, dir, final>>

(* mainLoopRecord's loop ends with its timeline or on an error.             *)
RunLoop(r) ==
  /\ at[r] = "loop" /\ GoTo(r, "stopvideo")
  /\ \E end \in {"ended", "aborted"} : loop' = [loop EXCEPT ![r] = end]
  /\ UNCHANGED <<verdict, files, dir, final, report>>

(* An encoder that ends well has encoded what it was given.  Whether its    *)
(* file is there is another matter; one that failed leaves anything.        *)
Encoded(r, v) == IF v = "error" THEN Content
                 ELSE {"absent", "empty", IF loop[r] = "ended" THEN "whole" ELSE "cut"}

StopVideo(r) ==
  /\ at[r] = "stopvideo" /\ GoTo(r, "stopaudio")
  /\ \E v \in {"ok", "error"} : \E c \in Encoded(r, v) :
       /\ verdict' = [verdict EXCEPT ![r].video = v]
       /\ files' = [files EXCEPT ![r].video = c]
  /\ UNCHANGED <<loop, dir, final, report>>

(* Mutant: the intermediates are not looked at.                             *)
Unverified(r) == TRUE

EncodersGood(r, v) == verdict[r].video = "ok" /\ v = "ok"
Verified(r) == files[r].video \in Usable /\ files[r].audio \in Usable
StagedGood(c) == c \in Usable

StopAudio(r) ==
  /\ at[r] = "stopaudio"
  /\ \E v \in {"ok", "error"} : \E c \in Encoded(r, v) :
       /\ verdict' = [verdict EXCEPT ![r].audio = v]
       /\ files' = [files EXCEPT ![r].audio = c]
       /\ \/ EncodersGood(r, v) /\ GoTo(r, "verify") /\ UNCHANGED report
          \/ ~EncodersGood(r, v) /\ Return(r, "error")
  /\ UNCHANGED <<loop, dir, final>>

VerifyIntermediates(r) ==
  /\ at[r] = "verify"
  /\ \/ Verified(r) /\ GoTo(r, "mux")
        /\ UNCHANGED <<loop, verdict, files, dir, final, report>>
     \/ ~Verified(r) /\ Fail(r)

(* combine: the mux process copies both streams, or fails and leaves any    *)
(* staged file; what it leaves is looked at.                                *)
Muxed(r) == IF files[r].video = "whole" /\ files[r].audio = "whole"
            THEN "whole" ELSE "cut"

Combine(r) ==
  /\ at[r] = "mux"
  /\ \E good \in BOOLEAN, c \in {"absent", "empty", "cut", Muxed(r)} :
       /\ good => c # "cut" \/ Muxed(r) = "cut"
       /\ files' = [files EXCEPT ![r].staged = c]
       /\ \/ good /\ StagedGood(c) /\ GoTo(r, "publish") /\ UNCHANGED report
          \/ ~(good /\ StagedGood(c)) /\ Return(r, "error")
  /\ UNCHANGED <<loop, verdict, dir, final>>

(* Mutant: publish_other.go renames, which replaces the destination.        *)
LinkReplaces == TRUE

LinkAllowed == final.by = Nobody

(* publishRecording of publish_other.go: link, then remove the staged name. *)
PublishLink(r) ==
  /\ at[r] = "publish" /\ platform = "other"
  /\ \/ /\ LinkAllowed
        /\ final' = [by |-> r, holds |-> files[r].staged] /\ GoTo(r, "unlink")
        /\ UNCHANGED <<loop, verdict, files, dir, report>>
     \/ Fail(r)

RemoveStaged(r) ==
  /\ at[r] = "unlink"
  /\ \/ /\ files' = [files EXCEPT ![r].staged = "absent"] /\ GoTo(r, "cleanup")
        /\ UNCHANGED <<loop, verdict, dir, final, report>>
     \/ Fail(r)

(* publishRecording of publish_windows.go: look, then os.Rename, which Go   *)
(* implements as a replacing move.                                          *)
PublishLook(r) ==
  /\ at[r] = "publish" /\ platform = "windows"
  /\ \/ final.by = Nobody /\ GoTo(r, "rename")
        /\ UNCHANGED <<loop, verdict, files, dir, final, report>>
     \/ Fail(r)

PublishRename(r) ==
  /\ at[r] = "rename"
  /\ \/ /\ final' = [by |-> r, holds |-> files[r].staged]
        /\ files' = [files EXCEPT ![r].staged = "absent"] /\ GoTo(r, "cleanup")
        /\ UNCHANGED <<loop, verdict, dir, report>>
     \/ Fail(r)

(* cleanupSession: a failure to remove everything is only logged.           *)
Cleanup(r) ==
  /\ at[r] = "cleanup" /\ Return(r, "ok")
  /\ \/ dir' = [dir EXCEPT ![r] = FALSE] /\ files' = [files EXCEPT ![r] = NoFiles]
     \/ \E v \in {files[r].video, "absent"}, a \in {files[r].audio, "absent"} :
          /\ files' = [files EXCEPT ![r].video = v, ![r].audio = a]
          /\ UNCHANGED dir
  /\ UNCHANGED <<loop, verdict, final>>

(* Killed at any step; the files stay as they are, an encoder's own file as *)
(* far as it got.                                                           *)
Kill(r) ==
  /\ at[r] \in Steps /\ GoTo(r, "killed")
  /\ \E v, a \in Content \ {"whole"} :
       files' = IF at[r] \in {"audio", "loop", "stopvideo"}
                THEN [files EXCEPT ![r].video = v, ![r].audio = a]
                ELSE IF at[r] = "stopaudio" THEN [files EXCEPT ![r].audio = a]
                ELSE files
  /\ UNCHANGED <<loop, verdict, dir, final, report>>

(* Another program creates a file of that name.                             *)
ForeignFile ==
  /\ final.by = Nobody /\ final' = [by |-> Foreign, holds |-> "whole"]
  /\ UNCHANGED <<at, loop, verdict, files, dir, report>>

-----------------------------------------------------------------------------
Record(r) == \/ CheckFinalPath(r) \/ MakeSession(r) \/ StartVideo(r)
             \/ StartAudio(r) \/ RunLoop(r) \/ StopVideo(r) \/ StopAudio(r)
             \/ VerifyIntermediates(r) \/ Combine(r) \/ PublishLink(r)
             \/ RemoveStaged(r) \/ PublishLook(r) \/ PublishRename(r) \/ Cleanup(r)

AllOver == /\ \A r \in Recorders : at[r] \in {"returned", "killed"}
           /\ UNCHANGED vars

Next == /\ (\E r \in Recorders : Record(r) \/ Kill(r)) \/ ForeignFile \/ AllOver
        /\ UNCHANGED platform
Spec == Init /\ [][Next]_vars

-----------------------------------------------------------------------------
(* Properties                                                              *)

(* "Recording refuses to replace an existing final output"                  *)
(* (CHANGELOG.md:572): whatever is at the final path stays, also when       *)
(* another program or another recording puts it there after the check.      *)
Replaced == final.by # Nobody /\ final' # final

(* It holds where the publication links (publish_other.go).                 *)
NoReplace == [][Replaced => platform = "windows"]_vars

(* On Windows another recording may have replaced one that was published.   *)
Superseded(r) == /\ platform = "windows" /\ final.by \in Recorders \ {r}
                 /\ at[r] \in {"cleanup", "returned", "killed"}

(* Types; a recording reported as good is at the final path, whole: nothing *)
(* else took its place, no stream is missing, empty or cut short; and what  *)
(* is there was "published only after both encoders finish and muxing       *)
(* succeeds" (CHANGELOG.md:573).                                            *)
SuccessIsPublished ==
  /\ TypeOK
  /\ \A r \in Recorders :
       /\ report[r] = "ok" => \/ final = [by |-> r, holds |-> "whole"]
                              \/ Superseded(r)
       /\ final.by = r => /\ verdict[r] = [video |-> "ok", audio |-> "ok"]
                          /\ final.holds \in Usable

(* Once both streams are on disk whole, the recording stays on disk in full *)
(* at every later moment, as intermediates, staged or published: also when  *)
(* the process is killed while it muxes, publishes or cleans up, and when   *)
(* another recording runs under the same name, unless that one replaces it. *)
InFull(r) == \/ final = [by |-> r, holds |-> "whole"]
             \/ dir[r] /\ files[r].staged = "whole"
             \/ dir[r] /\ files[r].video = "whole" /\ files[r].audio = "whole"

NothingLost ==
  [][\A r \in Recorders : InFull(r) => (InFull(r) \/ Superseded(r))']_vars
=============================================================================
