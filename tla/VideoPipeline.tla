--------------------------- MODULE VideoPipeline ---------------------------
(***************************************************************************)
(* The video half of the recorder (app/ffmpeg/video.go): rendered frames   *)
(* are read back into pixel buffers (PBOs), handed to the writer goroutine *)
(* once their GPU fence is signalled, and written to the encoder's input.  *)
(*                                                                         *)
(* Four parties act: the recorder (mainLoopRecord calling makeFrame and    *)
(* stopVideo), the GPU, the writer goroutine and the encoder process.  The *)
(* state starts where startVideo has succeeded.                            *)
(***************************************************************************)
EXTENDS Naturals, Sequences, FiniteSets, SequencesExt

CONSTANTS
  PBOs,         \* the recording pixel buffers (config.pboCount of them)
  None,         \* stands for "no buffer"
  MaxFrames,    \* bound: encoded frames one recording submits
  NamedPipe,    \* TRUE where the encoder reads a named pipe (not Windows)
  OffContext,   \* what a fence wait does on a thread that has no GL context
  EncoderMayDie \* FALSE restricts the runs to encoders that stay healthy

ASSUME PBOsAssumption == /\ PBOs # {} /\ IsFiniteSet(PBOs)
                         /\ None \notin PBOs
ASSUME BoundsAssumption == /\ MaxFrames \in Nat
                           /\ NamedPipe \in BOOLEAN
                           /\ EncoderMayDie \in BOOLEAN
                           /\ OffContext \subseteq {"waits", "fails", "ignored"}

VARIABLES
  rec,         \* where the recorder stands
  onMain,      \* the recorder runs on the thread that owns the GL context
  waitFirst,   \* checkData still has to wait for its first fence
  held,        \* the buffer checkData took from the read queue, or None
  route,       \* where checkData decided to send it
  readErr,     \* checkData of stopVideo failed
  aborted,     \* mainLoopRecord returned an error before its last frame
  frames,      \* frames read back so far
  free,        \* freePBOPool; which free buffer comes next is not observable
  readQ,       \* frameReadQueue
  ready,       \* how many of its leading fences the GPU has signalled
  writeQ,      \* videoWriteQueue
  queueOpen,   \* videoWriteQueue is not closed
  data,        \* the frame each buffer holds
  wr, wbuf,    \* the writer goroutine and the buffer it received
  writeFailed, \* its local flag
  failed,      \* videoFailure holds an error
  pipeOpen,    \* videoPipe is not closed
  enc,         \* the encoder process
  input,       \* the frames the encoder has read
  result       \* what stopVideo returned

recVars  == <<rec, onMain, waitFirst, held, route, readErr, aborted, frames>>
bufVars  == <<free, readQ, ready, writeQ, data>>
writVars == <<wr, wbuf, writeFailed, failed>>
encVars  == <<enc, input>>
vars == <<recVars, bufVars, queueOpen, writVars, pipeOpen, encVars, result>>

Checking == {"first", "second", "drain"}  \* the three calls of checkData


RecorderType ==
  /\ rec \in {"idle", "take", "close", "join", "wait", "stopped"} \cup Checking
  /\ held \in PBOs \cup {None} /\ route \in {"free", "write"}
  /\ frames \in 0..MaxFrames
  /\ result \in {"none", "ok", "error"}

BuffersType ==
  /\ free \subseteq PBOs
  /\ readQ \in Seq(PBOs) /\ ready \in 0..Len(readQ)
  /\ writeQ \in Seq(PBOs)
  /\ data \in [PBOs -> 0..MaxFrames]

WriterType ==
  /\ wr \in {"recv", "write", "give", "done"} /\ wbuf \in PBOs \cup {None}
  /\ enc \in {"running", "finished", "dead"}
  /\ input \in Seq(1..MaxFrames)

FlagsType ==
  /\ onMain \in BOOLEAN /\ waitFirst \in BOOLEAN /\ readErr \in BOOLEAN
  /\ aborted \in BOOLEAN /\ queueOpen \in BOOLEAN /\ writeFailed \in BOOLEAN
  /\ failed \in BOOLEAN /\ pipeOpen \in BOOLEAN

TypeOK == RecorderType /\ BuffersType /\ WriterType /\ FlagsType

Init ==
  /\ rec = "idle" /\ onMain = TRUE /\ waitFirst = FALSE
  /\ held = None /\ route = "free" /\ readErr = FALSE /\ aborted = FALSE
  /\ frames = 0
  /\ free = PBOs /\ readQ = <<>> /\ ready = 0 /\ writeQ = <<>>
  /\ queueOpen = TRUE /\ data = [p \in PBOs |-> 0]
  /\ wr = "recv" /\ wbuf = None /\ writeFailed = FALSE /\ failed = FALSE
  /\ pipeOpen = TRUE /\ enc = "running" /\ input = <<>> /\ result = "none"

-----------------------------------------------------------------------------
(* The recorder: one makeFrame call per rendered source sample.            *)

(* An error of makeFrame, of the renderer or of the audio side returns from *)
(* mainLoopRecord, whose deferred StopFFmpeg runs on that goroutine and not *)
(* through CallMain.                                                       *)
AbortTo(stop) ==
  /\ rec' = stop /\ onMain' = FALSE /\ aborted' = TRUE /\ waitFirst' = TRUE

(* makeFrame up to its first checkData.  A sample that emits no frame ends  *)
(* before it and changes nothing modelled here.                             *)
BeginFrame ==
  /\ rec = "idle" /\ ~failed /\ frames < MaxFrames
  /\ rec' = "first" /\ waitFirst' = (free = {})
  /\ UNCHANGED <<onMain, held, route, readErr, aborted, frames>>
  /\ UNCHANGED <<bufVars, queueOpen, writVars, pipeOpen, encVars, result>>

(* makeFrame sees the sticky error, or another step of the loop fails.      *)
AbortRecording ==
  /\ rec = "idle"
  /\ AbortTo("drain")
  /\ UNCHANGED <<held, route, readErr, frames>>
  /\ UNCHANGED <<bufVars, queueOpen, writVars, pipeOpen, encVars, result>>

(* The timeline ended: StopFFmpeg runs on the main thread.                  *)
FinishRecording ==
  /\ rec = "idle"
  /\ rec' = "drain" /\ waitFirst' = TRUE
  /\ UNCHANGED <<onMain, held, route, readErr, aborted, frames>>
  /\ UNCHANGED <<bufVars, queueOpen, writVars, pipeOpen, encVars, result>>

(* checkData waits for a fence on its first round when asked to, and on     *)
(* every round of stopVideo.                                                *)
Waits == waitFirst \/ rec = "drain"

FenceUsable(outcome) == onMain \/ outcome \in OffContext

(* Mutant: a recycled buffer is forgotten.                                  *)
Forgotten(p) == free

FencesLeft == ready - 1
RouteOf == IF failed THEN "free" ELSE "write"
Recycled(p) == free \cup {p}
QueueCap == Cardinality(PBOs)

(* The oldest fence is signalled: checkData takes its buffer and decides    *)
(* by the sticky error where it goes.                                       *)
CheckTake ==
  /\ rec \in Checking /\ held = None /\ readQ # <<>>
  /\ ready > 0
  /\ FenceUsable("waits")
  /\ held' = Head(readQ) /\ readQ' = Tail(readQ) /\ ready' = FencesLeft
  /\ route' = RouteOf
  /\ UNCHANGED <<rec, onMain, waitFirst, readErr, aborted, frames>>
  /\ UNCHANGED <<free, writeQ, data, queueOpen, writVars, pipeOpen, encVars, result>>

(* The channel send of that buffer; videoWriteQueue holds pboCount buffers. *)
CheckSend ==
  /\ rec \in Checking /\ held # None
  /\ \/ /\ route = "free"
        /\ free' = Recycled(held) /\ UNCHANGED writeQ
     \/ /\ route = "write" /\ Len(writeQ) < QueueCap
        /\ writeQ' = Append(writeQ, held) /\ UNCHANGED free
  /\ held' = None /\ waitFirst' = FALSE
  /\ UNCHANGED <<rec, onMain, route, readErr, aborted, frames>>
  /\ UNCHANGED <<readQ, ready, data, queueOpen, writVars, pipeOpen, encVars, result>>

(* checkData returns: the queue is empty, or the oldest fence is pending    *)
(* and this call does not wait for it.                                      *)
CheckReturn ==
  /\ rec \in Checking /\ held = None
  /\ readQ = <<>> \/ (ready = 0 /\ ~Waits)
  /\ \/ /\ rec = "drain" /\ rec' = "close"
        /\ UNCHANGED <<onMain, aborted, waitFirst>>
     \/ /\ rec # "drain" /\ failed /\ AbortTo("drain")
     \/ /\ rec # "drain" /\ ~failed
        /\ rec' = IF rec = "first" THEN "take" ELSE "idle"
        /\ UNCHANGED <<onMain, aborted, waitFirst>>
  /\ UNCHANGED <<held, route, readErr, frames>>
  /\ UNCHANGED <<bufVars, queueOpen, writVars, pipeOpen, encVars, result>>

(* The wait for the oldest fence reports failure.                           *)
FenceWaitFails ==
  /\ rec \in Checking /\ held = None /\ readQ # <<>>
  /\ Waits /\ FenceUsable("fails")
  /\ \/ /\ rec = "drain" /\ rec' = "close" /\ readErr' = TRUE
        /\ UNCHANGED <<onMain, aborted, waitFirst>>
     \/ rec # "drain" /\ AbortTo("drain") /\ UNCHANGED readErr
  /\ UNCHANGED <<held, route, frames>>
  /\ UNCHANGED <<bufVars, queueOpen, writVars, pipeOpen, encVars, result>>

(* Mutant: the buffer the writer works on counts as free.                   *)
AvailableEarly == PBOs \ (ToSet(readQ) \cup ToSet(writeQ))

Available == free

(* makeFrame receives a free buffer and starts the read-back into it.       *)
TakeBuffer ==
  /\ rec = "take" /\ ~failed
  /\ \E p \in Available :
       /\ free' = free \ {p}
       /\ data' = [data EXCEPT ![p] = frames + 1]
       /\ readQ' = Append(readQ, p)
  /\ frames' = frames + 1
  /\ rec' = "second" /\ waitFirst' = FALSE
  /\ UNCHANGED <<onMain, held, route, readErr, aborted>>
  /\ UNCHANGED <<ready, writeQ, queueOpen, writVars, pipeOpen, encVars, result>>

(* The received buffer goes back: the writer failed meanwhile, or the GPU   *)
(* gave no fence.                                                           *)
TakeBufferFails ==
  /\ rec = "take" /\ free # {}
  /\ AbortTo("drain")
  /\ UNCHANGED <<held, route, readErr, frames>>
  /\ UNCHANGED <<bufVars, queueOpen, writVars, pipeOpen, encVars, result>>

(* Mutants: the join waits for every buffer; the failed fence wait is not   *)
(* reported.                                                                *)
AllBuffersHome == wr = "done" /\ free = PBOs
StopErrorLost == failed \/ enc = "dead"

WriterJoined == wr = "done"
StopError == readErr \/ failed \/ enc = "dead"

(* stopVideo after checkData: close the queue, join the writer, close the   *)
(* pipe, reap the encoder.                                                  *)
CloseQueue ==
  /\ rec = "close" /\ rec' = "join" /\ queueOpen' = FALSE
  /\ UNCHANGED <<onMain, waitFirst, held, route, readErr, aborted, frames>>
  /\ UNCHANGED <<bufVars, writVars, pipeOpen, encVars, result>>

JoinWriter ==
  /\ rec = "join" /\ WriterJoined
  /\ rec' = "wait" /\ pipeOpen' = FALSE
  /\ UNCHANGED <<onMain, waitFirst, held, route, readErr, aborted, frames>>
  /\ UNCHANGED <<bufVars, queueOpen, writVars, encVars, result>>

WaitEncoder ==
  /\ rec = "wait" /\ enc # "running"
  /\ rec' = "stopped"
  /\ result' = IF StopError THEN "error" ELSE "ok"
  /\ UNCHANGED <<onMain, waitFirst, held, route, readErr, aborted, frames>>
  /\ UNCHANGED <<bufVars, queueOpen, writVars, pipeOpen, encVars>>

-----------------------------------------------------------------------------
(* The GPU signals fences in submission order.                             *)
SignalFence ==
  /\ ready < Len(readQ) /\ ready' = ready + 1
  /\ UNCHANGED <<recVars, free, readQ, writeQ, data, queueOpen, writVars>>
  /\ UNCHANGED <<pipeOpen, encVars, result>>

(* The writer goroutine: for pbo := range videoWriteQueue.                 *)
WriterReceive ==
  /\ wr = "recv" /\ writeQ # <<>>
  /\ wbuf' = Head(writeQ) /\ writeQ' = Tail(writeQ)
  /\ wr' = IF writeFailed THEN "give" ELSE "write"
  /\ UNCHANGED <<recVars, free, readQ, ready, data, queueOpen, writeFailed, failed>>
  /\ UNCHANGED <<pipeOpen, encVars, result>>

WriterEnd ==
  /\ wr = "recv" /\ writeQ = <<>> /\ ~queueOpen
  /\ wr' = "done"
  /\ UNCHANGED <<recVars, bufVars, queueOpen, wbuf, writeFailed, failed>>
  /\ UNCHANGED <<pipeOpen, encVars, result>>

(* A frame is larger than the pipe's buffer: Write returns once the encoder *)
(* has read all but the end of it, which a healthy encoder reads as well.   *)
WriteFrame ==
  /\ wr = "write" /\ enc = "running"
  /\ input' = Append(input, data[wbuf]) /\ wr' = "give"
  /\ UNCHANGED <<recVars, bufVars, queueOpen, wbuf, writeFailed, failed>>
  /\ UNCHANGED <<pipeOpen, enc, result>>

(* Mutant: the writer goroutine returns on the first error.                 *)
GiveUp == "done"

AfterFailedWrite == "give"

(* Writing to a dead encoder's stdin fails.  A named pipe is opened O_RDWR  *)
(* by this process, which stays its own reader, so a write there blocks.    *)
WriteFails ==
  /\ wr = "write" /\ enc # "running" /\ ~NamedPipe
  /\ failed' = TRUE /\ writeFailed' = TRUE /\ pipeOpen' = FALSE
  /\ wr' = AfterFailedWrite
  /\ UNCHANGED <<recVars, bufVars, queueOpen, wbuf, encVars, result>>

WriterGive ==
  /\ wr = "give"
  /\ free' = Recycled(wbuf) /\ wbuf' = None /\ wr' = "recv"
  /\ UNCHANGED <<recVars, readQ, ready, writeQ, data, queueOpen, writeFailed, failed>>
  /\ UNCHANGED <<pipeOpen, encVars, result>>

(* The encoder ends after end of input, or dies at any time.               *)
EncoderFinish ==
  /\ enc = "running" /\ ~pipeOpen /\ enc' = "finished"
  /\ UNCHANGED <<recVars, bufVars, queueOpen, writVars, pipeOpen, input, result>>

EncoderDie ==
  /\ EncoderMayDie /\ enc = "running" /\ enc' = "dead"
  /\ UNCHANGED <<recVars, bufVars, queueOpen, writVars, pipeOpen, input, result>>

-----------------------------------------------------------------------------
Check == CheckTake \/ CheckSend \/ CheckReturn
Recorder == BeginFrame \/ AbortRecording \/ FinishRecording \/ Check
            \/ FenceWaitFails \/ TakeBuffer \/ TakeBufferFails
            \/ CloseQueue \/ JoinWriter \/ WaitEncoder
Writer == WriterReceive \/ WriterEnd \/ WriteFrame \/ WriteFails \/ WriterGive
Encoder == EncoderFinish \/ EncoderDie

Terminated == rec = "stopped" /\ UNCHANGED vars

Next == Recorder \/ SignalFence \/ Writer \/ Encoder \/ Terminated

Spec == Init /\ [][Next]_vars

(* The Go scheduler runs both goroutines, the GPU completes its commands    *)
(* and a live encoder keeps reading and ends at end of input.               *)
Fairness == /\ WF_vars(Recorder) /\ WF_vars(SignalFence)
            /\ WF_vars(Writer) /\ WF_vars(EncoderFinish)
FairSpec == Spec /\ Fairness

-----------------------------------------------------------------------------
(* Properties                                                              *)

(* Every pixel buffer is in exactly one place: free, read back, in          *)
(* checkData's hand, queued or with the writer.  None is leaked on an error *)
(* path and none is handed out twice (createPBO, checkData, the writer).    *)
OneOwner ==
  LET inHand == {held, wbuf} \ {None}
  IN /\ IsInjective(readQ) /\ IsInjective(writeQ)
     /\ held # None => held # wbuf
     /\ free \cap (ToSet(readQ) \cup ToSet(writeQ) \cup inHand) = {}
     /\ ToSet(readQ) \cap (ToSet(writeQ) \cup inHand) = {}
     /\ ToSet(writeQ) \cap inHand = {}
     /\ free \cup ToSet(readQ) \cup ToSet(writeQ) \cup inHand = PBOs

(* The frames between the renderer and the encoder form one unbroken run:   *)
(* what the encoder has read, the writer's buffer, videoWriteQueue,         *)
(* checkData's buffer and the read queue, put end to end, hold the frames   *)
(* 1, 2, ... in order, and as long as no write failed they are all there.   *)
BeingWritten == IF wr = "write" THEN 1 ELSE 0
InHand == IF held = None THEN 0 ELSE 1
FirstQueued == Len(input) + BeingWritten
FirstRead == FirstQueued + Len(writeQ) + InHand

InFlight ==
  /\ \A i \in DOMAIN input : input[i] = i
  /\ ~failed =>
       /\ wr = "write" => data[wbuf] = Len(input) + 1
       /\ \A i \in DOMAIN writeQ : data[writeQ[i]] = FirstQueued + i
       /\ held # None => route = "write" /\ data[held] = FirstRead
       /\ \A i \in DOMAIN readQ : data[readQ[i]] = FirstRead + i
       /\ frames = FirstRead + Len(readQ)

(* When stopVideo returns no error, the encoder has read every submitted    *)
(* frame: nothing is left in a queue or dropped without being reported.     *)
SuccessIsComplete == result = "ok" => Len(input) = frames

(* The send to videoWriteQueue finds room: the GL thread never waits for    *)
(* the encoder there, only at the free pool.                                *)
SendFindsRoom == held # None /\ route = "write" => Len(writeQ) < QueueCap

(* While the writer reads a buffer its contents do not change: makeFrame    *)
(* never starts a read-back into a buffer the encoder is being fed from.    *)
NoOverwriteWhileWriting == [][wr = "write" => data'[wbuf] = data[wbuf]]_vars

(* The writer does not write to the encoder after the pipe was closed.      *)
NoWriteAfterClose == wr = "write" => pipeOpen

(* Once stopVideo starts, it returns.                                       *)
StopReturns == rec = "drain" ~> rec = "stopped"

(* "Encoder failures are checked" (README.md:74): a recording whose encoder *)
(* died ends, and with an error.                                            *)
EncoderFailureSurfaces == enc = "dead" ~> result = "error"

(* Frames in, frames out: the pipeline is an encoder feed.                  *)
Feed == INSTANCE EncoderFeed WITH sent <- frames, got <- input,
                                  broken <- failed, verdict <- result
FeedSpec == Feed!Spec
============================================================================
