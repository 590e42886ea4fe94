--------------------------- MODULE AudioPipeline ---------------------------
(***************************************************************************)
(* The audio half of the recorder (app/ffmpeg/audio.go): the recording     *)
(* loop cuts each interval of mixer sample frames into blocks, fills pool  *)
(* buffers with asked audio and queues them; a writer goroutine writes     *)
(* them to the audio encoder and returns them to the pool.                 *)
(***************************************************************************)
EXTENDS Naturals, Sequences, FiniteSets, SequencesExt

CONSTANTS
  Buffers,      \* the pool (MaxAudioBuffers of them)
  None,
  BlockFrames,  \* sample frames one buffer holds
  Intervals,    \* sample-frame counts PushAudioFrames is called with
  MaxSamples,   \* bound: sample frames of one recording
  PipeBlocks,   \* blocks the operating system's pipe holds
  NamedPipe,    \* TRUE where the encoder reads a named pipe (not Windows)
  EncoderMayDie

ASSUME AudioAssumption ==
  /\ Buffers # {} /\ IsFiniteSet(Buffers) /\ None \notin Buffers
  /\ BlockFrames \in Nat \ {0} /\ Intervals \subseteq Nat /\ MaxSamples \in Nat
  /\ PipeBlocks \in Nat \ {0}
  /\ NamedPipe \in BOOLEAN /\ EncoderMayDie \in BOOLEAN

VARIABLES
  rec,        \* where the recording goroutine stands
  todo,       \* sample frames PushAudioFrames still has to submit
  asked,      \* sample frames PushAudioFrames was asked to submit
  blocks,     \* blocks submitted so far
  pool,       \* audioPool; which free buffer comes next is not observable
  queue,      \* audioWriteQueue
  queueOpen,  \* audioWriteQueue is not closed
  data,       \* what each buffer holds: the block's number and length
  wr, wbuf,   \* the writer goroutine and the buffer it received
  writeFailed, failed, pipeOpen,
  pipe,       \* the blocks written and not read by the encoder yet
  enc,        \* the encoder process
  input,      \* numbers of the blocks the encoder has read
  heard,      \* the sample frames in them
  result      \* what stopAudio returned

vars == <<rec, todo, asked, blocks, pool, queue, queueOpen, data, wr, wbuf,
          writeFailed, failed, pipeOpen, pipe, enc, input, heard, result>>

Block == [number : Nat, length : 0..BlockFrames]
Smaller(a, b) == IF a < b THEN a ELSE b

TypeOK ==
  /\ rec \in {"idle", "take", "check", "stop", "join", "wait", "stopped"}
  /\ todo \in Nat /\ asked \in Nat /\ blocks \in Nat /\ heard \in Nat
  /\ pool \subseteq Buffers /\ queue \in Seq(Buffers) /\ queueOpen \in BOOLEAN
  /\ data \in [Buffers -> Block]
  /\ wr \in {"recv", "write", "give", "done"} /\ wbuf \in Buffers \cup {None}
  /\ writeFailed \in BOOLEAN /\ failed \in BOOLEAN /\ pipeOpen \in BOOLEAN
  /\ pipe \in Seq(Block) /\ Len(pipe) <= PipeBlocks
  /\ enc \in {"running", "finished", "dead"}
  /\ input \in Seq(Nat) /\ result \in {"none", "ok", "error"}

Init ==
  /\ rec = "idle" /\ todo = 0 /\ asked = 0 /\ blocks = 0 /\ heard = 0
  /\ pool = Buffers /\ queue = <<>> /\ queueOpen = TRUE
  /\ data = [b \in Buffers |-> [number |-> 0, length |-> 0]]
  /\ wr = "recv" /\ wbuf = None /\ writeFailed = FALSE /\ failed = FALSE
  /\ pipeOpen = TRUE /\ pipe = <<>> /\ enc = "running" /\ input = <<>> /\ result = "none"

-----------------------------------------------------------------------------
(* The recording loop pushes the next interval.                            *)
PushAudioFrames ==
  /\ rec = "idle"
  /\ \E n \in Intervals :
       n > 0 /\ asked + n <= MaxSamples /\ todo' = n /\ asked' = asked + n
  /\ rec' = IF failed THEN "stop" ELSE "take"
  /\ UNCHANGED <<blocks, pool, queue, queueOpen, data, wr, wbuf>>
  /\ UNCHANGED <<writeFailed, failed, pipeOpen, pipe, enc, input, heard, result>>

BlockSize == Smaller(todo, BlockFrames)

(* pushAudioBytes with a pool buffer in hand: mix the block, queue it.      *)
SubmitBlock ==
  /\ rec = "take" /\ ~failed
  /\ Len(queue) < Cardinality(Buffers)
  /\ \E b \in pool :
       LET n == BlockSize
       IN /\ pool' = pool \ {b} /\ queue' = Append(queue, b)
          /\ data' = [data EXCEPT ![b] = [number |-> blocks + 1, length |-> n]]
          /\ todo' = todo - n
  /\ blocks' = blocks + 1 /\ rec' = "check"
  /\ UNCHANGED <<asked, queueOpen, wr, wbuf, writeFailed, failed, pipeOpen>>
  /\ UNCHANGED <<pipe, enc, input, heard, result>>

(* The sticky error is read after the buffer was received: it goes back.    *)
RefuseBlock ==
  /\ rec = "take" /\ failed /\ pool # {} /\ rec' = "stop"
  /\ UNCHANGED <<todo, asked, blocks, pool, queue, queueOpen, data, wr, wbuf>>
  /\ UNCHANGED <<writeFailed, failed, pipeOpen, pipe, enc, input, heard, result>>

(* Mutant: the last short block of an interval is dropped.                  *)
MoreFullBlocks == todo >= BlockFrames

MoreBlocks == todo > 0

(* pushAudioBytes returns the sticky error; the next block follows.         *)
AfterBlock ==
  /\ rec = "check"
  /\ rec' = IF failed THEN "stop" ELSE IF MoreBlocks THEN "take" ELSE "idle"
  /\ UNCHANGED <<todo, asked, blocks, pool, queue, queueOpen, data, wr, wbuf>>
  /\ UNCHANGED <<writeFailed, failed, pipeOpen, pipe, enc, input, heard, result>>

(* Mutant: stopAudio does not join the writer.                              *)
NotJoined == TRUE

WriterJoined == wr = "done"
StopError == failed \/ enc = "dead"

(* stopAudio, after the last interval or because the recording was aborted. *)
StopAudio ==
  /\ rec \in {"idle", "stop"} /\ rec' = "join" /\ queueOpen' = FALSE
  /\ UNCHANGED <<todo, asked, blocks, pool, queue, data, wr, wbuf>>
  /\ UNCHANGED <<writeFailed, failed, pipeOpen, pipe, enc, input, heard, result>>

JoinWriter ==
  /\ rec = "join" /\ WriterJoined /\ rec' = "wait" /\ pipeOpen' = FALSE
  /\ UNCHANGED <<todo, asked, blocks, pool, queue, queueOpen, data, wr, wbuf>>
  /\ UNCHANGED <<writeFailed, failed, pipe, enc, input, heard, result>>

WaitEncoder ==
  /\ rec = "wait" /\ enc # "running" /\ rec' = "stopped"
  /\ result' = IF StopError THEN "error" ELSE "ok"
  /\ UNCHANGED <<todo, asked, blocks, pool, queue, queueOpen, data, wr, wbuf>>
  /\ UNCHANGED <<writeFailed, failed, pipeOpen, pipe, enc, input, heard>>

-----------------------------------------------------------------------------
(* The writer goroutine: for data := range audioWriteQueue.                *)
WriterReceive ==
  /\ wr = "recv" /\ queue # <<>>
  /\ wbuf' = Head(queue) /\ queue' = Tail(queue)
  /\ wr' = IF writeFailed THEN "give" ELSE "write"
  /\ UNCHANGED <<rec, todo, asked, blocks, pool, queueOpen, data, writeFailed>>
  /\ UNCHANGED <<failed, pipeOpen, pipe, enc, input, heard, result>>

WriterEnd ==
  /\ wr = "recv" /\ queue = <<>> /\ ~queueOpen /\ wr' = "done"
  /\ UNCHANGED <<rec, todo, asked, blocks, pool, queue, queueOpen, data, wbuf>>
  /\ UNCHANGED <<writeFailed, failed, pipeOpen, pipe, enc, input, heard, result>>

(* A block fits the pipe: Write returns as soon as there is room.  A named  *)
(* pipe is opened O_RDWR by this process, which stays its own reader, so a  *)
(* dead encoder neither fails the write nor makes room.                     *)
WriteBlock ==
  /\ wr = "write" /\ (enc = "running" \/ NamedPipe)
  /\ Len(pipe) < PipeBlocks
  /\ pipe' = Append(pipe, data[wbuf]) /\ wr' = "give"
  /\ UNCHANGED <<rec, todo, asked, blocks, pool, queue, queueOpen, data, wbuf>>
  /\ UNCHANGED <<writeFailed, failed, pipeOpen, enc, input, heard, result>>

(* Mutants: the writer goroutine returns on the first error; the buffer of  *)
(* a written block is forgotten.                                            *)
GiveUp == "done"
Forgotten(b) == pool

AfterFailedWrite == "give"
Recycled(b) == pool \cup {b}

WriteFails ==
  /\ wr = "write" /\ enc # "running" /\ ~NamedPipe
  /\ failed' = TRUE /\ writeFailed' = TRUE /\ pipeOpen' = FALSE
  /\ wr' = AfterFailedWrite
  /\ UNCHANGED <<rec, todo, asked, blocks, pool, queue, queueOpen, data, wbuf>>
  /\ UNCHANGED <<pipe, enc, input, heard, result>>

WriterGive ==
  /\ wr = "give" /\ pool' = Recycled(wbuf) /\ wbuf' = None /\ wr' = "recv"
  /\ UNCHANGED <<rec, todo, asked, blocks, queue, queueOpen, data, writeFailed>>
  /\ UNCHANGED <<failed, pipeOpen, pipe, enc, input, heard, result>>

(* The encoder process reads its input and ends at the end of it, or dies.  *)
EncoderRead ==
  /\ enc = "running" /\ pipe # <<>>
  /\ pipe' = Tail(pipe)
  /\ input' = Append(input, Head(pipe).number)
  /\ heard' = heard + Head(pipe).length
  /\ UNCHANGED <<rec, todo, asked, blocks, pool, queue, queueOpen, data, wr>>
  /\ UNCHANGED <<wbuf, writeFailed, failed, pipeOpen, enc, result>>

EncoderFinish ==
  /\ enc = "running" /\ ~pipeOpen /\ pipe = <<>> /\ enc' = "finished"
  /\ UNCHANGED <<rec, todo, asked, blocks, pool, queue, queueOpen, data, wr>>
  /\ UNCHANGED <<wbuf, writeFailed, failed, pipeOpen, pipe, input, heard, result>>

EncoderDie ==
  /\ EncoderMayDie /\ enc = "running" /\ enc' = "dead"
  /\ UNCHANGED <<rec, todo, asked, blocks, pool, queue, queueOpen, data, wr>>
  /\ UNCHANGED <<wbuf, writeFailed, failed, pipeOpen, pipe, input, heard, result>>

-----------------------------------------------------------------------------
Recorder == PushAudioFrames \/ SubmitBlock \/ RefuseBlock \/ AfterBlock
            \/ StopAudio \/ JoinWriter \/ WaitEncoder
Writer == WriterReceive \/ WriterEnd \/ WriteBlock \/ WriteFails \/ WriterGive
Encoder == EncoderRead \/ EncoderFinish \/ EncoderDie
Terminated == rec = "stopped" /\ UNCHANGED vars

Next == Recorder \/ Writer \/ Encoder \/ Terminated
Spec == Init /\ [][Next]_vars

(* Both goroutines run; a live encoder keeps reading and ends at its end    *)
(* of input.                                                               *)
FairSpec == Spec /\ WF_vars(Recorder) /\ WF_vars(Writer) /\ WF_vars(EncoderRead)
                 /\ WF_vars(EncoderFinish)

-----------------------------------------------------------------------------
(* Properties                                                              *)

(* Types; and every pool buffer is free, queued or with the writer, and in  *)
(* one place only, on the error paths too (pushAudioBytes, the writer       *)
(* goroutine).                                                              *)
OneOwner ==
  /\ TypeOK
  /\ IsInjective(queue)
  /\ pool \cap ToSet(queue) = {}
  /\ wbuf \notin pool \cup ToSet(queue)
  /\ pool \cup ToSet(queue) \cup ({wbuf} \ {None}) = Buffers

(* When stopAudio returns no error the encoder has read every sample frame  *)
(* of the timeline's intervals: none is cut short by the block size and no  *)
(* block is lost in the queue.                                              *)
SuccessIsComplete == result = "ok" => heard = asked

(* Audio blocks are an encoder feed: in order, once each, and complete on   *)
(* success.                                                                 *)
Feed == INSTANCE EncoderFeed WITH sent <- blocks, got <- input,
                                  broken <- failed, verdict <- result
FeedSpec == Feed!Spec

(* "Encoder failures are checked" (README.md:74): a recording whose audio   *)
(* encoder died ends, and with an error.                                    *)
EncoderFailureSurfaces == enc = "dead" ~> result = "error"
============================================================================
