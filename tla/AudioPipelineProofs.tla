------------------------ MODULE AudioPipelineProofs ------------------------
(***************************************************************************)
(* What holds of the audio pipeline for every pool, block size, interval   *)
(* and recording length: who owns a buffer, that a good recording contains *)
(* every sample frame asked for, and that the pipeline implements the      *)
(* abstract encoder feed.                                                  *)
(*                                                                         *)
(* That no sample frame is lost is a fact about a sum over all the blocks. *)
(* Accounted says it without one: there is a ledger, giving for every      *)
(* block the sample frames submitted up to and with it, and each block in  *)
(* flight is as long as the ledger says.                                   *)
(***************************************************************************)
EXTENDS AudioPipeline, Integers, FiniteSetTheorems, TLAPS

-----------------------------------------------------------------------------
(* Channels: taking from the head and adding at the end of a sequence without *)
(* repetitions.                                                              *)

(* A send to a channel, or an append to a slice: one element joins.         *)
LEMMA QueueAppend ==
  ASSUME NEW S, NEW q \in Seq(S), NEW x \in S
  PROVE  /\ Append(q, x) \in Seq(S)
         /\ Len(Append(q, x)) = Len(q) + 1
         /\ \A i \in DOMAIN q : Append(q, x)[i] = q[i]
         /\ Append(q, x)[Len(q) + 1] = x
         /\ ToSet(Append(q, x)) = ToSet(q) \cup {x}
         /\ IsInjective(q) /\ x \notin ToSet(q) => IsInjective(Append(q, x))
<1>1. /\ Append(q, x) \in Seq(S)
      /\ Len(Append(q, x)) = Len(q) + 1
      /\ \A i \in DOMAIN q : Append(q, x)[i] = q[i]
      /\ Append(q, x)[Len(q) + 1] = x
      /\ DOMAIN Append(q, x) = 1 .. Len(q) + 1
      /\ DOMAIN q = 1 .. Len(q)
      /\ Len(q) \in Nat
  OBVIOUS
<1>2. ToSet(Append(q, x)) = ToSet(q) \cup {x}
  BY <1>1 DEF ToSet
<1>3. ASSUME IsInjective(q), x \notin ToSet(q)
      PROVE  IsInjective(Append(q, x))
  BY <1>1, <1>3 DEF IsInjective, ToSet
<1> QED
  BY <1>1, <1>2, <1>3

(* A receive: the head leaves, the rest keeps its order.                    *)
LEMMA QueueRemove ==
  ASSUME NEW S, NEW q \in Seq(S), q # <<>>
  PROVE  /\ Head(q) \in S /\ Tail(q) \in Seq(S)
         /\ Len(q) > 0 /\ Len(Tail(q)) = Len(q) - 1
         /\ Head(q) = q[1] /\ 1 \in DOMAIN q
         /\ \A i \in DOMAIN Tail(q) : i + 1 \in DOMAIN q /\ Tail(q)[i] = q[i + 1]
         /\ ToSet(q) = ToSet(Tail(q)) \cup {Head(q)}
         /\ IsInjective(q) => IsInjective(Tail(q)) /\ Head(q) \notin ToSet(Tail(q))
<1>1. /\ Head(q) \in S /\ Tail(q) \in Seq(S)
      /\ Len(q) \in Nat /\ Len(q) > 0 /\ Len(Tail(q)) = Len(q) - 1
      /\ Head(q) = q[1] /\ DOMAIN q = 1 .. Len(q)
      /\ DOMAIN Tail(q) = 1 .. Len(q) - 1
      /\ \A i \in DOMAIN Tail(q) : Tail(q)[i] = q[i + 1]
  OBVIOUS
<1>2. /\ 1 \in DOMAIN q
      /\ \A i \in DOMAIN Tail(q) : i + 1 \in DOMAIN q
      /\ \A j \in DOMAIN q : j = 1 \/ j - 1 \in DOMAIN Tail(q)
  BY <1>1
<1>3. ToSet(q) \subseteq ToSet(Tail(q)) \cup {Head(q)}
  <2> SUFFICES ASSUME NEW j \in DOMAIN q
               PROVE  q[j] \in ToSet(Tail(q)) \cup {Head(q)}
    BY DEF ToSet
  <2>1. CASE j = 1
    BY <2>1, <1>1
  <2>2. CASE j # 1
    <3>1. j - 1 \in DOMAIN Tail(q) /\ j \in Int
      BY <1>1, <1>2, <2>2
    <3>2. Tail(q)[j - 1] = q[j]
      BY <1>1, <3>1
    <3> QED
      BY <3>1, <3>2 DEF ToSet
  <2> QED
    BY <2>1, <2>2
<1>4. ToSet(Tail(q)) \cup {Head(q)} \subseteq ToSet(q)
  BY <1>1, <1>2 DEF ToSet
<1>5. ASSUME IsInjective(q)
      PROVE  IsInjective(Tail(q)) /\ Head(q) \notin ToSet(Tail(q))
  <2>1. \A i, j \in DOMAIN Tail(q) : Tail(q)[i] = Tail(q)[j] => i = j
    BY <1>1, <1>2, <1>5 DEF IsInjective
  <2>2. \A i \in DOMAIN Tail(q) : Tail(q)[i] # Head(q)
    BY <1>1, <1>2, <1>5 DEF IsInjective
  <2> QED
    BY <2>1, <2>2 DEF IsInjective, ToSet
<1> QED
  BY <1>1, <1>2, <1>3, <1>4, <1>5

-----------------------------------------------------------------------------
(* The inductive invariant.                                                *)

(* Every pool buffer is in one place. *)
Ownership ==
  /\ IsInjective(queue)
  /\ pool \cap ToSet(queue) = {}
  /\ wbuf \notin pool \cup ToSet(queue)
  /\ pool \cup ToSet(queue) \cup ({wbuf} \ {None}) = Buffers

(* Where the recorder stands. *)
RecorderControl ==
  /\ queueOpen <=> rec \notin {"join", "wait", "stopped"}
  /\ rec = "stop" => failed
  /\ rec \in {"idle", "join", "wait", "stopped"} /\ ~failed => todo = 0
  /\ rec \in {"wait", "stopped"} => wr = "done"
  /\ rec = "stopped" => enc # "running"
  /\ rec # "stopped" => result = "none"

(* Where the writer goroutine stands. *)
WriterControl ==
  /\ wr \in {"write", "give"} => wbuf \in Buffers
  /\ wr \in {"recv", "done"} => wbuf = None
  /\ wr = "done" => ~queueOpen /\ queue = <<>>
  /\ writeFailed <=> failed
  /\ wr = "write" => ~failed

(* The encoder stops reading only when it died or its input ended. *)
EncoderControl ==
  /\ failed => enc # "running"
  /\ ~pipeOpen => failed \/ rec \in {"wait", "stopped"}
  /\ enc = "finished" => ~pipeOpen /\ (~failed => pipe = <<>>)
  /\ result = "ok" => rec = "stopped" /\ ~failed /\ enc = "finished"

Control == RecorderControl /\ WriterControl /\ EncoderControl

(* The blocks that have reached the pipe, and those the writer has taken. *)
Written == Len(input) + Len(pipe)
Taken == Written + (IF wr = "write" THEN 1 ELSE 0)

(* The blocks in flight are numbered without a gap, from the encoder's next *)
(* one to the last one submitted. *)
InFlight ==
  /\ \A i \in DOMAIN pipe : pipe[i].number = Len(input) + i
  /\ wr = "write" => data[wbuf].number = Written + 1
  /\ \A i \in DOMAIN queue : data[queue[i]].number = Taken + i
  /\ blocks = Taken + Len(queue)

(* A ledger of the sample frames submitted with the first n blocks. *)
Fits(total, block) == total[block.number] = total[block.number - 1] + block.length

Ledger(total) ==
  /\ total[Len(input)] = heard
  /\ total[blocks] + todo = asked
  /\ \A i \in DOMAIN pipe : Fits(total, pipe[i])
  /\ wr = "write" => Fits(total, data[wbuf])
  /\ \A i \in DOMAIN queue : Fits(total, data[queue[i]])

Accounted == \E total \in [Nat -> Nat] : Ledger(total)

(* After a failed write the blocks that are left are only given back. *)
Inv == TypeOK /\ Ownership /\ Control /\ (~failed => InFlight /\ Accounted)

-----------------------------------------------------------------------------
(* The types of the flags, and of the rest. *)
Flags == /\ queueOpen \in BOOLEAN /\ writeFailed \in BOOLEAN /\ failed \in BOOLEAN
         /\ pipeOpen \in BOOLEAN

Contents ==
  /\ rec \in {"idle", "take", "check", "stop", "join", "wait", "stopped"}
  /\ todo \in Nat /\ asked \in Nat /\ blocks \in Nat /\ heard \in Nat
  /\ pool \subseteq Buffers /\ queue \in Seq(Buffers) /\ data \in [Buffers -> Block]
  /\ wr \in {"recv", "write", "give", "done"} /\ wbuf \in Buffers \cup {None}
  /\ pipe \in Seq(Block) /\ Len(pipe) <= PipeBlocks
  /\ enc \in {"running", "finished", "dead"}
  /\ input \in Seq(Nat) /\ result \in {"none", "ok", "error"}

LEMMA TypeParts == TypeOK <=> Flags /\ Contents
BY DEF TypeOK, Flags, Contents

LEMMA InitInv == Init => Inv
<1> SUFFICES ASSUME Init PROVE Inv
  OBVIOUS
<1>1. TypeOK
  <2>1. Flags
    BY Zenon DEF Init, Flags
  <2>2. Contents
    BY AudioAssumption DEF Init, Contents, Block
  <2> QED
    BY <2>1, <2>2, TypeParts
<1>2. Ownership
  BY AudioAssumption DEF Init, Ownership, ToSet, IsInjective
<1>3. Control
  BY DEF Init, Control, RecorderControl, WriterControl, EncoderControl
<1>4. InFlight
  BY DEF Init, InFlight, Taken, Written
<1>5. Accounted
  <2> DEFINE total == [n \in Nat |-> 0]
  <2>1. total \in [Nat -> Nat] /\ Ledger(total)
    BY DEF Init, Ledger
  <2> HIDE DEF total
  <2> QED
    BY <2>1 DEF Accounted
<1> QED
  BY <1>1, <1>2, <1>3, <1>4, <1>5 DEF Inv

(* The block the recorder mixes is no longer than a buffer. *)
LEMMA BlockFits == ASSUME Contents PROVE BlockSize \in 0..BlockFrames /\ BlockSize <= todo
BY AudioAssumption DEF Contents, BlockSize, Smaller

LEMMA FlagsKept == ASSUME Flags, [Next]_vars PROVE Flags'
<1> USE DEF Flags
<1>1. CASE PushAudioFrames
  BY <1>1, Zenon DEF PushAudioFrames
<1>2. CASE SubmitBlock
  BY <1>2, Zenon DEF SubmitBlock, BlockSize, Smaller
<1>3. CASE RefuseBlock
  BY <1>3, Zenon DEF RefuseBlock
<1>4. CASE AfterBlock
  BY <1>4, Zenon DEF AfterBlock, MoreBlocks
<1>5. CASE StopAudio
  BY <1>5, Zenon DEF StopAudio
<1>6. CASE JoinWriter
  BY <1>6, Zenon DEF JoinWriter, WriterJoined
<1>7. CASE WaitEncoder
  BY <1>7, Zenon DEF WaitEncoder, StopError
<1>8. CASE WriterReceive
  BY <1>8, Zenon DEF WriterReceive
<1>9. CASE WriterEnd
  BY <1>9, Zenon DEF WriterEnd
<1>10. CASE WriteBlock
  BY <1>10, Zenon DEF WriteBlock
<1>11. CASE WriteFails
  BY <1>11, Zenon DEF WriteFails, AfterFailedWrite
<1>12. CASE WriterGive
  BY <1>12, Zenon DEF WriterGive, Recycled
<1>13. CASE EncoderRead
  BY <1>13, Zenon DEF EncoderRead
<1>14. CASE EncoderFinish
  BY <1>14, Zenon DEF EncoderFinish
<1>15. CASE EncoderDie
  BY <1>15, Zenon DEF EncoderDie
<1>16. CASE UNCHANGED vars
  BY <1>16 DEF vars
<1> QED
  BY <1>1, <1>2, <1>3, <1>4, <1>5, <1>6, <1>7, <1>8, <1>9, <1>10, <1>11, <1>12, <1>13, <1>14,
     <1>15, <1>16
  DEF Next, Recorder, Writer, Encoder, Terminated

LEMMA ContentsKept == ASSUME Contents, Control, [Next]_vars PROVE Contents'
<1> USE DEF Contents
<1>1. CASE PushAudioFrames
  BY <1>1, AudioAssumption DEF PushAudioFrames
<1>2. CASE SubmitBlock
  <2>1. PICK b \in pool : /\ pool' = pool \ {b} /\ queue' = Append(queue, b)
                          /\ data' = [data EXCEPT ![b] = [number |-> blocks + 1,
                                                          length |-> BlockSize]]
                          /\ todo' = todo - BlockSize
    BY <1>2 DEF SubmitBlock
  <2>2. /\ [number |-> blocks + 1, length |-> BlockSize] \in Block
        /\ todo - BlockSize \in Nat
    BY BlockFits, AudioAssumption DEF Block
  <2> QED
    BY <1>2, <2>1, <2>2 DEF SubmitBlock
<1>3. CASE RefuseBlock
  BY <1>3 DEF RefuseBlock
<1>4. CASE AfterBlock
  BY <1>4 DEF AfterBlock, MoreBlocks
<1>5. CASE StopAudio
  BY <1>5 DEF StopAudio
<1>6. CASE JoinWriter
  BY <1>6 DEF JoinWriter, WriterJoined
<1>7. CASE WaitEncoder
  BY <1>7 DEF WaitEncoder, StopError
<1>8. CASE WriterReceive
  BY <1>8, QueueRemove DEF WriterReceive
<1>9. CASE WriterEnd
  BY <1>9 DEF WriterEnd
<1>10. CASE WriteBlock
  <2>1. data[wbuf] \in Block
    BY <1>10 DEF WriteBlock, Control, WriterControl
  <2>2. pipe' \in Seq(Block) /\ Len(pipe') <= PipeBlocks
    BY <1>10, <2>1, AudioAssumption DEF WriteBlock
  <2> QED
    BY <1>10, <2>2 DEF WriteBlock
<1>11. CASE WriteFails
  BY <1>11 DEF WriteFails, AfterFailedWrite
<1>12. CASE WriterGive
  BY <1>12 DEF WriterGive, Recycled, Control, WriterControl
<1>13. CASE EncoderRead
  <2>1. Head(pipe) \in Block /\ Tail(pipe) \in Seq(Block) /\ Len(Tail(pipe)) = Len(pipe) - 1
    BY <1>13, QueueRemove DEF EncoderRead
  <2>2. pipe' \in Seq(Block) /\ Len(pipe') <= PipeBlocks
    BY <1>13, <2>1, AudioAssumption DEF EncoderRead
  <2>3. heard + Head(pipe).length \in Nat /\ Append(input, Head(pipe).number) \in Seq(Nat)
    BY <2>1, AudioAssumption DEF Block
  <2> QED
    BY <1>13, <2>2, <2>3 DEF EncoderRead
<1>14. CASE EncoderFinish
  BY <1>14 DEF EncoderFinish
<1>15. CASE EncoderDie
  BY <1>15 DEF EncoderDie
<1>16. CASE UNCHANGED vars
  BY <1>16 DEF vars
<1> QED
  BY <1>1, <1>2, <1>3, <1>4, <1>5, <1>6, <1>7, <1>8, <1>9, <1>10, <1>11, <1>12, <1>13, <1>14,
     <1>15, <1>16
  DEF Next, Recorder, Writer, Encoder, Terminated

LEMMA ControlKept == ASSUME Flags, Contents, Control, [Next]_vars PROVE Control'
<1> USE DEF Flags, Contents, Control, RecorderControl, WriterControl, EncoderControl
<1>1. CASE PushAudioFrames
  BY <1>1 DEF PushAudioFrames
<1>2. CASE SubmitBlock
  BY <1>2 DEF SubmitBlock, BlockSize, Smaller
<1>3. CASE RefuseBlock
  BY <1>3 DEF RefuseBlock
<1>4. CASE AfterBlock
  BY <1>4 DEF AfterBlock, MoreBlocks
<1>5. CASE StopAudio
  BY <1>5 DEF StopAudio
<1>6. CASE JoinWriter
  BY <1>6 DEF JoinWriter, WriterJoined
<1>7. CASE WaitEncoder
  BY <1>7 DEF WaitEncoder, StopError
<1>8. CASE WriterReceive
  BY <1>8 DEF WriterReceive
<1>9. CASE WriterEnd
  BY <1>9 DEF WriterEnd
<1>10. CASE WriteBlock
  BY <1>10 DEF WriteBlock
<1>11. CASE WriteFails
  BY <1>11 DEF WriteFails, AfterFailedWrite
<1>12. CASE WriterGive
  BY <1>12 DEF WriterGive, Recycled
<1>13. CASE EncoderRead
  BY <1>13 DEF EncoderRead
<1>14. CASE EncoderFinish
  BY <1>14 DEF EncoderFinish
<1>15. CASE EncoderDie
  BY <1>15 DEF EncoderDie
<1>16. CASE UNCHANGED vars
  BY <1>16 DEF vars
<1> QED
  BY <1>1, <1>2, <1>3, <1>4, <1>5, <1>6, <1>7, <1>8, <1>9, <1>10, <1>11, <1>12, <1>13, <1>14,
     <1>15, <1>16
  DEF Next, Recorder, Writer, Encoder, Terminated

-----------------------------------------------------------------------------
(* What taking the head of the queue or of the pipe leaves, and what a      *)
(* submission adds. *)
TakenFromQueue ==
  /\ Head(queue) \in Buffers /\ Tail(queue) \in Seq(Buffers)
  /\ Len(queue) \in Nat /\ Len(Tail(queue)) = Len(queue) - 1 /\ Len(queue) > 0
  /\ Head(queue) = queue[1] /\ 1 \in DOMAIN queue
  /\ DOMAIN Tail(queue) = 1 .. Len(queue) - 1
  /\ \A i \in DOMAIN Tail(queue) : i + 1 \in DOMAIN queue /\ Tail(queue)[i] = queue[i + 1]
  /\ ToSet(queue) = ToSet(Tail(queue)) \cup {Head(queue)}
  /\ IsInjective(queue) => IsInjective(Tail(queue)) /\ Head(queue) \notin ToSet(Tail(queue))

LEMMA QueueHead == ASSUME Contents, queue # <<>> PROVE TakenFromQueue
BY QueueRemove DEF Contents, TakenFromQueue

ReadFromPipe ==
  /\ Head(pipe) \in Block /\ Tail(pipe) \in Seq(Block)
  /\ Len(pipe) \in Nat /\ Len(Tail(pipe)) = Len(pipe) - 1 /\ Len(pipe) > 0
  /\ Head(pipe) = pipe[1] /\ 1 \in DOMAIN pipe
  /\ DOMAIN Tail(pipe) = 1 .. Len(pipe) - 1
  /\ \A i \in DOMAIN Tail(pipe) : i + 1 \in DOMAIN pipe /\ Tail(pipe)[i] = pipe[i + 1]

LEMMA PipeHead == ASSUME Contents, pipe # <<>> PROVE ReadFromPipe
<1>1. pipe \in Seq(Block)
  BY DEF Contents
<1> QED
  BY <1>1, QueueRemove DEF ReadFromPipe

Queued(b) ==
  /\ b \in Buffers /\ pool' = pool \ {b} /\ queue' = Append(queue, b)
  /\ Len(queue) \in Nat /\ Len(queue') = Len(queue) + 1
  /\ DOMAIN queue' = 1 .. Len(queue) + 1 /\ DOMAIN queue = 1 .. Len(queue)
  /\ \A i \in DOMAIN queue : queue'[i] = queue[i] /\ queue[i] \in Buffers \ {b}
  /\ queue'[Len(queue) + 1] = b
  /\ ToSet(queue') = ToSet(queue) \cup {b} /\ IsInjective(queue')
  /\ b # wbuf
  /\ data'[b].number = blocks + 1 /\ data'[b].length = BlockSize
  /\ \A c \in Buffers : c # b => data'[c] = data[c]
  /\ todo' = todo - BlockSize /\ blocks' = blocks + 1
  /\ UNCHANGED <<asked, pipe, input, heard, wr, wbuf>>

LEMMA SubmitQueues ==
  ASSUME Contents, Ownership, SubmitBlock
  PROVE  \E b \in pool : Queued(b)
<1>1. PICK b \in pool : /\ pool' = pool \ {b} /\ queue' = Append(queue, b)
                        /\ data' = [data EXCEPT ![b] = [number |-> blocks + 1,
                                                        length |-> BlockSize]]
                        /\ todo' = todo - BlockSize
  BY DEF SubmitBlock
<1>2. b \in Buffers /\ b # wbuf /\ b \notin ToSet(queue) /\ IsInjective(queue)
  BY <1>1 DEF Ownership, Contents
<1>3. /\ Len(queue) \in Nat /\ Len(queue') = Len(queue) + 1
      /\ DOMAIN queue' = 1 .. Len(queue) + 1 /\ DOMAIN queue = 1 .. Len(queue)
      /\ \A i \in DOMAIN queue : queue'[i] = queue[i]
      /\ queue'[Len(queue) + 1] = b
      /\ ToSet(queue') = ToSet(queue) \cup {b}
      /\ IsInjective(queue) /\ b \notin ToSet(queue) => IsInjective(queue')
  BY <1>1, <1>2, QueueAppend DEF Contents
<1>4. \A i \in DOMAIN queue : queue[i] \in Buffers \ {b}
  BY <1>2, <1>3 DEF ToSet, Contents
<1>5. /\ data'[b].number = blocks + 1 /\ data'[b].length = BlockSize
      /\ \A c \in Buffers : c # b => data'[c] = data[c]
  BY <1>1, <1>2 DEF Contents
<1>6. /\ blocks' = blocks + 1
      /\ UNCHANGED <<asked, pipe, input, heard, wr, wbuf>>
  BY DEF SubmitBlock
<1> QED
  BY <1>1, <1>2, <1>3, <1>4, <1>5, <1>6 DEF Queued

(* Only five steps move a buffer or a block; the others leave them alone. *)
Moving == SubmitBlock \/ WriterReceive \/ WriterGive \/ WriteBlock \/ EncoderRead

LEMMA Resting ==
  ASSUME [Next]_vars, ~Moving
  PROVE  /\ UNCHANGED <<pool, queue, data, wbuf, pipe, input, heard, blocks>>
         /\ ~failed' => ~failed /\ (wr' = "write" <=> wr = "write")
         /\ PushAudioFrames \/ UNCHANGED <<todo, asked>>
<1>1. CASE PushAudioFrames
  BY <1>1 DEF PushAudioFrames
<1>2. CASE SubmitBlock
  BY <1>2 DEF Moving
<1>3. CASE RefuseBlock
  BY <1>3 DEF RefuseBlock
<1>4. CASE AfterBlock
  BY <1>4 DEF AfterBlock, MoreBlocks
<1>5. CASE StopAudio
  BY <1>5 DEF StopAudio
<1>6. CASE JoinWriter
  BY <1>6 DEF JoinWriter, WriterJoined
<1>7. CASE WaitEncoder
  BY <1>7 DEF WaitEncoder, StopError
<1>8. CASE WriterReceive
  BY <1>8 DEF Moving
<1>9. CASE WriterEnd
  BY <1>9 DEF WriterEnd
<1>10. CASE WriteBlock
  BY <1>10 DEF Moving
<1>11. CASE WriteFails
  BY <1>11 DEF WriteFails
<1>12. CASE WriterGive
  BY <1>12 DEF Moving
<1>13. CASE EncoderRead
  BY <1>13 DEF Moving
<1>14. CASE EncoderFinish
  BY <1>14 DEF EncoderFinish
<1>15. CASE EncoderDie
  BY <1>15 DEF EncoderDie
<1>16. CASE UNCHANGED vars
  BY <1>16 DEF vars
<1> QED
  BY <1>1, <1>2, <1>3, <1>4, <1>5, <1>6, <1>7, <1>8, <1>9, <1>10, <1>11, <1>12, <1>13, <1>14,
     <1>15, <1>16
  DEF Next, Recorder, Writer, Encoder, Terminated

LEMMA OwnershipKept == ASSUME Contents, Control, Ownership, [Next]_vars PROVE Ownership'
<1>2. CASE SubmitBlock
  <2>1. PICK b \in pool : Queued(b)
    BY <1>2, SubmitQueues
  <2> QED
    BY <1>2, <2>1 DEF SubmitBlock, Ownership, Queued
<1>8. CASE WriterReceive
  <2>1. TakenFromQueue
    BY <1>8, QueueHead DEF WriterReceive
  <2> QED
    BY <1>8, <2>1, AudioAssumption
    DEF TakenFromQueue, WriterReceive, Ownership, Control, WriterControl
<1>12. CASE WriterGive
  <2>1. /\ wbuf \in Buffers /\ pool' = pool \cup {wbuf} /\ wbuf' = None
        /\ queue' = queue
    BY <1>12 DEF WriterGive, Recycled, Control, WriterControl
  <2> QED
    BY <2>1, AudioAssumption DEF Ownership, ToSet, IsInjective
<1>13. CASE WriteBlock \/ EncoderRead
  BY <1>13 DEF WriteBlock, EncoderRead, Ownership, ToSet, IsInjective
<1>14. CASE ~Moving
  BY <1>14, Resting DEF Ownership, ToSet, IsInjective
<1> QED
  BY <1>2, <1>8, <1>12, <1>13, <1>14 DEF Moving

LEMMA InFlightKept ==
  ASSUME Contents, Control, Ownership, ~failed => InFlight, [Next]_vars, ~failed'
  PROVE  InFlight'
<1>0. CASE ~Moving
  BY <1>0, Resting DEF InFlight, Taken, Written
<1> SUFFICES ASSUME Moving PROVE InFlight'
  BY <1>0
<1>1. ~failed /\ InFlight
  BY DEF Moving, SubmitBlock, WriterReceive, WriterGive, WriteBlock, EncoderRead
<1> USE <1>1
<1>2. CASE SubmitBlock
  <2>1. PICK b \in pool : Queued(b)
    BY <1>2, SubmitQueues
  <2>5. Taken' = Taken /\ Written' = Written /\ Taken \in Nat
    BY <2>1 DEF Taken, Written, Contents, Queued
  <2>6. ASSUME NEW i \in DOMAIN queue'
        PROVE  data'[queue'[i]].number = Taken' + i
    <3>1. CASE i \in DOMAIN queue
      BY <2>1, <2>5, <3>1 DEF InFlight, Queued
    <3>2. CASE i = Len(queue) + 1
      BY <2>1, <2>5, <3>2 DEF InFlight, Queued
    <3> QED
      BY <2>1, <3>1, <3>2 DEF Queued
  <2>7. wr' = "write" => data'[wbuf'].number = Written' + 1
    BY <2>1, <2>5 DEF InFlight, Control, WriterControl, Queued
  <2>8. blocks' = Taken' + Len(queue')
    BY <2>1, <2>5 DEF InFlight, Queued
  <2>9. \A i \in DOMAIN pipe' : pipe'[i].number = Len(input') + i
    BY <2>1 DEF InFlight, Queued
  <2> QED
    BY <2>6, <2>7, <2>8, <2>9 DEF InFlight
<1>8. CASE WriterReceive
  <2>1. TakenFromQueue
    BY <1>8, QueueHead DEF WriterReceive
  <2>2. /\ wr = "recv" /\ wr' = "write" /\ wbuf' = queue[1] /\ queue' = Tail(queue)
        /\ UNCHANGED <<pipe, input, data, blocks>>
    BY <1>8, <2>1 DEF WriterReceive, Control, WriterControl, TakenFromQueue
  <2>3. /\ Written' = Written /\ Taken = Written /\ Taken' = Written + 1
        /\ Written \in Nat
    BY <2>1, <2>2 DEF TakenFromQueue, Taken, Written, Contents
  <2>4. ASSUME NEW i \in DOMAIN queue' PROVE data'[queue'[i]].number = Taken' + i
    <3>1. i \in Nat /\ i + 1 \in DOMAIN queue /\ queue'[i] = queue[i + 1]
      BY <2>1, <2>2, <2>3 DEF TakenFromQueue
    <3>2. data[queue[i + 1]].number = Taken + (i + 1)
      BY <3>1 DEF InFlight
    <3> QED
      BY <2>2, <2>3, <3>1, <3>2
  <2>5. data'[wbuf'].number = Written' + 1
    BY <2>1, <2>2, <2>3 DEF InFlight, TakenFromQueue
  <2>6. blocks' = Taken' + Len(queue')
    BY <2>1, <2>2, <2>3 DEF InFlight, TakenFromQueue
  <2> QED
    BY <2>2, <2>4, <2>5, <2>6 DEF InFlight
<1>10. CASE WriteBlock
  <2>1. /\ wbuf \in Buffers /\ data[wbuf] \in Block /\ wr = "write" /\ wr' = "give"
        /\ pipe' = Append(pipe, data[wbuf])
        /\ UNCHANGED <<queue, data, blocks, input>>
    BY <1>10 DEF WriteBlock, Control, WriterControl, Contents
  <2>2. /\ Len(pipe) \in Nat /\ Len(input) \in Nat /\ Len(pipe') = Len(pipe) + 1
        /\ DOMAIN pipe' = 1 .. Len(pipe) + 1 /\ DOMAIN pipe = 1 .. Len(pipe)
        /\ \A i \in DOMAIN pipe : pipe'[i] = pipe[i]
        /\ pipe'[Len(pipe) + 1] = data[wbuf]
    BY <2>1 DEF Contents
  <2>3. Written' = Written + 1 /\ Taken = Written + 1 /\ Taken' = Taken
    BY <2>1, <2>2 DEF Taken, Written
  <2>4. ASSUME NEW i \in DOMAIN pipe' PROVE pipe'[i].number = Len(input') + i
    <3>1. CASE i \in DOMAIN pipe
      BY <2>1, <2>2, <3>1 DEF InFlight
    <3>2. CASE i = Len(pipe) + 1
      BY <2>1, <2>2, <3>2 DEF InFlight, Written
    <3> QED
      BY <2>2, <3>1, <3>2
  <2> QED
    BY <2>1, <2>3, <2>4 DEF InFlight
<1>12. CASE WriterGive
  BY <1>12 DEF WriterGive, InFlight, Taken, Written
<1>13. CASE EncoderRead
  <2>1. ReadFromPipe
    BY <1>13, PipeHead DEF EncoderRead
  <2>2. /\ pipe' = Tail(pipe) /\ input' = Append(input, pipe[1].number)
        /\ UNCHANGED <<queue, data, blocks, wr, wbuf>>
    BY <1>13, <2>1 DEF EncoderRead, ReadFromPipe
  <2>3. pipe[1].number \in Nat
    BY <2>1 DEF Block, ReadFromPipe
  <2>4. /\ Len(input') = Len(input) + 1 /\ Len(input) \in Nat
    BY <2>2, <2>3 DEF Contents
  <2>5. Written' = Written /\ Taken' = Taken
    BY <2>1, <2>2, <2>4 DEF ReadFromPipe, Taken, Written
  <2>6. ASSUME NEW i \in DOMAIN pipe' PROVE pipe'[i].number = Len(input') + i
    <3>1. i \in Nat /\ i + 1 \in DOMAIN pipe /\ pipe'[i] = pipe[i + 1]
      BY <2>1, <2>2, <2>4 DEF ReadFromPipe
    <3>2. pipe[i + 1].number = Len(input) + (i + 1)
      BY <3>1 DEF InFlight
    <3> QED
      BY <2>4, <3>1, <3>2
  <2> QED
    BY <2>2, <2>5, <2>6 DEF InFlight
<1> QED
  BY <1>2, <1>8, <1>10, <1>12, <1>13 DEF Moving

(* The numbers of the blocks in flight run up to the last one submitted. *)
LEMMA Numbers ==
  ASSUME Contents, Control, InFlight
  PROVE  /\ Len(input) \in 0..blocks
         /\ \A i \in DOMAIN pipe : pipe[i].number \in 1..blocks
         /\ wr = "write" => data[wbuf].number \in 1..blocks
         /\ \A i \in DOMAIN queue : data[queue[i]].number \in 1..blocks
<1>1. /\ Len(input) \in Nat /\ Len(pipe) \in Nat /\ Len(queue) \in Nat
      /\ DOMAIN pipe = 1 .. Len(pipe) /\ DOMAIN queue = 1 .. Len(queue)
  BY DEF Contents
<1> QED
  BY <1>1 DEF InFlight, Taken, Written, Contents

LEMMA AccountedKept ==
  ASSUME Contents, Control, Ownership, ~failed => InFlight /\ Accounted, [Next]_vars, ~failed'
  PROVE  Accounted'
<1>1. ~failed
  <2>1. CASE Moving
    BY <2>1 DEF Moving, SubmitBlock, WriterReceive, WriterGive, WriteBlock, EncoderRead
  <2> QED
    BY <2>1, Resting
<1>2. PICK total : total \in [Nat -> Nat] /\ Ledger(total)
  BY <1>1 DEF Accounted
<1>3. /\ InFlight /\ blocks \in Nat
      /\ Len(input) \in 0..blocks
      /\ \A i \in DOMAIN pipe : pipe[i].number \in 1..blocks
      /\ wr = "write" => data[wbuf].number \in 1..blocks
      /\ \A i \in DOMAIN queue : data[queue[i]].number \in 1..blocks
  BY <1>1, Numbers DEF Contents
<1>4. CASE ~Moving
  <2>1. total[blocks'] + todo' = asked'
    <3>1. CASE PushAudioFrames
      <4>1. /\ todo = 0 /\ blocks' = blocks
            /\ \E n \in Intervals : todo' = n /\ asked' = asked + n
        BY <1>1, <3>1 DEF PushAudioFrames, Control, RecorderControl
      <4>2. total[blocks] + todo = asked /\ total[blocks] \in Nat
        BY <1>2, <1>3 DEF Ledger
      <4>3. PICK n \in Nat : todo' = n /\ asked' = asked + n
        BY <4>1, AudioAssumption
      <4>4. total[blocks'] = asked
        BY <4>1, <4>2
      <4> QED
        BY <4>3, <4>4
    <3>2. CASE UNCHANGED <<todo, asked>>
      BY <1>2, <1>4, <3>2, Resting DEF Ledger
    <3> QED
      BY <1>4, <3>1, <3>2, Resting
  <2>2. Ledger(total)'
    BY <1>2, <1>4, <2>1, Resting DEF Ledger, Fits
  <2> QED
    BY <1>2, <2>2 DEF Accounted
<1>5. CASE SubmitBlock
  <2>1. PICK b \in pool : Queued(b)
    BY <1>5, SubmitQueues
  <2> DEFINE grown == [total EXCEPT ![blocks + 1] = total[blocks] + BlockSize]
  <2>2. BlockSize \in Nat /\ BlockSize <= todo
    BY BlockFits, AudioAssumption
  <2>3. total[blocks] \in Nat
    BY <1>2, <1>3
  <2>4. /\ grown \in [Nat -> Nat]
        /\ grown[blocks + 1] = total[blocks] + BlockSize
        /\ \A n \in 0..blocks : grown[n] = total[n]
    <3>1. total[blocks] + BlockSize \in Nat /\ blocks + 1 \in Nat
      BY <1>3, <2>2, <2>3
    <3>2. \A n \in 0..blocks : n \in Nat /\ n # blocks + 1
      BY <1>3
    <3>3. total \in [Nat -> Nat]
      BY <1>2
    <3> QED
      BY <3>1, <3>2, <3>3
  <2> HIDE DEF grown
  <2>5. \A n \in 1..blocks : n \in 0..blocks /\ n - 1 \in 0..blocks
    BY <1>3
  <2>6. ASSUME NEW block, block.number \in 1..blocks, Fits(total, block)
        PROVE  Fits(grown, block)
    BY <2>4, <2>5, <2>6 DEF Fits
  <2>7. grown[Len(input')] = heard'
    BY <1>2, <1>3, <2>1, <2>4 DEF Ledger, Queued
  <2>8. grown[blocks'] + todo' = asked'
    <3>1. /\ grown[blocks'] = total[blocks] + BlockSize /\ todo' = todo - BlockSize
          /\ asked' = asked /\ total[blocks] + todo = asked /\ todo \in Nat
      BY <1>2, <2>1, <2>4 DEF Queued, Ledger, Contents
    <3> QED
      BY <2>2, <2>3, <3>1
  <2>9. ASSUME NEW i \in DOMAIN pipe' PROVE Fits(grown, pipe'[i])
    BY <1>2, <1>3, <2>1, <2>6 DEF Ledger, Queued
  <2>10. ASSUME wr' = "write" PROVE Fits(grown, data'[wbuf'])
    <3>1. /\ wr = "write" /\ data'[wbuf'] = data[wbuf]
      BY <2>1, <2>10 DEF Queued, Control, WriterControl
    <3> QED
      BY <1>2, <1>3, <2>6, <3>1 DEF Ledger
  <2>11. ASSUME NEW i \in DOMAIN queue' PROVE Fits(grown, data'[queue'[i]])
    <3>1. CASE i \in DOMAIN queue
      <4>1. data'[queue'[i]] = data[queue[i]]
        BY <2>1, <3>1 DEF Queued
      <4> QED
        BY <1>2, <1>3, <2>6, <3>1, <4>1 DEF Ledger
    <3>2. CASE i = Len(queue) + 1
      <4>1. data'[queue'[i]].number = blocks + 1 /\ data'[queue'[i]].length = BlockSize
        BY <2>1, <3>2 DEF Queued
      <4>2. grown[blocks] = total[blocks] /\ (blocks + 1) - 1 = blocks
        <5>1. blocks \in Nat /\ blocks \in 0..blocks
          BY <1>3
        <5> QED
          BY <2>4, <5>1
      <4> QED
        BY <2>4, <4>1, <4>2 DEF Fits
    <3> QED
      BY <2>1, <3>1, <3>2 DEF Queued
  <2>12. \E t \in [Nat -> Nat] :
           /\ t[Len(input')] = heard' /\ t[blocks'] + todo' = asked'
           /\ \A i \in DOMAIN pipe' : Fits(t, pipe'[i])
           /\ wr' = "write" => Fits(t, data'[wbuf'])
           /\ \A i \in DOMAIN queue' : Fits(t, data'[queue'[i]])
    BY <2>4, <2>7, <2>8, <2>9, <2>10, <2>11
  <2> QED
    BY <2>12 DEF Accounted, Ledger, Fits
<1>6. CASE WriterReceive
  <2>1. TakenFromQueue
    BY <1>6, QueueHead DEF WriterReceive
  <2>2. /\ wbuf' = queue[1] /\ queue' = Tail(queue)
        /\ UNCHANGED <<todo, asked, pipe, input, heard, data, blocks>>
    BY <1>6, <2>1 DEF WriterReceive, TakenFromQueue
  <2>3. \A i \in DOMAIN queue' : Fits(total, data[queue'[i]])
    BY <1>2, <2>1, <2>2 DEF Ledger, TakenFromQueue
  <2>4. Ledger(total)'
    BY <1>2, <2>1, <2>2, <2>3 DEF Ledger, Fits, TakenFromQueue
  <2> QED
    BY <1>2, <2>4 DEF Accounted
<1>7. CASE WriteBlock
  <2>1. /\ wbuf \in Buffers /\ data[wbuf] \in Block /\ wr = "write" /\ wr' = "give"
        /\ pipe' = Append(pipe, data[wbuf])
        /\ UNCHANGED <<todo, asked, queue, data, blocks, input, heard>>
    BY <1>7 DEF WriteBlock, Control, WriterControl, Contents
  <2>2. /\ \A i \in DOMAIN pipe : pipe'[i] = pipe[i]
        /\ pipe'[Len(pipe) + 1] = data[wbuf]
        /\ \A i \in DOMAIN pipe' : i \in DOMAIN pipe \/ i = Len(pipe) + 1
    BY <2>1 DEF Contents
  <2>3. \A i \in DOMAIN pipe' : Fits(total, pipe'[i])
    BY <1>2, <2>1, <2>2 DEF Ledger
  <2>4. Ledger(total)'
    BY <1>2, <2>1, <2>3 DEF Ledger, Fits, ReadFromPipe
  <2> QED
    BY <1>2, <2>4 DEF Accounted
<1>8. CASE WriterGive
  <2>1. Ledger(total)'
    BY <1>2, <1>8 DEF WriterGive, Ledger, Fits
  <2> QED
    BY <1>2, <2>1 DEF Accounted
<1>9. CASE EncoderRead
  <2>1. ReadFromPipe
    BY <1>9, PipeHead DEF EncoderRead
  <2>2. /\ pipe' = Tail(pipe) /\ input' = Append(input, pipe[1].number)
        /\ heard' = heard + pipe[1].length
        /\ UNCHANGED <<todo, asked, queue, data, blocks, wr, wbuf>>
    BY <1>9, <2>1 DEF EncoderRead, ReadFromPipe
  <2>3. pipe[1].number = Len(input) + 1
    BY <1>3, <2>1 DEF InFlight, ReadFromPipe
  <2>4. Len(input') = Len(input) + 1 /\ Len(input) \in Nat
    BY <2>2, <2>3 DEF Contents
  <2>5. total[Len(input')] = heard'
    <3>1. total[Len(input) + 1] = total[(Len(input) + 1) - 1] + pipe[1].length
      BY <1>2, <2>1, <2>3 DEF Ledger, Fits, ReadFromPipe
    <3>2. (Len(input) + 1) - 1 = Len(input)
      BY <2>4
    <3> QED
      BY <1>2, <2>2, <2>4, <3>1, <3>2 DEF Ledger
  <2>6. \A i \in DOMAIN pipe' : Fits(total, pipe'[i])
    BY <1>2, <2>1, <2>2 DEF Ledger, ReadFromPipe
  <2>7. Ledger(total)'
    BY <1>2, <2>2, <2>5, <2>6 DEF Ledger, Fits
  <2> QED
    BY <1>2, <2>7 DEF Accounted
<1> QED
  BY <1>4, <1>5, <1>6, <1>7, <1>8, <1>9 DEF Moving

THEOREM Invariance == Spec => []Inv
<1>1. Inv /\ [Next]_vars => Inv'
  <2> SUFFICES ASSUME Inv, [Next]_vars PROVE Inv'
    OBVIOUS
  <2>1. /\ Flags /\ Contents /\ Control /\ Ownership
        /\ ~failed => InFlight /\ Accounted
    BY TypeParts DEF Inv
  <2>2. Flags' /\ Contents' /\ Control' /\ Ownership'
    BY <2>1, FlagsKept, ContentsKept, ControlKept, OwnershipKept
  <2>3. ASSUME ~failed' PROVE InFlight' /\ Accounted'
    BY <2>1, <2>3, InFlightKept, AccountedKept
  <2>4. TypeOK'
    BY <2>2 DEF TypeOK, Flags, Contents
  <2> QED
    BY <2>2, <2>3, <2>4 DEF Inv
<1> QED
  BY <1>1, InitInv, PTL DEF Spec

-----------------------------------------------------------------------------
(* Every pool buffer is free, queued or with the writer goroutine, and in   *)
(* one place only, for every size of the pool and on the error paths too    *)
(* (pushAudioBytes, the writer goroutine).                                  *)
THEOREM BuffersOwned == Spec => []OneOwner
<1>1. Inv => OneOwner
  BY DEF Inv, Ownership, OneOwner
<1> QED
  BY <1>1, Invariance, PTL

(* When the audio half ends well its four queues are empty. *)
LEMMA DrainedAtEnd ==
  ASSUME Inv, rec \in {"wait", "stopped"}, ~failed, enc = "finished"
  PROVE  Len(input) = blocks /\ heard = asked
<1>1. /\ wr = "done" /\ queue = <<>> /\ pipe = <<>> /\ todo = 0
      /\ InFlight /\ Accounted /\ Contents
  BY TypeParts DEF Inv, Control, RecorderControl, WriterControl, EncoderControl
<1>2. Len(input) = blocks
  BY <1>1 DEF InFlight, Taken, Written, Contents
<1>3. PICK total \in [Nat -> Nat] : Ledger(total)
  BY <1>1 DEF Accounted
<1> QED
  BY <1>1, <1>2, <1>3 DEF Ledger, Contents

(* When stopAudio reports success the encoder has read every sample frame   *)
(* of every interval, whatever the intervals and the block size.            *)
THEOREM GoodIsComplete == Spec => []SuccessIsComplete
<1>1. Inv => SuccessIsComplete
  BY DrainedAtEnd DEF Inv, Control, EncoderControl, SuccessIsComplete
<1> QED
  BY <1>1, Invariance, PTL

(* The audio half implements the abstract encoder feed: a queued block is   *)
(* submitted, the encoder's read delivers it, a failed write breaks the     *)
(* feed, the end of stopAudio is its verdict.                               *)
THEOREM ImplementsFeed == Spec => FeedSpec
<1>1. Init => Feed!Init
  BY DEF Init, Feed!Init
<1>2. Inv /\ [Next]_vars => [Feed!Next]_(Feed!feedVars)
  <2> SUFFICES ASSUME Inv, [Next]_vars
               PROVE  Feed!Next \/ UNCHANGED Feed!feedVars
    OBVIOUS
  <2> USE DEF Feed!feedVars
  <2>0. Flags /\ Contents /\ Control /\ (~failed => InFlight)
    BY TypeParts DEF Inv
  <2>1. CASE SubmitBlock
    <3>1. /\ result = "none" /\ blocks' = blocks + 1
          /\ UNCHANGED <<input, failed, result>>
      BY <2>0, <2>1 DEF SubmitBlock, Control, RecorderControl
    <3> QED
      BY <3>1 DEF Feed!Next, Feed!Submit
  <2>2. CASE EncoderRead
    <3>1. enc = "running" /\ ~failed /\ pipe # <<>>
      BY <2>0, <2>2 DEF EncoderRead, Control, EncoderControl
    <3>2. result = "none"
      BY <2>0, <3>1 DEF Control, RecorderControl
    <3>3. /\ Head(pipe) = pipe[1] /\ 1 \in DOMAIN pipe /\ Len(pipe) \in Nat /\ Len(pipe) > 0
      BY <2>0, <3>1, QueueRemove DEF Contents
    <3>4. pipe[1].number = Len(input) + 1 /\ Len(input) < blocks
      BY <2>0, <3>1, <3>3 DEF InFlight, Taken, Written, Contents
    <3>5. input' = Append(input, Len(input) + 1) /\ UNCHANGED <<blocks, failed, result>>
      BY <2>2, <3>3, <3>4 DEF EncoderRead
    <3> QED
      BY <3>1, <3>2, <3>4, <3>5 DEF Feed!Next, Feed!Deliver
  <2>3. CASE WriteFails
    <3>1. wr = "write" /\ failed' = TRUE /\ UNCHANGED <<blocks, input, result>>
      BY <2>3 DEF WriteFails
    <3>2. result = "none"
      BY <2>0, <3>1 DEF Control, RecorderControl
    <3> QED
      BY <3>1, <3>2 DEF Feed!Next, Feed!Break
  <2>4. CASE WaitEncoder
    <3>1. /\ rec = "wait" /\ result = "none" /\ enc # "running"
          /\ UNCHANGED <<blocks, input, failed>>
      BY <2>0, <2>4 DEF WaitEncoder, Control, RecorderControl
    <3>2. CASE StopError
      BY <2>4, <3>1, <3>2 DEF WaitEncoder, Feed!Next, Feed!Stop
    <3>3. CASE ~StopError
      <4>1. result' = "ok" /\ ~failed /\ enc = "finished"
        BY <2>0, <2>4, <3>1, <3>3 DEF WaitEncoder, StopError, Contents
      <4>2. Len(input) = blocks
        BY <3>1, <4>1, DrainedAtEnd
      <4> QED
        BY <3>1, <4>1, <4>2 DEF Feed!Next, Feed!Stop
    <3> QED
      BY <3>2, <3>3
  <2>5. CASE UNCHANGED vars
    BY <2>5 DEF vars
  <2>6. CASE Next /\ ~(SubmitBlock \/ EncoderRead \/ WriteFails \/ WaitEncoder)
    BY <2>6 DEF Next, Recorder, Writer, Encoder, Terminated, PushAudioFrames, RefuseBlock,
       AfterBlock, StopAudio, JoinWriter, WriterReceive, WriterEnd, WriteBlock, WriterGive,
       EncoderFinish, EncoderDie, vars
  <2> QED
    BY <2>1, <2>2, <2>3, <2>4, <2>5, <2>6
<1> QED
  BY <1>1, <1>2, Invariance, PTL DEF Spec, FeedSpec, Feed!Spec
============================================================================
