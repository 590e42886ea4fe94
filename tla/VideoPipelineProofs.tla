------------------------ MODULE VideoPipelineProofs ------------------------
(***************************************************************************)
(* What holds of the video pipeline for every number of buffers and every  *)
(* recording length: type correctness, the ownership of the buffers, the   *)
(* order of the frames in flight, and that the pipeline implements the     *)
(* abstract encoder feed.                                                  *)
(*                                                                         *)
(* OneOwner and InFlight are not inductive alone: they need the control    *)
(* facts below (which positions of recorder, writer and encoder can meet). *)
(***************************************************************************)
EXTENDS VideoPipeline, Integers, FiniteSetTheorems, TLAPS

-----------------------------------------------------------------------------
(* Channels: taking from the head and adding at the end of a sequence without *)
(* repetitions.                                                              *)

(* A send to a channel, or an append to a slice: one element joins.         *)
LEMMA QueueAppend ==
  ASSUME NEW S, NEW q \in Seq(S), NEW x \in S
  PROVE  /\ Append(q, x) \in Seq(S)
         /\ Len(Append(q, x)) = Len(q) + 1
         /\ \A i \in DOMAIN q : Append(q, x)[i] = q[i]
         /\ Append(q, x)[Len(q) + 1] = x
         /\ ToSet(Append(q, x)) = ToSet(q) \cup {x}
         /\ IsInjective(q) /\ x \notin ToSet(q) => IsInjective(Append(q, x))
<1>1. /\ Append(q, x) \in Seq(S)
      /\ Len(Append(q, x)) = Len(q) + 1
      /\ \A i \in DOMAIN q : Append(q, x)[i] = q[i]
      /\ Append(q, x)[Len(q) + 1] = x
      /\ DOMAIN Append(q, x) = 1 .. Len(q) + 1
      /\ DOMAIN q = 1 .. Len(q)
      /\ Len(q) \in Nat
  OBVIOUS
<1>2. ToSet(Append(q, x)) = ToSet(q) \cup {x}
  BY <1>1 DEF ToSet
<1>3. ASSUME IsInjective(q), x \notin ToSet(q)
      PROVE  IsInjective(Append(q, x))
  BY <1>1, <1>3 DEF IsInjective, ToSet
<1> QED
  BY <1>1, <1>2, <1>3

(* A receive: the head leaves, the rest keeps its order.                    *)
LEMMA QueueRemove ==
  ASSUME NEW S, NEW q \in Seq(S), q # <<>>
  PROVE  /\ Head(q) \in S /\ Tail(q) \in Seq(S)
         /\ Len(q) > 0 /\ Len(Tail(q)) = Len(q) - 1
         /\ Head(q) = q[1] /\ 1 \in DOMAIN q
         /\ \A i \in DOMAIN Tail(q) : i + 1 \in DOMAIN q /\ Tail(q)[i] = q[i + 1]
         /\ ToSet(q) = ToSet(Tail(q)) \cup {Head(q)}
         /\ IsInjective(q) => IsInjective(Tail(q)) /\ Head(q) \notin ToSet(Tail(q))
<1>1. /\ Head(q) \in S /\ Tail(q) \in Seq(S)
      /\ Len(q) \in Nat /\ Len(q) > 0 /\ Len(Tail(q)) = Len(q) - 1
      /\ Head(q) = q[1] /\ DOMAIN q = 1 .. Len(q)
      /\ DOMAIN Tail(q) = 1 .. Len(q) - 1
      /\ \A i \in DOMAIN Tail(q) : Tail(q)[i] = q[i + 1]
  OBVIOUS
<1>2. /\ 1 \in DOMAIN q
      /\ \A i \in DOMAIN Tail(q) : i + 1 \in DOMAIN q
      /\ \A j \in DOMAIN q : j = 1 \/ j - 1 \in DOMAIN Tail(q)
  BY <1>1
<1>3. ToSet(q) \subseteq ToSet(Tail(q)) \cup {Head(q)}
  <2> SUFFICES ASSUME NEW j \in DOMAIN q
               PROVE  q[j] \in ToSet(Tail(q)) \cup {Head(q)}
    BY DEF ToSet
  <2>1. CASE j = 1
    BY <2>1, <1>1
  <2>2. CASE j # 1
    <3>1. j - 1 \in DOMAIN Tail(q) /\ j \in Int
      BY <1>1, <1>2, <2>2
    <3>2. Tail(q)[j - 1] = q[j]
      BY <1>1, <3>1
    <3> QED
      BY <3>1, <3>2 DEF ToSet
  <2> QED
    BY <2>1, <2>2
<1>4. ToSet(Tail(q)) \cup {Head(q)} \subseteq ToSet(q)
  BY <1>1, <1>2 DEF ToSet
<1>5. ASSUME IsInjective(q)
      PROVE  IsInjective(Tail(q)) /\ Head(q) \notin ToSet(Tail(q))
  <2>1. \A i, j \in DOMAIN Tail(q) : Tail(q)[i] = Tail(q)[j] => i = j
    BY <1>1, <1>2, <1>5 DEF IsInjective
  <2>2. \A i \in DOMAIN Tail(q) : Tail(q)[i] # Head(q)
    BY <1>1, <1>2, <1>5 DEF IsInjective
  <2> QED
    BY <2>1, <2>2 DEF IsInjective, ToSet
<1> QED
  BY <1>1, <1>2, <1>3, <1>4, <1>5

(* A channel with one place per buffer cannot be full while some buffer is  *)
(* elsewhere.                                                               *)
LEMMA QueueRoom ==
  ASSUME NEW S, IsFiniteSet(S), NEW q \in Seq(S), IsInjective(q),
         NEW x \in S, x \notin ToSet(q)
  PROVE  Len(q) < Cardinality(S)
<1> DEFINE T == S \ {x}
<1>1. /\ Len(q) \in Nat /\ DOMAIN q = 1 .. Len(q)
      /\ \A i \in 1 .. Len(q) : q[i] \in T
      /\ q \in [1 .. Len(q) -> T]
  BY DEF ToSet
<1>2. q \in Injection(1 .. Len(q), T)
  BY <1>1 DEF Injection, IsInjective
<1>3. /\ IsFiniteSet(T) /\ Cardinality(T) = Cardinality(S) - 1
      /\ Cardinality(S) \in Nat
  BY FS_RemoveElement, FS_CardinalityType
<1>4. Cardinality(1 .. Len(q)) <= Cardinality(T)
  BY <1>2, <1>3, FS_Injection
<1>5. Cardinality(1 .. Len(q)) = Len(q)
  <2>1. 1 \in Int /\ Len(q) \in Int
    BY <1>1
  <2>2. Cardinality(1 .. Len(q)) = IF 1 > Len(q) THEN 0 ELSE Len(q) - 1 + 1
    BY <2>1, FS_Interval, Zenon
  <2> QED
    BY <1>1, <2>2
<1> QED
  BY <1>1, <1>3, <1>4, <1>5

(* Where the recorder stands decides what is left to drain.                 *)
RecorderControl ==
  /\ rec \notin Checking => held = None
  /\ queueOpen <=> rec \notin {"join", "wait", "stopped"}
  /\ rec \in {"close", "join", "wait", "stopped"} /\ ~failed /\ ~readErr
       => readQ = <<>>
  /\ rec \in {"wait", "stopped"} => wr = "done"
  /\ rec = "stopped" => enc # "running"
  /\ rec # "stopped" => result = "none"
  /\ rec \in {"first", "take"} => frames < MaxFrames

(* Where the writer goroutine stands decides what it holds.                 *)
WriterControl ==
  /\ wr \in {"write", "give"} => wbuf \in PBOs
  /\ wr \in {"recv", "done"} => wbuf = None
  /\ wr = "done" => ~queueOpen /\ writeQ = <<>>
  /\ writeFailed <=> failed
  /\ wr = "write" => ~failed

(* The encoder stops reading only when it died or its input ended.          *)
EncoderControl ==
  /\ failed => enc # "running"
  /\ ~pipeOpen => failed \/ rec \in {"wait", "stopped"}
  /\ enc = "finished" => ~pipeOpen
  /\ result = "ok" => /\ rec = "stopped"
                      /\ ~failed /\ ~readErr /\ enc = "finished"

Control == RecorderControl /\ WriterControl /\ EncoderControl

(* The inductive invariant.                                                 *)
Inv == TypeOK /\ OneOwner /\ InFlight /\ Control

LEMMA InitInv == Init => Inv
<1> SUFFICES ASSUME Init PROVE Inv
  OBVIOUS
<1>1. TypeOK
  <2>1. RecorderType
    BY BoundsAssumption DEF Init, RecorderType, Checking
  <2>2. BuffersType
    BY BoundsAssumption DEF Init, BuffersType
  <2>3. WriterType
    BY DEF Init, WriterType
  <2>4. FlagsType
    BY Zenon DEF Init, FlagsType
  <2> QED
    BY <2>1, <2>2, <2>3, <2>4 DEF TypeOK
<1>2. OneOwner
  BY PBOsAssumption DEF Init, OneOwner, ToSet, IsInjective
<1>3. InFlight
  BY DEF Init, InFlight, BeingWritten, InHand, FirstQueued, FirstRead
<1>4. Control
  BY DEF Init, Control, RecorderControl, WriterControl, EncoderControl, Checking
<1> QED
  BY <1>1, <1>2, <1>3, <1>4 DEF Inv

-----------------------------------------------------------------------------
(* Steps that move no buffer and no frame.                                  *)

LEMMA KeptOwner ==
  ASSUME OneOwner, UNCHANGED <<held, wbuf, free, readQ, writeQ>>
  PROVE  OneOwner'
BY DEF OneOwner, ToSet, IsInjective

LEMMA KeptInFlight ==
  ASSUME InFlight, UNCHANGED <<held, route, readQ, writeQ, data, frames>>,
         UNCHANGED <<input, failed, wbuf>>, wr' = "write" <=> wr = "write"
  PROVE  InFlight'
BY DEF InFlight, BeingWritten, InHand, FirstQueued, FirstRead

LEMMA StutterInv == ASSUME Inv, UNCHANGED vars PROVE Inv'
<1> USE DEF vars, recVars, bufVars, writVars, encVars
<1>1. OneOwner'
  BY KeptOwner DEF Inv
<1>2. InFlight'
  BY KeptInFlight DEF Inv
<1>3. TypeOK'
  <2>1. RecorderType' /\ BuffersType' /\ WriterType'
    BY DEF Inv, TypeOK, RecorderType, BuffersType, WriterType, Checking
  <2>2. FlagsType'
    BY Zenon DEF Inv, TypeOK, FlagsType
  <2> QED
    BY <2>1, <2>2 DEF TypeOK
<1>4. Control'
  BY DEF Inv, Control, RecorderControl, WriterControl, EncoderControl, Checking
<1> QED
  BY <1>1, <1>2, <1>3, <1>4 DEF Inv

(* The recorder's own steps: starting and ending checkData, an aborted or   *)
(* finished recording, the stages of stopVideo.                             *)
RecorderMoves == \/ BeginFrame \/ AbortRecording \/ FinishRecording
                 \/ CheckReturn \/ FenceWaitFails \/ TakeBufferFails
                 \/ CloseQueue \/ JoinWriter \/ WaitEncoder

LEMMA RecorderMovesInv == ASSUME Inv, RecorderMoves PROVE Inv'
<1> USE DEF bufVars, writVars, encVars, AbortTo
<1>0. /\ UNCHANGED <<held, route, frames>> /\ UNCHANGED bufVars
      /\ UNCHANGED writVars /\ UNCHANGED encVars
  BY DEF RecorderMoves, BeginFrame, AbortRecording, FinishRecording,
         CheckReturn, FenceWaitFails, TakeBufferFails, CloseQueue, JoinWriter,
         WaitEncoder
<1>1. OneOwner'
  BY <1>0, KeptOwner DEF Inv
<1>2. InFlight'
  BY <1>0, KeptInFlight DEF Inv
<1>3. BuffersType' /\ WriterType'
  BY <1>0 DEF Inv, TypeOK, BuffersType, WriterType
<1>4. RecorderType'
  BY <1>0 DEF Inv, TypeOK, RecorderType, Checking, RecorderMoves, BeginFrame,
         AbortRecording, FinishRecording, CheckReturn, FenceWaitFails,
         TakeBufferFails, CloseQueue, JoinWriter, WaitEncoder
<1>5. FlagsType'
  BY <1>0 DEF Inv, TypeOK, FlagsType, RecorderMoves, BeginFrame, AbortRecording,
         FinishRecording, CheckReturn, FenceWaitFails, TakeBufferFails,
         CloseQueue, JoinWriter, WaitEncoder
<1>6. Control'
  <2> USE <1>0 DEF Inv, Control, RecorderControl, WriterControl, EncoderControl,
          Checking, TypeOK, FlagsType, RecorderType, WriterType
  <2>1. CASE BeginFrame \/ AbortRecording \/ FinishRecording
    BY <2>1 DEF BeginFrame, AbortRecording, FinishRecording
  <2>2. CASE CheckReturn
    BY <2>2 DEF CheckReturn, Waits
  <2>3. CASE FenceWaitFails
    BY <2>3 DEF FenceWaitFails
  <2>4. CASE TakeBufferFails
    BY <2>4 DEF TakeBufferFails
  <2>5. CASE CloseQueue
    BY <2>5 DEF CloseQueue
  <2>6. CASE JoinWriter
    BY <2>6 DEF JoinWriter, WriterJoined
  <2>7. CASE WaitEncoder
    BY <2>7 DEF WaitEncoder, StopError
  <2> QED
    BY <2>1, <2>2, <2>3, <2>4, <2>5, <2>6, <2>7 DEF RecorderMoves
<1> QED
  BY <1>1, <1>2, <1>3, <1>4, <1>5, <1>6 DEF Inv, TypeOK

(* The GPU, the end of the writer goroutine and the encoder process.        *)
OthersMove == SignalFence \/ WriterEnd \/ WriteFails \/ Encoder

LEMMA OthersMoveInv == ASSUME Inv, OthersMove PROVE Inv'
<1> USE DEF recVars, bufVars, writVars, encVars
<1>0. /\ UNCHANGED recVars /\ UNCHANGED <<free, readQ, writeQ, data>>
      /\ UNCHANGED <<wbuf, queueOpen, input, result>>
  BY DEF OthersMove, SignalFence, WriterEnd, WriteFails, Encoder, EncoderFinish,
         EncoderDie
<1>1. OneOwner'
  BY <1>0, KeptOwner DEF Inv
<1>2. InFlight'
  <2>1. CASE WriteFails
    BY <1>0, <2>1 DEF WriteFails, Inv, InFlight, BeingWritten, InHand,
                      FirstQueued, FirstRead
  <2>2. CASE SignalFence \/ WriterEnd \/ Encoder
    <3>1. failed' = failed /\ (wr' = "write" <=> wr = "write")
      BY <2>2 DEF SignalFence, WriterEnd, Encoder, EncoderFinish, EncoderDie
    <3> QED
      BY <1>0, <3>1, KeptInFlight DEF Inv
  <2> QED
    BY <2>1, <2>2 DEF OthersMove
<1>3. RecorderType' /\ BuffersType' /\ WriterType'
  BY <1>0 DEF Inv, TypeOK, RecorderType, BuffersType, WriterType, OthersMove,
         SignalFence, WriterEnd, WriteFails, AfterFailedWrite, Encoder,
         EncoderFinish, EncoderDie, Checking
<1>4. FlagsType'
  BY <1>0 DEF Inv, TypeOK, FlagsType, OthersMove, SignalFence, WriterEnd,
         WriteFails, Encoder, EncoderFinish, EncoderDie
<1>5. Control'
  <2> USE <1>0 DEF Inv, Control, RecorderControl, WriterControl, EncoderControl,
          TypeOK, FlagsType, Checking
  <2>1. CASE SignalFence
    BY <2>1 DEF SignalFence
  <2>2. CASE WriterEnd
    BY <2>2 DEF WriterEnd
  <2>3. CASE WriteFails
    BY <2>3 DEF WriteFails, AfterFailedWrite
  <2>4. CASE Encoder
    BY <2>4 DEF Encoder, EncoderFinish, EncoderDie
  <2> QED
    BY <2>1, <2>2, <2>3, <2>4 DEF OthersMove
<1> QED
  BY <1>1, <1>2, <1>3, <1>4, <1>5 DEF Inv, TypeOK

-----------------------------------------------------------------------------
(* Steps that move a buffer.                                                *)

(* checkData takes the oldest read-back buffer.                             *)
LEMMA CheckTakeInv == ASSUME Inv, CheckTake PROVE Inv'
<1> USE DEF writVars, encVars
<1> DEFINE p == Head(readQ)
<1>0. TypeOK /\ OneOwner /\ InFlight /\ Control /\ readQ # <<>>
  BY DEF Inv, CheckTake
<1>1. /\ p \in PBOs /\ Tail(readQ) \in Seq(PBOs)
      /\ Len(readQ) > 0 /\ Len(Tail(readQ)) = Len(readQ) - 1
      /\ p = readQ[1] /\ 1 \in DOMAIN readQ
      /\ \A i \in DOMAIN Tail(readQ) : /\ i + 1 \in DOMAIN readQ
                                       /\ Tail(readQ)[i] = readQ[i + 1]
      /\ ToSet(readQ) = ToSet(Tail(readQ)) \cup {p}
      /\ IsInjective(readQ) => IsInjective(Tail(readQ)) /\ p \notin ToSet(Tail(readQ))
  BY <1>0, QueueRemove DEF TypeOK, BuffersType
<1>2. /\ held = None /\ held' = p /\ readQ' = Tail(readQ)
      /\ p # None /\ ready > 0 /\ ready' = ready - 1
      /\ UNCHANGED <<rec, onMain, waitFirst, readErr, aborted, frames, free>>
      /\ UNCHANGED <<writeQ, data, queueOpen, writVars, pipeOpen, encVars, result>>
  BY <1>1, PBOsAssumption DEF CheckTake, FencesLeft
<1>3. route' = IF failed THEN "free" ELSE "write"
  BY DEF CheckTake, RouteOf
<1>4. OneOwner'
  BY <1>0, <1>1, <1>2 DEF OneOwner
<1>5. InFlight'
  <2>1. /\ Len(readQ) \in Nat /\ Len(writeQ) \in Nat /\ Len(input) \in Nat
        /\ DOMAIN readQ = 1 .. Len(readQ)
        /\ DOMAIN readQ' = 1 .. Len(readQ) - 1
        /\ FirstQueued \in Nat
    BY <1>0, <1>1, <1>2 DEF TypeOK, BuffersType, WriterType, FirstQueued, BeingWritten
  <2>2. FirstQueued' = FirstQueued
    BY <1>2 DEF FirstQueued, BeingWritten
  <2>3. /\ FirstRead = FirstQueued + Len(writeQ)
        /\ FirstRead' = FirstRead + 1
    BY <1>2, <2>1, <2>2 DEF FirstRead, InHand
  <2>4. ASSUME ~failed'
        PROVE  /\ wr' = "write" => data'[wbuf'] = Len(input') + 1
               /\ \A i \in DOMAIN writeQ' : data'[writeQ'[i]] = FirstQueued' + i
    BY <1>0, <1>2, <2>2, <2>4 DEF InFlight
  <2>5. ASSUME ~failed'
        PROVE  route' = "write" /\ data'[held'] = FirstRead'
    BY <1>0, <1>1, <1>2, <1>3, <2>3, <2>5 DEF InFlight
  <2>6. ASSUME ~failed', NEW i \in DOMAIN readQ'
        PROVE  data'[readQ'[i]] = FirstRead' + i
    <3>1. readQ'[i] = readQ[i + 1] /\ i + 1 \in DOMAIN readQ /\ i \in Nat
      BY <1>1, <1>2, <2>1, <2>6
    <3>2. data[readQ[i + 1]] = FirstRead + (i + 1)
      BY <1>0, <1>2, <2>6, <3>1 DEF InFlight
    <3> QED
      BY <1>2, <2>1, <2>3, <3>1, <3>2
  <2>7. ASSUME ~failed'
        PROVE  frames' = FirstRead' + Len(readQ')
    BY <1>0, <1>1, <1>2, <2>1, <2>3, <2>7 DEF InFlight
  <2>8. \A i \in DOMAIN input' : input'[i] = i
    BY <1>0, <1>2 DEF InFlight
  <2> QED
    BY <2>4, <2>5, <2>6, <2>7, <2>8 DEF InFlight
<1>6. TypeOK'
  <2>1. RecorderType' /\ BuffersType' /\ WriterType'
    BY <1>0, <1>1, <1>2, <1>3 DEF TypeOK, RecorderType, BuffersType, WriterType
  <2>2. FlagsType'
    BY <1>0, <1>2 DEF TypeOK, FlagsType
  <2> QED
    BY <2>1, <2>2 DEF TypeOK
<1>7. Control'
  BY <1>0, <1>2 DEF Control, RecorderControl, WriterControl, EncoderControl,
     CheckTake, Checking
<1> QED
  BY <1>4, <1>5, <1>6, <1>7 DEF Inv

(* checkData sends it on: to the writer, or back to the pool after a        *)
(* failure.                                                                 *)
LEMMA CheckSendInv == ASSUME Inv, CheckSend PROVE Inv'
<1> USE DEF writVars, encVars
<1>0. TypeOK /\ OneOwner /\ InFlight /\ Control /\ held # None /\ held \in PBOs
  BY DEF Inv, CheckSend, TypeOK, RecorderType
<1>1. /\ held' = None
      /\ UNCHANGED <<rec, onMain, route, readErr, aborted, frames, readQ, ready>>
      /\ UNCHANGED <<data, queueOpen, writVars, pipeOpen, encVars, result>>
  BY DEF CheckSend
<1>2. Control'
  BY <1>0, <1>1 DEF Control, RecorderControl, WriterControl, EncoderControl,
     CheckSend, Checking
<1>3. CASE route = "free"
  <2>1. free' = free \cup {held} /\ UNCHANGED writeQ /\ waitFirst' = FALSE
    BY <1>3 DEF CheckSend, Recycled
  <2>2. OneOwner'
    BY <1>0, <1>1, <2>1 DEF OneOwner, ToSet, IsInjective
  <2>3. failed
    BY <1>0, <1>3 DEF InFlight
  <2>4. InFlight'
    BY <1>0, <1>1, <2>3 DEF InFlight
  <2>5. TypeOK'
    <3>1. RecorderType' /\ BuffersType' /\ WriterType'
      BY <1>0, <1>1, <2>1 DEF TypeOK, RecorderType, BuffersType, WriterType
    <3>2. FlagsType'
      BY Zenon, <1>0, <1>1, <2>1 DEF TypeOK, FlagsType
    <3> QED
      BY <3>1, <3>2 DEF TypeOK
  <2> QED
    BY <1>2, <2>2, <2>4, <2>5 DEF Inv
<1>4. CASE route = "write"
  <2>1. writeQ' = Append(writeQ, held) /\ UNCHANGED free /\ waitFirst' = FALSE
    BY <1>4 DEF CheckSend
  <2>2. /\ writeQ' \in Seq(PBOs) /\ Len(writeQ') = Len(writeQ) + 1
        /\ \A i \in DOMAIN writeQ : writeQ'[i] = writeQ[i]
        /\ writeQ'[Len(writeQ) + 1] = held
        /\ ToSet(writeQ') = ToSet(writeQ) \cup {held}
        /\ IsInjective(writeQ) /\ held \notin ToSet(writeQ) => IsInjective(writeQ')
    BY <1>0, <2>1, QueueAppend DEF TypeOK, BuffersType
  <2>3. OneOwner'
    BY <1>0, <1>1, <2>1, <2>2 DEF OneOwner
  <2>4. InFlight'
    <3>1. /\ Len(readQ) \in Nat /\ Len(writeQ) \in Nat /\ Len(input) \in Nat
          /\ DOMAIN writeQ' = 1 .. Len(writeQ) + 1 /\ DOMAIN writeQ = 1 .. Len(writeQ)
          /\ FirstQueued \in Nat /\ FirstQueued' = FirstQueued
      BY <1>0, <1>1, <2>2 DEF TypeOK, BuffersType, WriterType, FirstQueued, BeingWritten
    <3>2. FirstRead = FirstQueued + Len(writeQ) + 1 /\ FirstRead' = FirstRead
      BY <1>0, <1>1, <2>2, <3>1 DEF FirstRead, InHand
    <3>3. ASSUME ~failed', NEW i \in DOMAIN writeQ'
          PROVE  data'[writeQ'[i]] = FirstQueued' + i
      <4>1. CASE i \in DOMAIN writeQ
        BY <1>0, <1>1, <2>2, <3>1, <3>3, <4>1 DEF InFlight
      <4>2. CASE i = Len(writeQ) + 1
        BY <1>0, <1>1, <2>2, <3>1, <3>2, <3>3, <4>2 DEF InFlight
      <4> QED
        BY <3>1, <4>1, <4>2
    <3>4. ASSUME ~failed'
          PROVE  /\ wr' = "write" => data'[wbuf'] = Len(input') + 1
                 /\ \A i \in DOMAIN readQ' : data'[readQ'[i]] = FirstRead' + i
                 /\ frames' = FirstRead' + Len(readQ')
      BY <1>0, <1>1, <3>2, <3>4 DEF InFlight
    <3>5. \A i \in DOMAIN input' : input'[i] = i
      BY <1>0, <1>1 DEF InFlight
    <3> QED
      BY <1>1, <3>3, <3>4, <3>5 DEF InFlight
  <2>5. TypeOK'
    <3>1. RecorderType' /\ BuffersType' /\ WriterType'
      BY <1>0, <1>1, <2>1, <2>2 DEF TypeOK, RecorderType, BuffersType, WriterType
    <3>2. FlagsType'
      BY Zenon, <1>0, <1>1, <2>1 DEF TypeOK, FlagsType
    <3> QED
      BY <3>1, <3>2 DEF TypeOK
  <2> QED
    BY <1>2, <2>3, <2>4, <2>5 DEF Inv
<1> QED
  BY <1>3, <1>4 DEF CheckSend

(* makeFrame starts the read-back of the next frame into a free buffer.     *)
LEMMA TakeBufferInv == ASSUME Inv, TakeBuffer PROVE Inv'
<1> USE DEF writVars, encVars
<1>0. TypeOK /\ OneOwner /\ InFlight /\ Control
  BY DEF Inv
<1>1. PICK p \in free : /\ free' = free \ {p}
                        /\ data' = [data EXCEPT ![p] = frames + 1]
                        /\ readQ' = Append(readQ, p)
  BY DEF TakeBuffer, Available
<1>2. /\ rec = "take" /\ ~failed /\ rec' = "second" /\ waitFirst' = FALSE
      /\ frames' = frames + 1
      /\ UNCHANGED <<onMain, held, route, readErr, aborted, ready, writeQ>>
      /\ UNCHANGED <<queueOpen, writVars, pipeOpen, encVars, result>>
  BY DEF TakeBuffer
<1>3. /\ p \in PBOs /\ held = None /\ p # wbuf /\ p \notin ToSet(readQ)
      /\ p \notin ToSet(writeQ)
  BY <1>0, <1>2, PBOsAssumption DEF OneOwner, Control, RecorderControl, Checking,
     TypeOK, BuffersType
<1>4. /\ readQ' \in Seq(PBOs) /\ Len(readQ') = Len(readQ) + 1
      /\ \A i \in DOMAIN readQ : readQ'[i] = readQ[i]
      /\ readQ'[Len(readQ) + 1] = p
      /\ ToSet(readQ') = ToSet(readQ) \cup {p}
      /\ IsInjective(readQ) => IsInjective(readQ')
  BY <1>0, <1>1, <1>3, QueueAppend DEF TypeOK, BuffersType
<1>5. /\ Len(readQ) \in Nat /\ Len(writeQ) \in Nat /\ Len(input) \in Nat
      /\ DOMAIN readQ = 1 .. Len(readQ) /\ DOMAIN readQ' = 1 .. Len(readQ) + 1
      /\ FirstQueued \in Nat /\ FirstQueued' = FirstQueued
      /\ FirstRead = FirstQueued + Len(writeQ) /\ FirstRead' = FirstRead
  BY <1>0, <1>2, <1>3, <1>4 DEF TypeOK, BuffersType, WriterType, FirstQueued,
     FirstRead, BeingWritten, InHand
<1>6. frames = FirstRead + Len(readQ)
  BY <1>0, <1>2 DEF InFlight
<1>7. /\ data'[p] = frames + 1
      /\ \A b \in PBOs : b # p => data'[b] = data[b]
  BY <1>0, <1>1, <1>3 DEF TypeOK, BuffersType
<1>8. OneOwner'
  BY <1>0, <1>1, <1>2, <1>3, <1>4 DEF OneOwner
<1>9. InFlight'
  <2>1. wr' = "write" => data'[wbuf'] = Len(input') + 1
    BY <1>0, <1>2, <1>3, <1>7 DEF InFlight, Control, WriterControl
  <2>2. ASSUME NEW i \in DOMAIN writeQ'
        PROVE  data'[writeQ'[i]] = FirstQueued' + i
    <3>1. writeQ[i] \in PBOs /\ writeQ[i] # p
      BY <1>0, <1>2, <1>3 DEF TypeOK, BuffersType, ToSet
    <3> QED
      BY <1>0, <1>2, <1>5, <1>7, <3>1 DEF InFlight
  <2>3. ASSUME NEW i \in DOMAIN readQ'
        PROVE  data'[readQ'[i]] = FirstRead' + i
    <3>1. CASE i \in DOMAIN readQ
      <4>1. readQ[i] \in PBOs /\ readQ[i] # p
        BY <1>0, <1>3, <3>1 DEF TypeOK, BuffersType, ToSet
      <4> QED
        BY <1>0, <1>2, <1>4, <1>5, <1>7, <3>1, <4>1 DEF InFlight
    <3>2. CASE i = Len(readQ) + 1
      BY <1>4, <1>5, <1>6, <1>7, <3>2
    <3> QED
      BY <1>5, <3>1, <3>2
  <2>4. frames' = FirstRead' + Len(readQ')
    BY <1>2, <1>4, <1>5, <1>6
  <2>5. /\ \A i \in DOMAIN input' : input'[i] = i
        /\ held' = None
    BY <1>0, <1>2, <1>3 DEF InFlight
  <2> QED
    BY <2>1, <2>2, <2>3, <2>4, <2>5 DEF InFlight
<1>10. TypeOK'
  <2>1. frames + 1 \in 0..MaxFrames
    BY <1>0, <1>2, BoundsAssumption DEF Control, RecorderControl, TypeOK, RecorderType
  <2>2. RecorderType' /\ WriterType'
    BY <1>0, <1>2, <2>1 DEF TypeOK, RecorderType, WriterType, Checking
  <2>3. BuffersType'
    BY <1>0, <1>1, <1>2, <1>4, <2>1 DEF TypeOK, BuffersType
  <2>4. FlagsType'
    BY Zenon, <1>0, <1>2 DEF TypeOK, FlagsType
  <2> QED
    BY <2>2, <2>3, <2>4 DEF TypeOK
<1>11. Control'
  BY <1>0, <1>2 DEF Control, RecorderControl, WriterControl, EncoderControl, Checking
<1> QED
  BY <1>8, <1>9, <1>10, <1>11 DEF Inv

(* The writer goroutine receives a buffer.                                  *)
LEMMA WriterReceiveInv == ASSUME Inv, WriterReceive PROVE Inv'
<1> USE DEF recVars, encVars
<1> DEFINE p == Head(writeQ)
<1>0. TypeOK /\ OneOwner /\ InFlight /\ Control /\ writeQ # <<>>
  BY DEF Inv, WriterReceive
<1>1. /\ p \in PBOs /\ Tail(writeQ) \in Seq(PBOs)
      /\ Len(writeQ) > 0 /\ Len(Tail(writeQ)) = Len(writeQ) - 1
      /\ p = writeQ[1] /\ 1 \in DOMAIN writeQ
      /\ \A i \in DOMAIN Tail(writeQ) : /\ i + 1 \in DOMAIN writeQ
                                        /\ Tail(writeQ)[i] = writeQ[i + 1]
      /\ ToSet(writeQ) = ToSet(Tail(writeQ)) \cup {p}
      /\ IsInjective(writeQ) => /\ IsInjective(Tail(writeQ))
                                /\ p \notin ToSet(Tail(writeQ))
  BY <1>0, QueueRemove DEF TypeOK, BuffersType
<1>2. /\ wr = "recv" /\ wbuf' = p /\ writeQ' = Tail(writeQ)
      /\ wbuf = None /\ p # None
      /\ UNCHANGED <<recVars, free, readQ, ready, data, queueOpen>>
      /\ UNCHANGED <<writeFailed, failed, pipeOpen, encVars, result>>
  BY <1>0, <1>1, PBOsAssumption DEF WriterReceive, Control, WriterControl
<1>3. wr' = IF failed THEN "give" ELSE "write"
  BY <1>0 DEF WriterReceive, Control, WriterControl
<1>4. OneOwner'
  BY <1>0, <1>1, <1>2 DEF OneOwner
<1>5. InFlight'
  <2>1. /\ Len(readQ) \in Nat /\ Len(writeQ) \in Nat /\ Len(input) \in Nat
        /\ DOMAIN writeQ = 1 .. Len(writeQ)
        /\ DOMAIN writeQ' = 1 .. Len(writeQ) - 1
        /\ FirstQueued = Len(input)
    BY <1>0, <1>1, <1>2 DEF TypeOK, BuffersType, WriterType, FirstQueued, BeingWritten
  <2>2. ASSUME ~failed'
        PROVE  FirstQueued' = FirstQueued + 1 /\ FirstRead' = FirstRead
    BY <1>1, <1>2, <1>3, <2>1, <2>2 DEF FirstQueued, BeingWritten, FirstRead, InHand
  <2>3. ASSUME ~failed'
        PROVE  data'[wbuf'] = Len(input') + 1
    BY <1>0, <1>1, <1>2, <2>1, <2>3 DEF InFlight
  <2>4. ASSUME ~failed', NEW i \in DOMAIN writeQ'
        PROVE  data'[writeQ'[i]] = FirstQueued' + i
    <3>1. writeQ'[i] = writeQ[i + 1] /\ i + 1 \in DOMAIN writeQ /\ i \in Nat
      BY <1>1, <1>2, <2>1, <2>4
    <3>2. data[writeQ[i + 1]] = FirstQueued + (i + 1)
      BY <1>0, <1>2, <2>4, <3>1 DEF InFlight
    <3> QED
      BY <1>2, <2>1, <2>2, <2>4, <3>1, <3>2
  <2>5. ASSUME ~failed'
        PROVE  /\ held' # None => route' = "write" /\ data'[held'] = FirstRead'
               /\ \A i \in DOMAIN readQ' : data'[readQ'[i]] = FirstRead' + i
               /\ frames' = FirstRead' + Len(readQ')
    BY <1>0, <1>2, <2>2, <2>5 DEF InFlight
  <2>6. \A i \in DOMAIN input' : input'[i] = i
    BY <1>0, <1>2 DEF InFlight
  <2> QED
    BY <2>3, <2>4, <2>5, <2>6 DEF InFlight
<1>6. TypeOK'
  <2>1. RecorderType' /\ BuffersType' /\ WriterType'
    BY <1>0, <1>1, <1>2, <1>3 DEF TypeOK, RecorderType, BuffersType, WriterType
  <2>2. FlagsType'
    BY Zenon, <1>0, <1>2 DEF TypeOK, FlagsType
  <2> QED
    BY <2>1, <2>2 DEF TypeOK
<1>7. Control'
  BY <1>0, <1>1, <1>2, <1>3 DEF Control, RecorderControl, WriterControl,
     EncoderControl, TypeOK, FlagsType, Checking
<1> QED
  BY <1>4, <1>5, <1>6, <1>7 DEF Inv

(* It writes the frame to the encoder ...                                   *)
LEMMA WriteFrameInv == ASSUME Inv, WriteFrame PROVE Inv'
<1> USE DEF recVars, bufVars
<1>0. TypeOK /\ OneOwner /\ InFlight /\ Control
  BY DEF Inv
<1>1. /\ wr = "write" /\ wr' = "give" /\ enc = "running" /\ enc' = enc
      /\ input' = Append(input, data[wbuf])
      /\ UNCHANGED <<recVars, bufVars, queueOpen, wbuf, writeFailed, failed>>
      /\ UNCHANGED <<pipeOpen, result>>
  BY DEF WriteFrame
<1>2. ~failed /\ wbuf \in PBOs /\ data[wbuf] = Len(input) + 1
  BY <1>0, <1>1 DEF Control, WriterControl, InFlight
<1>3. /\ Len(readQ) \in Nat /\ Len(writeQ) \in Nat /\ Len(input) \in Nat
      /\ DOMAIN input = 1 .. Len(input) /\ data[wbuf] \in 1..MaxFrames
  BY <1>0, <1>2 DEF TypeOK, BuffersType, WriterType
<1>4. /\ input' \in Seq(1..MaxFrames) /\ Len(input') = Len(input) + 1
      /\ \A i \in DOMAIN input : input'[i] = input[i]
      /\ input'[Len(input) + 1] = Len(input) + 1
      /\ DOMAIN input' = 1 .. Len(input) + 1
  BY <1>0, <1>1, <1>2, <1>3 DEF TypeOK, WriterType
<1>5. OneOwner'
  BY <1>0, <1>1, KeptOwner
<1>6. InFlight'
  <2>1. FirstQueued' = FirstQueued /\ FirstRead' = FirstRead
    BY <1>1, <1>3, <1>4 DEF FirstQueued, FirstRead, BeingWritten, InHand
  <2>2. \A i \in DOMAIN input' : input'[i] = i
    BY <1>0, <1>3, <1>4 DEF InFlight
  <2> QED
    BY <1>0, <1>1, <1>2, <2>1, <2>2 DEF InFlight
<1>7. TypeOK'
  <2>1. RecorderType' /\ BuffersType' /\ WriterType'
    BY <1>0, <1>1, <1>4 DEF TypeOK, RecorderType, BuffersType, WriterType
  <2>2. FlagsType'
    BY Zenon, <1>0, <1>1 DEF TypeOK, FlagsType
  <2> QED
    BY <2>1, <2>2 DEF TypeOK
<1>8. Control'
  BY <1>0, <1>1, <1>2 DEF Control, RecorderControl, WriterControl, EncoderControl,
     TypeOK, FlagsType, Checking
<1> QED
  BY <1>5, <1>6, <1>7, <1>8 DEF Inv

(* ... and gives the buffer back to the pool.                               *)
LEMMA WriterGiveInv == ASSUME Inv, WriterGive PROVE Inv'
<1> USE DEF recVars, encVars
<1>0. TypeOK /\ OneOwner /\ InFlight /\ Control
  BY DEF Inv
<1>1. /\ wr = "give" /\ wr' = "recv" /\ wbuf \in PBOs /\ wbuf' = None
      /\ free' = free \cup {wbuf}
      /\ UNCHANGED <<recVars, readQ, ready, writeQ, data, queueOpen>>
      /\ UNCHANGED <<writeFailed, failed, pipeOpen, encVars, result>>
  BY <1>0 DEF WriterGive, Recycled, Control, WriterControl
<1>2. OneOwner'
  BY <1>0, <1>1, PBOsAssumption DEF OneOwner, ToSet, IsInjective
<1>3. InFlight'
  BY <1>0, <1>1 DEF InFlight, BeingWritten, InHand, FirstQueued, FirstRead
<1>4. TypeOK'
  <2>1. RecorderType' /\ BuffersType' /\ WriterType'
    BY <1>0, <1>1 DEF TypeOK, RecorderType, BuffersType, WriterType
  <2>2. FlagsType'
    BY Zenon, <1>0, <1>1 DEF TypeOK, FlagsType
  <2> QED
    BY <2>1, <2>2 DEF TypeOK
<1>5. Control'
  BY <1>0, <1>1 DEF Control, RecorderControl, WriterControl, EncoderControl,
     TypeOK, FlagsType, Checking
<1> QED
  BY <1>2, <1>3, <1>4, <1>5 DEF Inv

-----------------------------------------------------------------------------
(* The invariant, and what follows from it.                                 *)

(* Inv holds in every reachable state of the pipeline.                      *)
THEOREM Invariance == Spec => []Inv
<1>1. Init => Inv
  BY InitInv
<1>2. Inv /\ [Next]_vars => Inv'
  <2> SUFFICES ASSUME Inv, [Next]_vars PROVE Inv'
    OBVIOUS
  <2>1. CASE RecorderMoves
    BY <2>1, RecorderMovesInv
  <2>2. CASE CheckTake \/ CheckSend \/ TakeBuffer
    BY <2>2, CheckTakeInv, CheckSendInv, TakeBufferInv
  <2>3. CASE OthersMove
    BY <2>3, OthersMoveInv
  <2>4. CASE WriterReceive \/ WriteFrame \/ WriterGive
    BY <2>4, WriterReceiveInv, WriteFrameInv, WriterGiveInv
  <2>5. CASE UNCHANGED vars
    BY <2>5, StutterInv
  <2> QED
    BY <2>1, <2>2, <2>3, <2>4, <2>5 DEF Next, Recorder, Check, Writer, Encoder,
       Terminated, RecorderMoves, OthersMove
<1> QED
  BY <1>1, <1>2, PTL DEF Spec

(* The state keeps its type: no index, queue or frame number leaves its     *)
(* range, whatever the encoder and the fences do.                           *)
THEOREM TypeCorrect == Spec => []TypeOK
<1>1. Inv => TypeOK
  BY DEF Inv
<1> QED
  BY <1>1, Invariance, PTL

(* No pixel buffer is leaked or shared between startVideo, makeFrame,       *)
(* checkData and the writer goroutine, for any number of buffers.           *)
THEOREM BuffersOwned == Spec => []OneOwner
<1>1. Inv => OneOwner
  BY DEF Inv
<1> QED
  BY <1>1, Invariance, PTL

(* The frames in flight form one unbroken run up to the last frame read     *)
(* back, for recordings of any length.                                      *)
THEOREM FramesUnbroken == Spec => []InFlight
<1>1. Inv => InFlight
  BY DEF Inv
<1> QED
  BY <1>1, Invariance, PTL

(* The writer goroutine never writes to a pipe that stopVideo or a failed   *)
(* write has closed.                                                        *)
THEOREM ClosedPipeUntouched == Spec => []NoWriteAfterClose
<1>1. Inv => NoWriteAfterClose
  BY DEF Inv, Control, RecorderControl, WriterControl, EncoderControl,
     NoWriteAfterClose, TypeOK, FlagsType
<1> QED
  BY <1>1, Invariance, PTL

(* Sending a frame to videoWriteQueue never blocks the GL thread: with a    *)
(* channel place for every buffer, the one in checkData's hand leaves room. *)
THEOREM SendNeverBlocks == Spec => []SendFindsRoom
<1>1. Inv => SendFindsRoom
  <2> SUFFICES ASSUME Inv, held # None PROVE Len(writeQ) < Cardinality(PBOs)
    BY DEF SendFindsRoom, QueueCap
  <2>1. /\ writeQ \in Seq(PBOs) /\ IsInjective(writeQ)
        /\ held \in PBOs /\ held \notin ToSet(writeQ)
    BY DEF Inv, TypeOK, RecorderType, BuffersType, OneOwner
  <2> QED
    BY <2>1, PBOsAssumption, QueueRoom
<1> QED
  BY <1>1, Invariance, PTL

(* A recording that stopVideo reports as good has all its frames in the     *)
(* encoder's input.                                                         *)
THEOREM GoodIsComplete == Spec => []SuccessIsComplete
<1>1. Inv => SuccessIsComplete
  <2> SUFFICES ASSUME Inv, result = "ok" PROVE Len(input) = frames
    BY DEF SuccessIsComplete
  <2>1. rec = "stopped" /\ ~failed /\ ~readErr
    BY DEF Inv, Control, EncoderControl
  <2>2. readQ = <<>> /\ writeQ = <<>> /\ held = None /\ wr = "done"
    BY <2>1 DEF Inv, Control, RecorderControl, WriterControl, Checking
  <2>3. frames = Len(input) + 0 + 0 + 0 + 0
    BY <2>1, <2>2 DEF Inv, InFlight, FirstRead, FirstQueued, BeingWritten, InHand
  <2> QED
    BY <2>3 DEF Inv, TypeOK, WriterType
<1> QED
  BY <1>1, Invariance, PTL

(* A read-back never changes the buffer the writer goroutine is writing.    *)
THEOREM WrittenBufferStable == Spec => NoOverwriteWhileWriting
<1>1. Inv /\ [Next]_vars => [wr = "write" => data'[wbuf] = data[wbuf]]_vars
  <2> SUFFICES ASSUME Inv, Next, wr = "write" PROVE data'[wbuf] = data[wbuf]
    OBVIOUS
  <2>1. CASE TakeBuffer
    <3>1. PICK p \in free : data' = [data EXCEPT ![p] = frames + 1]
      BY <2>1 DEF TakeBuffer, Available
    <3>2. wbuf \in PBOs /\ p # wbuf
      BY PBOsAssumption DEF Inv, Control, WriterControl, OneOwner, TypeOK,
         BuffersType
    <3> QED
      BY <3>1, <3>2 DEF Inv, TypeOK, BuffersType
  <2>2. CASE ~TakeBuffer
    BY <2>2 DEF Next, Recorder, Check, Writer, Encoder, Terminated, BeginFrame,
       AbortRecording, FinishRecording, CheckTake, CheckSend, CheckReturn,
       FenceWaitFails, TakeBufferFails, CloseQueue, JoinWriter, WaitEncoder,
       SignalFence, WriterReceive, WriterEnd, WriteFrame, WriteFails, WriterGive,
       EncoderFinish, EncoderDie, vars, bufVars
  <2> QED
    BY <2>1, <2>2
<1> QED
  BY <1>1, Invariance, PTL DEF Spec, NoOverwriteWhileWriting

-----------------------------------------------------------------------------
(* The pipeline implements the abstract feed: a read-back submits the next  *)
(* block, a write delivers it, a failed write breaks the feed, the end of   *)
(* stopVideo is its verdict, and every other step is invisible.             *)
THEOREM ImplementsFeed == Spec => FeedSpec
<1>1. Init => Feed!Init
  BY DEF Init, Feed!Init
<1>2. Inv /\ [Next]_vars => [Feed!Next]_(Feed!feedVars)
  <2> SUFFICES ASSUME Inv, [Next]_vars
               PROVE  Feed!Next \/ UNCHANGED Feed!feedVars
    OBVIOUS
  <2> USE DEF Feed!feedVars
  <2>0. TypeOK /\ InFlight /\ Control
    BY DEF Inv
  <2>1. CASE TakeBuffer
    <3>1. result = "none"
      BY <2>0, <2>1 DEF TakeBuffer, Control, RecorderControl
    <3>2. frames' = frames + 1 /\ UNCHANGED <<input, failed, result>>
      BY <2>1 DEF TakeBuffer, encVars, writVars
    <3> QED
      BY <3>1, <3>2 DEF Feed!Next, Feed!Submit
  <2>2. CASE WriteFrame
    <3>1. wr = "write" /\ ~failed /\ result = "none"
      BY <2>0, <2>2 DEF WriteFrame, Control, WriterControl, RecorderControl
    <3>2. data[wbuf] = Len(input) + 1 /\ Len(input) < frames
      BY <2>0, <3>1 DEF InFlight, FirstRead, FirstQueued, BeingWritten, InHand,
         TypeOK, BuffersType, WriterType
    <3>3. input' = Append(input, Len(input) + 1)
      BY <2>2, <3>2 DEF WriteFrame
    <3>4. UNCHANGED <<frames, failed, result>>
      BY <2>2 DEF WriteFrame, recVars
    <3> QED
      BY <3>1, <3>2, <3>3, <3>4 DEF Feed!Next, Feed!Deliver
  <2>3. CASE WriteFails
    <3>1. result = "none"
      BY <2>0, <2>3 DEF WriteFails, Control, RecorderControl
    <3>2. failed' = TRUE /\ UNCHANGED <<frames, input, result>>
      BY <2>3 DEF WriteFails, recVars, encVars
    <3> QED
      BY <3>1, <3>2 DEF Feed!Next, Feed!Break
  <2>4. CASE WaitEncoder
    <3>1. rec = "wait" /\ result = "none" /\ wr = "done" /\ writeQ = <<>>
          /\ held = None
      BY <2>0, <2>4 DEF WaitEncoder, Control, RecorderControl, WriterControl, Checking
    <3>2. UNCHANGED <<frames, input, failed>>
      BY <2>4 DEF WaitEncoder, encVars, writVars
    <3>3. CASE StopError
      BY <2>4, <3>1, <3>2, <3>3 DEF WaitEncoder, Feed!Next, Feed!Stop
    <3>4. CASE ~StopError
      <4>1. result' = "ok" /\ ~failed /\ ~readErr
        BY <2>4, <3>4 DEF WaitEncoder, StopError
      <4>2. readQ = <<>>
        BY <2>0, <3>1, <4>1 DEF Control, RecorderControl
      <4>3. Len(input) = frames
        BY <2>0, <3>1, <4>1, <4>2 DEF InFlight, FirstRead, FirstQueued,
           BeingWritten, InHand, TypeOK, WriterType
      <4> QED
        BY <3>1, <3>2, <4>1, <4>3 DEF Feed!Next, Feed!Stop
    <3> QED
      BY <3>3, <3>4
  <2>5. CASE UNCHANGED vars
    BY <2>5 DEF vars, recVars, writVars, encVars
  <2>6. CASE Next /\ ~(TakeBuffer \/ WriteFrame \/ WriteFails \/ WaitEncoder)
    BY <2>6 DEF Next, Recorder, Check, Writer, Encoder, Terminated, BeginFrame,
       AbortRecording, FinishRecording, CheckTake, CheckSend, CheckReturn,
       FenceWaitFails, TakeBufferFails, CloseQueue, JoinWriter, SignalFence,
       WriterReceive, WriterEnd, WriterGive, EncoderFinish, EncoderDie, vars,
       recVars, writVars, encVars
  <2> QED
    BY <2>1, <2>2, <2>3, <2>4, <2>5, <2>6
<1> QED
  BY <1>1, <1>2, Invariance, PTL DEF Spec, FeedSpec, Feed!Spec
============================================================================
