------------------------- MODULE RecordingTimeline -------------------------
(***************************************************************************)
(* The offline clock of a recording (app/ffmpeg/timeline.go): simulation   *)
(* updates, audio, rendered source samples and encoded frames are merged   *)
(* on one integer clock of mixer samples, and mainLoopRecord walks it.     *)
(* Times are in ticks, Second of them to a second (nanoseconds in the      *)
(* code), so that the arithmetic fits TLC's integers.                      *)
(***************************************************************************)
EXTENDS Integers, Sequences

CONSTANTS
  Second,      \* ticks in a second
  MinUpdates,  \* simulation updates a second, at least (1000 in the code)
  Durations,   \* recording lengths in ticks
  OutputRates, \* encoded frames a second
  SampleRates, \* mixer samples a second
  MaxRate,     \* bound on source and sample rates (maxAudioSampleRate)
  Blurs        \* <<oversample, blendFrames>>; <<1, 1>> without motion blur

ASSUME TimelineAssumption ==
  /\ Second \in Nat \ {0} /\ MinUpdates \in Nat \ {0}
  /\ Durations \subseteq Nat
  /\ OutputRates \subseteq Nat \ {0} /\ SampleRates \subseteq 1..MaxRate
  /\ MaxRate \in Nat
  /\ Blurs \subseteq (Nat \ {0}) \X (Nat \ {0})

VARIABLES
  duration, outputRate, sampleRate, oversample, blend, \* the configuration
  nextUpdate, nextSource, finished,                    \* RecordingTimeline
  simulated,  \* mainLoopRecord's lastSimulationSample
  heard,      \* its lastAudioSample
  rendered,   \* source samples rendered
  emitted     \* output indices handed to MakeFrameDue

config == <<duration, outputRate, sampleRate, oversample, blend>>
vars == <<config, nextUpdate, nextSource, finished, simulated, heard,
          rendered, emitted>>

Never == -1  \* math.MaxInt64: no such boundary is left

(* Mutant: rounding down loses the last partial frame, or the last samples. *)
FloorMulDiv(value, multiplier, divisor) == (value * multiplier) \div divisor

CeilMulDiv(value, multiplier, divisor) ==
  (value * multiplier + divisor - 1) \div divisor
RoundedMulDiv(value, multiplier, divisor) ==
  (value * multiplier + divisor \div 2) \div divisor

Larger(a, b) == IF a < b THEN b ELSE a
Smaller(a, b) == IF a < b THEN a ELSE b
Earliest(a, b) == IF a = Never THEN b ELSE IF b = Never THEN a ELSE Smaller(a, b)

(* NewRecordingTimeline.                                                    *)
sourceRate     == outputRate * oversample
updateRate     == Larger(sourceRate, MinUpdates)
outputFrames   == CeilMulDiv(duration, outputRate, Second)
contentSamples == CeilMulDiv(duration, sampleRate, Second)
audioEndSample == CeilMulDiv(outputFrames, sampleRate, outputRate)
CenterSum      == oversample + blend - 1
phaseHalf      == CenterSum % 2

(* Mutant: the shutter opens at the frame instead of around its middle.     *)
FirstAtFrame == 0

firstOutputAt  == CenterSum \div 2
lastSourceIndex ==
  IF outputFrames = 0 THEN -1 ELSE firstOutputAt + (outputFrames - 1) * oversample

EndClock(lastSource) == Larger(audioEndSample, lastSource)

SourceSamplePosition(index) ==
  RoundedMulDiv(2 * index + phaseHalf, sampleRate, 2 * sourceRate)
endClockSample ==
  EndClock(IF outputFrames = 0 THEN 0 ELSE SourceSamplePosition(lastSourceIndex))

Init ==
  /\ duration \in Durations /\ outputRate \in OutputRates
  /\ sampleRate \in SampleRates
  /\ \E b \in Blurs : oversample = b[1] /\ blend = b[2]
  /\ sourceRate <= MaxRate
  /\ nextUpdate = 1 /\ nextSource = 0 /\ finished = FALSE
  /\ simulated = 0 /\ heard = 0 /\ rendered = 0 /\ emitted = <<>>

-----------------------------------------------------------------------------
NextUpdateSample ==
  LET s == RoundedMulDiv(nextUpdate, sampleRate, updateRate)
  IN IF s > contentSamples THEN Never ELSE s
NextSourceSample ==
  IF nextSource <= lastSourceIndex THEN SourceSamplePosition(nextSource) ELSE Never

ClockSample == Earliest(Earliest(NextUpdateSample, NextSourceSample), endClockSample)

(* Mutant: a picture is rendered before the clock is there.                 *)
SourceAhead == NextSourceSample # Never

SimulationSample(clock) == Smaller(clock, contentSamples)
AudioSample(clock) == Smaller(clock, audioEndSample)
RenderSource == NextSourceSample = ClockSample
Due == nextSource >= firstOutputAt /\ (nextSource - firstOutputAt) % oversample = 0
Finishes(clock, sources) == clock = endClockSample /\ sources > lastSourceIndex

(* RecordingTimeline.Next and the body of mainLoopRecord's loop.            *)
Step ==
  /\ ~finished
  /\ nextUpdate' = nextUpdate + (IF NextUpdateSample = ClockSample THEN 1 ELSE 0)
  /\ \/ /\ RenderSource
        /\ rendered' = rendered + 1 /\ nextSource' = nextSource + 1
        /\ emitted' = IF Due
                      THEN Append(emitted, (nextSource - firstOutputAt) \div oversample)
                      ELSE emitted
     \/ ~RenderSource /\ UNCHANGED <<rendered, nextSource, emitted>>
  /\ finished' = Finishes(ClockSample, nextSource')
  /\ simulated' = Larger(simulated, SimulationSample(ClockSample))
  /\ heard' = Larger(heard, AudioSample(ClockSample))
  /\ UNCHANGED config

Done == finished /\ UNCHANGED vars

Next == Step \/ Done
Spec == Init /\ [][Next]_vars

-----------------------------------------------------------------------------
(* Properties                                                              *)

TypeOK ==
  /\ nextUpdate \in Nat \ {0} /\ nextSource \in 0 .. lastSourceIndex + 1
  /\ finished \in BOOLEAN
  /\ simulated \in 0..contentSamples /\ heard \in 0..audioEndSample
  /\ rendered \in Nat /\ emitted \in Seq(Nat)

(* Encoded frames are numbered 0, 1, 2, ... without a gap or a repetition,  *)
(* and when the timeline ends there are exactly OutputFrames() of them:     *)
(* enough to cover the content and less than a frame too long.              *)
FrameCount ==
  /\ \A i \in DOMAIN emitted : emitted[i] = i - 1
  /\ finished => /\ Len(emitted) * Second >= duration * outputRate
                 /\ Len(emitted) * Second < duration * outputRate + Second

(* When the timeline ends, the simulation has reached the end of the        *)
(* content and the audio is as long as the video, to the sample.            *)
AudioMatchesVideo ==
  finished => /\ simulated * Second >= duration * sampleRate
              /\ heard * outputRate >= Len(emitted) * sampleRate
              /\ (heard - 1) * outputRate < Len(emitted) * sampleRate

(* Types; and the two streams that are muxed tell the same time and cover   *)
(* the recording: the frames are all there, and the audio is as long as     *)
(* they are (NewRecordingTimeline, RecordingTimeline.Next).                 *)
StreamsMatch == TypeOK /\ FrameCount /\ AudioMatchesVideo

(* "a centered-shutter timeline" (timeline.go:38): the source samples       *)
(* blended into output frame k lie evenly around the middle of its interval,*)
(* k + 1/2 frames after the start.  Counted in half source samples.         *)
CenteredShutter ==
  [][Len(emitted') > Len(emitted) =>
       LET k == emitted'[Len(emitted')]
           first == nextSource - blend + 1
       IN (2 * first + phaseHalf) + (2 * nextSource + phaseHalf)
            = 2 * oversample * (2 * k + 1)]_vars

(* The picture is rendered at its place on the clock: never before or after *)
(* the audio and the simulation have reached the source sample.             *)
RenderedInSync ==
  [][rendered' > rendered =>
       LET at == SourceSamplePosition(nextSource)
       IN /\ heard' = Smaller(at, audioEndSample)
          /\ simulated' = Smaller(at, contentSamples)]_vars
============================================================================
