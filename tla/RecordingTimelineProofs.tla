---------------------- MODULE RecordingTimelineProofs ----------------------
(***************************************************************************)
(* Proofs about RecordingTimeline, for every duration, frame rate, sample  *)
(* rate and shutter: the frames and the samples of a recording agree, each *)
(* output frame lies in the middle of its shutter, and a picture is        *)
(* rendered when the clock is at its sample.                               *)
(*                                                                         *)
(* The first part is about rounding division, which the clock is made of;  *)
(* the second about the numbers NewRecordingTimeline computes; the third   *)
(* follows the loop.                                                       *)
(***************************************************************************)
EXTENDS RecordingTimeline, TLAPS

-----------------------------------------------------------------------------
(* Rounding division.                                                      *)

(* The quotient rounded down.                                              *)
LEMMA Quotient ==
  ASSUME NEW a \in Int, NEW b \in Nat \ {0}
  PROVE  /\ a \div b \in Int
         /\ b * (a \div b) <= a /\ a < b * (a \div b) + b
BY SMT

(* A product is no larger than another when one factor is the same and     *)
(* positive and the other no larger; and it decides between them.          *)
LEMMA Scaled ==
  ASSUME NEW p \in Int, NEW q \in Int, NEW b \in Nat \ {0}
  PROVE  /\ p <= q <=> b * p <= b * q
         /\ p < q <=> b * p < b * q
<1>1. p <= q => b * p <= b * q
  BY SMT
<1>2. p < q => b * p < b * q
  BY SMT
<1> QED BY <1>1, <1>2, SMT

(* A larger dividend has no smaller quotient.                              *)
LEMMA QuotientGrows ==
  ASSUME NEW a \in Int, NEW c \in Int, NEW b \in Nat \ {0}, a <= c
  PROVE  a \div b <= c \div b
<1> DEFINE p == a \div b
           q == c \div b
<1>1. /\ p \in Int /\ q \in Int
      /\ b * p <= a /\ c < b * q + b
  BY Quotient
<1>2. b * p < b * (q + 1)
  BY <1>1, SMT
<1>3. p < q + 1
  BY <1>1, <1>2, Scaled, SMT
<1> QED BY <1>1, <1>3, SMT

(* ceilMulDiv: the least integer that is not below the fraction.           *)
LEMMA RoundedUp ==
  ASSUME NEW v \in Nat, NEW m \in Nat, NEW d \in Nat \ {0}
  PROVE  /\ CeilMulDiv(v, m, d) \in Nat
         /\ v * m <= d * CeilMulDiv(v, m, d)
         /\ d * CeilMulDiv(v, m, d) < v * m + d
<1> DEFINE a == v * m
           q == (a + d - 1) \div d
<1>1. a \in Nat
  BY SMT
<1> HIDE DEF a
<1>2. /\ q \in Int
      /\ d * q <= a + d - 1 /\ a + d - 1 < d * q + d
  BY <1>1, Quotient
<1>3. d * 0 < d * (q + 1)
  BY <1>1, <1>2, SMT
<1>4. q \in Nat
  BY <1>2, <1>3, Scaled, SMT
<1>5. CeilMulDiv(v, m, d) = q
  BY DEF CeilMulDiv, a
<1>6. a <= d * q /\ d * q < a + d
  BY <1>1, <1>2, SMT
<1> QED BY <1>4, <1>5, <1>6 DEF a

(* roundedMulDiv is a place on the clock, and later for a later index.     *)
LEMMA Rounded ==
  ASSUME NEW v \in Nat, NEW m \in Nat, NEW d \in Nat \ {0}
  PROVE  RoundedMulDiv(v, m, d) \in Nat
<1> DEFINE a == v * m
           h == d \div 2
           q == (a + h) \div d
<1>1. a \in Nat /\ h \in Nat
  BY SMT
<1> HIDE DEF a, h
<1>2. q \in Int /\ a + h < d * q + d
  BY <1>1, Quotient
<1>3. d * 0 < d * (q + 1)
  BY <1>1, <1>2, SMT
<1>4. q \in Nat
  BY <1>2, <1>3, Scaled, SMT
<1> QED BY <1>4 DEF RoundedMulDiv, a, h

LEMMA RoundedGrows ==
  ASSUME NEW v \in Nat, NEW w \in Nat, NEW m \in Nat, NEW d \in Nat \ {0},
         v <= w
  PROVE  RoundedMulDiv(v, m, d) <= RoundedMulDiv(w, m, d)
<1> DEFINE a == v * m
           c == w * m
           h == d \div 2
<1>1. a \in Nat /\ c \in Nat /\ h \in Nat /\ a <= c
  BY SMT
<1> HIDE DEF a, c, h
<1>2. (a + h) \div d <= (c + h) \div d
  BY <1>1, QuotientGrows
<1> QED BY <1>2 DEF RoundedMulDiv, a, c, h

-----------------------------------------------------------------------------
(* What NewRecordingTimeline computes from its configuration.              *)

Config ==
  /\ duration \in Nat
  /\ outputRate \in Nat \ {0} /\ sampleRate \in Nat \ {0}
  /\ oversample \in Nat \ {0} /\ blend \in Nat \ {0}

(* The frames cover the content and are less than a frame too long.        *)
LEMMA FramesCover ==
  ASSUME Config
  PROVE  /\ outputFrames \in Nat
         /\ duration * outputRate <= Second * outputFrames
         /\ Second * outputFrames < duration * outputRate + Second
BY RoundedUp, TimelineAssumption DEF Config, outputFrames

(* The samples cover the content, and no fewer would.                      *)
LEMMA SamplesCover ==
  ASSUME Config
  PROVE  /\ contentSamples \in Nat
         /\ duration * sampleRate <= Second * contentSamples
         /\ Second * contentSamples < duration * sampleRate + Second
BY RoundedUp, TimelineAssumption DEF Config, contentSamples

(* The audio is as long as the frames, to the sample.                      *)
LEMMA AudioCovers ==
  ASSUME Config
  PROVE  /\ audioEndSample \in Nat
         /\ outputFrames * sampleRate <= outputRate * audioEndSample
         /\ outputRate * audioEndSample < outputFrames * sampleRate + outputRate
BY FramesCover, RoundedUp DEF Config, audioEndSample

(* The audio is no shorter than the content: the frames are rounded up     *)
(* before the samples are.                                                 *)
LEMMA ContentHeard ==
  ASSUME Config
  PROVE  contentSamples <= audioEndSample
<1> DEFINE D == duration   R == outputRate   S == sampleRate   T == Second
           n == outputFrames   c == contentSamples   a == audioEndSample
<1>1. /\ D \in Nat /\ R \in Nat \ {0} /\ S \in Nat \ {0} /\ T \in Nat \ {0}
      /\ n \in Nat /\ c \in Nat /\ a \in Nat
  BY FramesCover, SamplesCover, AudioCovers, TimelineAssumption DEF Config
<1>2. D * R <= T * n /\ T * c < D * S + T /\ n * S <= R * a
  BY FramesCover, SamplesCover, AudioCovers
<1> HIDE DEF D, R, S, T, n, c, a
<1>3. S * (D * R) <= S * (T * n)
  <2>1. D * R \in Int /\ T * n \in Int
    BY <1>1, SMT
  <2> QED BY <1>1, <1>2, <2>1, Scaled
<1>4. T * (n * S) <= T * (R * a)
  <2>1. n * S \in Int /\ R * a \in Int
    BY <1>1, SMT
  <2> QED BY <1>1, <1>2, <2>1, Scaled
<1>5. R * (D * S) <= R * (T * a)
  <2>1. S * (D * R) = R * (D * S) /\ S * (T * n) = T * (n * S)
        /\ T * (R * a) = R * (T * a)
    BY <1>1, SMT
  <2>2. /\ S * (D * R) \in Int /\ S * (T * n) \in Int /\ T * (R * a) \in Int
    BY <1>1, SMT
  <2> QED BY <1>3, <1>4, <2>1, <2>2, SMT
<1>6. D * S <= T * a
  <2>1. D * S \in Int /\ T * a \in Int
    BY <1>1, SMT
  <2> QED BY <1>1, <1>5, <2>1, Scaled
<1>7. T * c < T * (a + 1)
  <2>1. D * S \in Int /\ T * a \in Int /\ T * c \in Int /\ T * (a + 1) = T * a + T
    BY <1>1, SMT
  <2> QED BY <1>1, <1>2, <1>6, <2>1, SMT
<1>8. c < a + 1
  BY <1>1, <1>7, Scaled, SMT
<1>9. c <= a
  BY <1>1, <1>8, SMT
<1> QED BY <1>9 DEF c, a

(* The rates, and where the centered shutter puts the first output frame.  *)
LEMMA Shutter ==
  ASSUME Config
  PROVE  /\ sourceRate \in Nat \ {0}
         /\ firstOutputAt \in Nat /\ phaseHalf \in {0, 1}
         /\ 2 * firstOutputAt + phaseHalf = oversample + blend - 1
<1>1. CenterSum \in Nat
  BY DEF Config, CenterSum
<1>2. /\ CenterSum \div 2 \in Nat /\ CenterSum % 2 \in {0, 1}
      /\ 2 * (CenterSum \div 2) + (CenterSum % 2) = CenterSum
  BY <1>1, SMT
<1>3. sourceRate \in Nat \ {0}
  BY SMT DEF Config, sourceRate
<1> QED BY <1>2, <1>3 DEF firstOutputAt, phaseHalf, CenterSum

(* Every source sample has a place on the clock, later ones no earlier.    *)
LEMMA Position ==
  ASSUME Config, NEW i \in Nat
  PROVE  SourceSamplePosition(i) \in Nat
<1>1. /\ 2 * i + phaseHalf \in Nat /\ sampleRate \in Nat
      /\ 2 * sourceRate \in Nat \ {0}
  BY Shutter DEF Config
<1> QED BY <1>1, Rounded DEF SourceSamplePosition

LEMMA PositionGrows ==
  ASSUME Config, NEW i \in Nat, NEW j \in Nat, i <= j
  PROVE  SourceSamplePosition(i) <= SourceSamplePosition(j)
<1>1. /\ 2 * i + phaseHalf \in Nat /\ 2 * j + phaseHalf \in Nat
      /\ 2 * i + phaseHalf <= 2 * j + phaseHalf
      /\ sampleRate \in Nat /\ 2 * sourceRate \in Nat \ {0}
  BY Shutter DEF Config
<1> QED BY <1>1, RoundedGrows DEF SourceSamplePosition

(* The source samples are numbered from 0 and the clock ends with the      *)
(* audio or after it.                                                      *)
LEMMA ClockEnds ==
  ASSUME Config
  PROVE  /\ lastSourceIndex \in Nat \cup {-1}
         /\ endClockSample \in Nat /\ audioEndSample <= endClockSample
<1>1. lastSourceIndex \in Nat \cup {-1} /\ (outputFrames # 0 => lastSourceIndex \in Nat)
  <2>1. outputFrames \in Nat /\ firstOutputAt \in Nat /\ oversample \in Nat
    BY FramesCover, Shutter DEF Config
  <2>2. CASE outputFrames = 0
    BY <2>2 DEF lastSourceIndex
  <2>3. CASE outputFrames # 0
    <3>1. (outputFrames - 1) * oversample \in Nat
      BY <2>1, <2>3, SMT
    <3> QED BY <2>1, <2>3, <3>1, SMT DEF lastSourceIndex
  <2> QED BY <2>2, <2>3
<1>2. endClockSample \in Nat /\ audioEndSample <= endClockSample
  <2> DEFINE last == IF outputFrames = 0 THEN 0 ELSE SourceSamplePosition(lastSourceIndex)
  <2>1. audioEndSample \in Nat
    BY AudioCovers
  <2>2. last \in Nat
    BY <1>1, Position
  <2>3. endClockSample = Larger(audioEndSample, last)
    BY DEF endClockSample, EndClock
  <2> HIDE DEF last
  <2> QED BY <2>1, <2>2, <2>3 DEF Larger
<1> QED BY <1>1, <1>2

-----------------------------------------------------------------------------
(* The clock.                                                              *)

Clocked == Config /\ nextUpdate \in Nat /\ nextSource \in Nat

LEMMA ClockType ==
  ASSUME Clocked
  PROVE  /\ NextUpdateSample \in Nat \cup {Never}
         /\ NextSourceSample \in Nat \cup {Never}
         /\ ClockSample \in Nat /\ ClockSample <= endClockSample
<1>1. NextUpdateSample \in Nat \cup {Never}
  <2>1. updateRate \in Nat \ {0}
    BY Shutter, TimelineAssumption DEF Clocked, updateRate, Larger
  <2>2. RoundedMulDiv(nextUpdate, sampleRate, updateRate) \in Nat
    BY <2>1, Rounded DEF Clocked, Config
  <2> QED BY <2>2 DEF NextUpdateSample
<1>2. NextSourceSample \in Nat \cup {Never}
  BY Position DEF Clocked, NextSourceSample
<1>3. endClockSample \in Nat
  BY ClockEnds DEF Clocked
<1> QED BY <1>1, <1>2, <1>3 DEF ClockSample, Earliest, Smaller, Never

(* A picture is rendered only while one is left, at its place.             *)
LEMMA Rendering ==
  ASSUME Clocked, RenderSource
  PROVE  /\ nextSource <= lastSourceIndex
         /\ ClockSample = SourceSamplePosition(nextSource)
BY ClockType DEF RenderSource, NextSourceSample, Never

(* The clock does not run back.                                            *)
LEMMA ClockGrows ==
  ASSUME Clocked, Clocked', Step
  PROVE  ClockSample' \in Nat /\ ClockSample <= ClockSample'
<1>1. /\ endClockSample' = endClockSample /\ lastSourceIndex' = lastSourceIndex
      /\ contentSamples' = contentSamples
      /\ sampleRate' = sampleRate /\ updateRate' = updateRate
  BY DEF Step, config, endClockSample, EndClock, lastSourceIndex, contentSamples,
         updateRate, sourceRate, outputFrames, audioEndSample, firstOutputAt,
         CenterSum, phaseHalf, SourceSamplePosition, CeilMulDiv, RoundedMulDiv, Larger
<1>2. /\ NextUpdateSample' \in Nat \cup {Never}
      /\ NextUpdateSample' # Never => ClockSample <= NextUpdateSample'
  <2> DEFINE Place(i) == RoundedMulDiv(i, sampleRate, updateRate)
  <2>1. updateRate \in Nat \ {0} /\ sampleRate \in Nat
    BY Shutter, TimelineAssumption DEF Clocked, Config, updateRate, Larger
  <2>2. nextUpdate' \in Nat /\ nextUpdate <= nextUpdate'
    BY DEF Step, Clocked
  <2>3. Place(nextUpdate) <= Place(nextUpdate') /\ Place(nextUpdate) \in Nat
        /\ Place(nextUpdate') \in Nat
    BY <2>1, <2>2, Rounded, RoundedGrows DEF Clocked
  <2>4. RoundedMulDiv(nextUpdate', sampleRate', updateRate') = Place(nextUpdate')
    BY <1>1
  <2>5. /\ NextUpdateSample = IF Place(nextUpdate) > contentSamples
                              THEN Never ELSE Place(nextUpdate)
        /\ NextUpdateSample' = IF Place(nextUpdate') > contentSamples
                               THEN Never ELSE Place(nextUpdate')
    BY <1>1, <2>4 DEF NextUpdateSample
  <2>6. contentSamples \in Nat
    BY SamplesCover DEF Clocked
  <2>7. NextUpdateSample # Never => ClockSample <= NextUpdateSample
    BY ClockType, ClockEnds DEF ClockSample, Earliest, Smaller, Never, Clocked
  <2> HIDE DEF Place
  <2> QED BY <2>3, <2>5, <2>6, <2>7, ClockType DEF Never
<1>3. /\ NextSourceSample' \in Nat \cup {Never}
      /\ NextSourceSample' # Never => ClockSample <= NextSourceSample'
  <2>1. nextSource' \in Nat /\ nextSource <= nextSource'
    BY DEF Step, Clocked
  <2>2. /\ SourceSamplePosition(nextSource)' = SourceSamplePosition(nextSource')
        /\ SourceSamplePosition(nextSource) <= SourceSamplePosition(nextSource')
        /\ SourceSamplePosition(nextSource) \in Nat
        /\ SourceSamplePosition(nextSource') \in Nat
    <3>1. SourceSamplePosition(nextSource)' = SourceSamplePosition(nextSource')
      BY DEF Step, config, SourceSamplePosition, phaseHalf, CenterSum, sourceRate,
             RoundedMulDiv
    <3> QED BY <2>1, <3>1, Position, PositionGrows DEF Clocked
  <2>3. NextSourceSample' = IF nextSource' <= lastSourceIndex
                            THEN SourceSamplePosition(nextSource') ELSE Never
    BY <1>1, <2>2 DEF NextSourceSample, Never
  <2>4. lastSourceIndex \in Int
    BY ClockEnds DEF Clocked
  <2>5. NextSourceSample # Never => ClockSample <= NextSourceSample
    BY ClockType, ClockEnds DEF ClockSample, Earliest, Smaller, Never, Clocked
  <2>6. NextSourceSample' # Never => NextSourceSample = SourceSamplePosition(nextSource)
    BY <2>1, <2>3, <2>4 DEF NextSourceSample, Clocked
  <2> QED BY <2>2, <2>3, <2>5, <2>6, ClockType DEF Never
<1>4. ClockSample <= endClockSample'
  BY <1>1, ClockType
<1>5. endClockSample' \in Nat /\ ClockSample \in Nat
  BY <1>1, ClockType, ClockEnds DEF Clocked
<1>6. ClockSample' = Earliest(Earliest(NextUpdateSample', NextSourceSample'),
                              endClockSample')
  BY DEF ClockSample, Earliest, Smaller, Never
<1> QED BY <1>2, <1>3, <1>4, <1>5, <1>6 DEF Earliest, Smaller, Never

-----------------------------------------------------------------------------
(* The loop.                                                               *)

Types ==
  /\ Config
  /\ nextUpdate \in Nat \ {0} /\ nextSource \in 0 .. lastSourceIndex + 1
  /\ finished \in BOOLEAN
  /\ simulated \in 0..contentSamples /\ heard \in 0..audioEndSample
  /\ rendered \in Nat /\ emitted \in Seq(Nat)

(* The frames emitted are exactly those the sources rendered so far        *)
(* complete: the last one was due before nextSource, the next one is not.  *)
Numbered ==
  /\ \A i \in DOMAIN emitted : emitted[i] = i - 1
  /\ nextSource <= firstOutputAt + Len(emitted) * oversample
  /\ Len(emitted) > 0 =>
       firstOutputAt + (Len(emitted) - 1) * oversample < nextSource

(* Neither the simulation nor the audio is ahead of the clock.             *)
Behind == simulated <= ClockSample /\ heard <= ClockSample

(* The timeline ends when everything is there.                             *)
Complete ==
  finished => /\ nextSource = lastSourceIndex + 1
              /\ simulated = contentSamples /\ heard = audioEndSample

TimelineInvariant == Types /\ Numbered /\ Behind /\ Complete

LEMMA InitTimeline == Init => TimelineInvariant
<1> SUFFICES ASSUME Init PROVE TimelineInvariant
  OBVIOUS
<1>1. Config
  BY TimelineAssumption DEF Init, Config
<1>2. /\ contentSamples \in Nat /\ audioEndSample \in Nat
      /\ lastSourceIndex \in Nat \cup {-1} /\ firstOutputAt \in Nat
      /\ oversample \in Nat
  BY <1>1, SamplesCover, AudioCovers, ClockEnds, Shutter DEF Config
<1>3. Types
  <2>1. finished \in BOOLEAN
    BY DEF Init
  <2>2. nextSource \in 0 .. lastSourceIndex + 1
    BY <1>2, SMT DEF Init
  <2>3. simulated \in 0..contentSamples /\ heard \in 0..audioEndSample
    BY <1>2, SMT DEF Init
  <2>4. emitted \in Seq(Nat) /\ rendered \in Nat /\ nextUpdate \in Nat \ {0}
    BY DEF Init
  <2> QED BY <1>1, <2>1, <2>2, <2>3, <2>4 DEF Types
<1>4. Numbered
  BY <1>2 DEF Init, Numbered
<1>5. Clocked
  BY <1>1 DEF Init, Clocked
<1>6. Behind
  BY <1>5, ClockType DEF Init, Behind
<1>7. Complete
  BY DEF Init, Complete
<1> QED BY <1>3, <1>4, <1>6, <1>7 DEF TimelineInvariant

(* A step changes nothing NewRecordingTimeline computed.                   *)
LEMMA Fixed ==
  ASSUME Step
  PROVE  /\ Config <=> Config'
         /\ lastSourceIndex' = lastSourceIndex /\ firstOutputAt' = firstOutputAt
         /\ contentSamples' = contentSamples /\ audioEndSample' = audioEndSample
         /\ oversample' = oversample
BY DEF Step, config, Config, lastSourceIndex, firstOutputAt, contentSamples,
       audioEndSample, outputFrames, CenterSum, CeilMulDiv

(* A source sample completes an output frame exactly when it is the one    *)
(* the frames emitted so far are waiting for.                              *)
LEMMA DueNext ==
  ASSUME Types, Numbered
  PROVE  /\ Due <=> nextSource = firstOutputAt + Len(emitted) * oversample
         /\ Due => (nextSource - firstOutputAt) \div oversample = Len(emitted)
<1> DEFINE b == oversample   f == firstOutputAt   n == Len(emitted)
           d == nextSource - f
           q == d \div b
<1>1. /\ b \in Nat \ {0} /\ f \in Nat /\ n \in Nat /\ nextSource \in Nat
  BY Shutter, ClockEnds DEF Types, Config
<1>2. /\ nextSource <= f + n * b /\ (n > 0 => f + (n - 1) * b < nextSource)
  BY DEF Numbered
<1>3. /\ q \in Int /\ b * q <= d /\ d < b * q + b
      /\ d % b = d - b * q
  BY <1>1, SMT
<1>4. Due <=> nextSource >= f /\ d % b = 0
  BY DEF Due
<1> HIDE DEF b, f, n
<1>5. d <= b * n /\ (n > 0 => b * (n - 1) < d) /\ d \in Int
  BY <1>1, <1>2, SMT
<1> HIDE DEF d, q
<1>6. ASSUME d = b * n PROVE q = n /\ d % b = 0
  <2>1. b * q <= b * n /\ b * n < b * (q + 1)
    BY <1>1, <1>3, <1>6, SMT
  <2>2. q <= n /\ n < q + 1
    BY <1>1, <1>3, <2>1, Scaled, SMT
  <2> QED BY <1>1, <1>3, <1>6, <2>2, SMT
<1>7. ASSUME d >= 0, d % b = 0 PROVE d = b * n
  <2>1. d = b * q
    BY <1>1, <1>3, <1>5, <1>7, SMT
  <2>2. CASE n = 0
    BY <1>1, <1>5, <1>7, <2>2, SMT
  <2>3. CASE n > 0
    <3>1. b * (n - 1) < b * q /\ b * q <= b * n
      BY <1>5, <2>1, <2>3
    <3>2. n - 1 < q /\ q <= n
      BY <1>1, <1>3, <3>1, Scaled, SMT
    <3> QED BY <1>1, <1>3, <2>1, <3>2, SMT
  <2> QED BY <1>1, <2>2, <2>3, SMT
<1>8. nextSource >= f <=> d >= 0
  BY <1>1, SMT DEF d
<1>9. nextSource = f + n * b <=> d = b * n
  BY <1>1, SMT DEF d
<1>10. d = b * n => d >= 0
  <2>1. b * n \in Nat
    BY <1>1, SMT
  <2> QED BY <2>1
<1> QED BY <1>4, <1>6, <1>7, <1>8, <1>9, <1>10 DEF b, f, n, d, q

LEMMA NextTypes == TimelineInvariant /\ Step => Types'
<1> SUFFICES ASSUME TimelineInvariant, Step PROVE Types'
  OBVIOUS
<1> USE Fixed
<1>0. Types /\ Numbered /\ Clocked
  BY ClockEnds DEF TimelineInvariant, Types, Clocked
<1>1. /\ contentSamples \in Nat /\ audioEndSample \in Nat
      /\ lastSourceIndex \in Int /\ ClockSample \in Nat
  BY <1>0, SamplesCover, AudioCovers, ClockEnds, ClockType DEF Clocked
<1>2. Config'
  BY <1>0 DEF Types
<1>3. nextUpdate' \in Nat \ {0}
  BY <1>0 DEF Step, Types
<1>4. (nextSource \in 0 .. lastSourceIndex + 1)'
  BY <1>0, <1>1, Rendering DEF Step, Types
<1>5. finished' \in BOOLEAN
  BY DEF Step, Finishes
<1>6. (simulated \in 0..contentSamples /\ heard \in 0..audioEndSample)'
  BY <1>0, <1>1 DEF Step, Types, SimulationSample, AudioSample, Larger, Smaller
<1>7. rendered' \in Nat /\ emitted' \in Seq(Nat)
  <2>1. Due => (nextSource - firstOutputAt) \div oversample \in Nat
    BY <1>0, DueNext DEF Types
  <2>2. rendered \in Nat /\ emitted \in Seq(Nat)
    BY <1>0 DEF Types
  <2>3. emitted' = emitted \/ (Due /\ emitted' = Append(emitted,
                               (nextSource - firstOutputAt) \div oversample))
    BY DEF Step
  <2>4. rendered' = rendered \/ rendered' = rendered + 1
    BY DEF Step
  <2>5. emitted' \in Seq(Nat)
    BY <2>1, <2>2, <2>3
  <2> QED BY <2>2, <2>4, <2>5
<1> QED BY <1>2, <1>3, <1>4, <1>5, <1>6, <1>7 DEF Types

LEMMA NextNumbered == TimelineInvariant /\ Step => Numbered'
<1> SUFFICES ASSUME TimelineInvariant, Step PROVE Numbered'
  OBVIOUS
<1> DEFINE n == Len(emitted)
<1>1. /\ Types /\ Numbered /\ firstOutputAt' = firstOutputAt /\ oversample' = oversample
  BY Fixed DEF TimelineInvariant
<1>2. /\ firstOutputAt \in Nat /\ oversample \in Nat \ {0} /\ nextSource \in Nat
      /\ n \in Nat /\ emitted \in Seq(Nat)
  BY <1>1, Shutter, ClockEnds DEF Types, Config
<1>3. /\ n * oversample \in Nat
      /\ (n + 1) * oversample = n * oversample + oversample
  BY <1>2, SMT
<1>4. CASE ~RenderSource
  BY <1>1, <1>4 DEF Step, Numbered
<1>5. CASE RenderSource /\ Due
  <2>1. /\ emitted' = Append(emitted, n) /\ nextSource' = nextSource + 1
        /\ nextSource = firstOutputAt + n * oversample
    BY <1>1, <1>5, DueNext DEF Step
  <2>2. /\ Len(emitted') = n + 1
        /\ \A i \in DOMAIN emitted' : emitted'[i] = i - 1
    BY <1>1, <1>2, <2>1 DEF Numbered
  <2>3. (n + 1 - 1) * oversample = n * oversample
    BY <1>2, SMT
  <2> QED BY <1>1, <1>2, <1>3, <2>1, <2>2, <2>3 DEF Numbered
<1>6. CASE RenderSource /\ ~Due
  <2>1. /\ emitted' = emitted /\ nextSource' = nextSource + 1
        /\ nextSource # firstOutputAt + n * oversample
    BY <1>1, <1>6, DueNext DEF Step
  <2>2. /\ \A i \in DOMAIN emitted : emitted[i] = i - 1
        /\ nextSource <= firstOutputAt + n * oversample
        /\ n > 0 => firstOutputAt + (n - 1) * oversample < nextSource
    BY <1>1 DEF Numbered
  <2>3. n > 0 => (n - 1) * oversample \in Nat
    BY <1>2, SMT
  <2> HIDE DEF n
  <2>4. /\ nextSource + 1 <= firstOutputAt + n * oversample
        /\ n > 0 => firstOutputAt + (n - 1) * oversample < nextSource + 1
    BY <1>2, <1>3, <2>1, <2>2, <2>3
  <2> QED BY <1>1, <2>1, <2>2, <2>4 DEF Numbered, n
<1> QED BY <1>4, <1>5, <1>6

LEMMA NextBehind == TimelineInvariant /\ Step => Behind' /\ Complete'
<1> SUFFICES ASSUME TimelineInvariant, Step PROVE Behind' /\ Complete'
  OBVIOUS
<1> USE Fixed
<1>1. Types /\ Types' /\ Behind /\ ~finished
  BY NextTypes DEF TimelineInvariant, Step
<1>2. Clocked /\ Clocked'
  <2>1. lastSourceIndex \in Int /\ lastSourceIndex' \in Int
    BY <1>1, ClockEnds DEF Types
  <2> QED BY <1>1, <2>1 DEF Types, Clocked
<1>3. /\ ClockSample \in Nat /\ ClockSample' \in Nat /\ ClockSample <= ClockSample'
  BY <1>2, ClockType, ClockGrows
<1>4. /\ contentSamples \in Nat /\ audioEndSample \in Nat /\ endClockSample \in Nat
      /\ contentSamples <= audioEndSample /\ audioEndSample <= endClockSample
  BY <1>2, SamplesCover, AudioCovers, ContentHeard, ClockEnds DEF Clocked
<1>5. /\ simulated' <= ClockSample /\ heard' <= ClockSample
  BY <1>1, <1>3, <1>4 DEF Step, Behind, Types, SimulationSample, AudioSample,
                          Larger, Smaller
<1>6. Behind'
  BY <1>1, <1>3, <1>4, <1>5 DEF Behind, Types
<1>7. ASSUME finished'
      PROVE  /\ nextSource' = lastSourceIndex' + 1
             /\ simulated' = contentSamples' /\ heard' = audioEndSample'
  <2>1. ClockSample = endClockSample /\ nextSource' > lastSourceIndex
    BY <1>7 DEF Step, Finishes
  <2>2. lastSourceIndex \in Int
    BY <1>1, ClockEnds DEF Types
  <2>3. nextSource' = lastSourceIndex' + 1
    BY <1>1, <2>1, <2>2 DEF Types
  <2>4. simulated' >= contentSamples /\ heard' >= audioEndSample
    BY <1>1, <1>4, <2>1 DEF Step, Types, SimulationSample, AudioSample, Larger, Smaller
  <2> QED BY <1>1, <1>4, <2>3, <2>4 DEF Types
<1> QED BY <1>6, <1>7 DEF Complete

THEOREM Invariance == Spec => []TimelineInvariant
<1>1. TimelineInvariant /\ [Next]_vars => TimelineInvariant'
  <2> SUFFICES ASSUME TimelineInvariant, [Next]_vars PROVE TimelineInvariant'
    OBVIOUS
  <2>1. CASE Step
    BY <2>1, NextTypes, NextNumbered, NextBehind DEF TimelineInvariant
  <2>2. CASE UNCHANGED vars
    <3> USE <2>2 DEF vars, config
    <3>1. /\ lastSourceIndex' = lastSourceIndex /\ firstOutputAt' = firstOutputAt
          /\ contentSamples' = contentSamples /\ audioEndSample' = audioEndSample
          /\ outputFrames' = outputFrames
      BY DEF lastSourceIndex, firstOutputAt, contentSamples, audioEndSample,
             outputFrames, CenterSum, CeilMulDiv
    <3>2. ClockSample' = ClockSample
      <4>1. NextUpdateSample' = NextUpdateSample
        BY <3>1 DEF NextUpdateSample, updateRate, sourceRate, RoundedMulDiv, Larger, Never
      <4>2. /\ SourceSamplePosition(nextSource)' = SourceSamplePosition(nextSource)
            /\ SourceSamplePosition(lastSourceIndex)' = SourceSamplePosition(lastSourceIndex)
        BY <3>1 DEF SourceSamplePosition, CenterSum, phaseHalf, sourceRate, RoundedMulDiv
      <4>3. /\ NextSourceSample' = NextSourceSample
            /\ endClockSample' = endClockSample
        BY <3>1, <4>2 DEF NextSourceSample, endClockSample, EndClock, Larger, Never
      <4> QED BY <4>1, <4>3 DEF ClockSample, Earliest, Smaller, Never
    <3>3. Types'
      BY <3>1 DEF TimelineInvariant, Types, Config
    <3>4. Numbered'
      BY <3>1 DEF TimelineInvariant, Numbered
    <3>5. Behind' /\ Complete'
      BY <3>1, <3>2 DEF TimelineInvariant, Behind, Complete
    <3> QED BY <3>3, <3>4, <3>5 DEF TimelineInvariant
  <2> QED BY <2>1, <2>2 DEF Next, Done
<1> QED BY <1>1, InitTimeline, PTL DEF Spec

-----------------------------------------------------------------------------
(* The results.                                                            *)

(* At the end the emitted frames are all of outputFrames.                  *)
LEMMA AllEmitted ==
  ASSUME Types, Numbered, Complete, finished
  PROVE  Len(emitted) = outputFrames
<1> DEFINE n == Len(emitted)
           m == outputFrames
           b == oversample
<1>1. /\ firstOutputAt \in Nat /\ b \in Nat \ {0} /\ n \in Nat /\ m \in Nat
      /\ nextSource = lastSourceIndex + 1
  BY Shutter, FramesCover DEF Types, Config, Complete
<1>2. /\ nextSource <= firstOutputAt + n * b
      /\ n > 0 => firstOutputAt + (n - 1) * b < nextSource
  BY DEF Numbered
<1>3. lastSourceIndex = IF m = 0 THEN -1 ELSE firstOutputAt + (m - 1) * b
  BY DEF lastSourceIndex
<1> HIDE DEF n, m, b
<1>4. CASE m = 0
  <2>1. n > 0 => (n - 1) * b >= 0
    BY <1>1, SMT
  <2> QED BY <1>1, <1>2, <1>3, <1>4, <2>1, SMT DEF n, m
<1>5. CASE m > 0
  <2>1. /\ b * (m - 1) < b * n
        /\ n > 0 => b * (n - 1) < b * (m - 1) + 1
    BY <1>1, <1>2, <1>3, <1>5, SMT
  <2>2. m - 1 < n
    BY <1>1, <1>5, <2>1, Scaled
  <2>3. b * (n - 1) <= b * (m - 1)
    <3>1. b * (n - 1) \in Int /\ b * (m - 1) \in Int
      BY <1>1, SMT
    <3> QED BY <1>1, <1>5, <2>1, <2>2, <3>1, SMT
  <2>4. n - 1 <= m - 1
    BY <1>1, <2>3, Scaled, SMT
  <2> QED BY <1>1, <2>2, <2>4, SMT DEF n, m
<1> QED BY <1>1, <1>4, <1>5, SMT

(* The two streams tell the same time: at the end of every recording the   *)
(* frames cover its content and are less than one too many, the simulation *)
(* has reached the end of the content, and the audio is as long as the     *)
(* frames, to the sample.                                                  *)
THEOREM StreamsAgree == Spec => []StreamsMatch
<1>1. TimelineInvariant => StreamsMatch
  <2> SUFFICES ASSUME TimelineInvariant PROVE StreamsMatch
    OBVIOUS
  <2>1. Types /\ Numbered /\ Complete
    BY DEF TimelineInvariant
  <2>2. TypeOK
    BY <2>1 DEF Types, TypeOK
  <2>3. FrameCount
    <3>1. \A i \in DOMAIN emitted : emitted[i] = i - 1
      BY <2>1 DEF Numbered
    <3>2. ASSUME finished
          PROVE  /\ Len(emitted) * Second >= duration * outputRate
                 /\ Len(emitted) * Second < duration * outputRate + Second
      <4>1. Len(emitted) = outputFrames
        BY <2>1, <3>2, AllEmitted
      <4>2. /\ outputFrames \in Nat /\ Second \in Nat
            /\ duration * outputRate <= Second * outputFrames
            /\ Second * outputFrames < duration * outputRate + Second
        BY <2>1, FramesCover, TimelineAssumption DEF Types
      <4>3. Second * outputFrames = outputFrames * Second
        BY <4>2, SMT
      <4>4. duration * outputRate \in Int /\ Second * outputFrames \in Int
        BY <2>1, <4>2, SMT DEF Types, Config
      <4> QED BY <4>1, <4>2, <4>3, <4>4, SMT
    <3> QED BY <3>1, <3>2 DEF FrameCount
  <2>4. ASSUME finished
        PROVE  /\ simulated * Second >= duration * sampleRate
               /\ heard * outputRate >= Len(emitted) * sampleRate
               /\ (heard - 1) * outputRate < Len(emitted) * sampleRate
    <3>1. /\ simulated = contentSamples /\ heard = audioEndSample
          /\ Len(emitted) = outputFrames
      BY <2>1, <2>4, AllEmitted DEF Complete
    <3>2. /\ outputFrames \in Nat /\ Second \in Nat /\ contentSamples \in Nat
          /\ audioEndSample \in Nat /\ outputRate \in Nat
          /\ sampleRate \in Nat /\ duration \in Nat
      BY <2>1, FramesCover, SamplesCover, AudioCovers, TimelineAssumption
         DEF Types, Config
    <3>3. /\ duration * sampleRate <= Second * contentSamples
          /\ outputFrames * sampleRate <= outputRate * audioEndSample
          /\ outputRate * audioEndSample < outputFrames * sampleRate + outputRate
      BY <2>1, SamplesCover, AudioCovers DEF Types
    <3>4. /\ contentSamples * Second = Second * contentSamples
          /\ audioEndSample * outputRate = outputRate * audioEndSample
          /\ (audioEndSample - 1) * outputRate = outputRate * audioEndSample - outputRate
      BY <3>2, SMT
    <3>5. /\ duration * sampleRate \in Int /\ Second * contentSamples \in Int
          /\ outputFrames * sampleRate \in Int /\ outputRate * audioEndSample \in Int
      BY <3>2, SMT
    <3> QED BY <3>1, <3>2, <3>3, <3>4, <3>5, SMT
  <2> QED BY <2>2, <2>3, <2>4 DEF StreamsMatch, AudioMatchesVideo
<1> QED BY <1>1, Invariance, PTL

(* "a centered-shutter timeline" (timeline.go:38), for every oversampling  *)
(* and number of blended samples.                                          *)
THEOREM ShutterCentered == Spec => CenteredShutter
<1>1. ASSUME TimelineInvariant, [Next]_vars, Len(emitted') > Len(emitted)
      PROVE  LET k == emitted'[Len(emitted')]
                 first == nextSource - blend + 1
             IN (2 * first + phaseHalf) + (2 * nextSource + phaseHalf)
                  = 2 * oversample * (2 * k + 1)
  <2> DEFINE n == Len(emitted)
             b == oversample
             f == firstOutputAt
  <2>1. Types /\ Numbered /\ Len(emitted) \in Nat /\ emitted \in Seq(Nat)
    BY <1>1 DEF TimelineInvariant, Types
  <2>2. Due /\ emitted' = Append(emitted, n)
    <3>1. emitted' # emitted
      BY <1>1, <2>1
    <3> QED BY <1>1, <2>1, <3>1, DueNext DEF Next, Step, Done, vars
  <2>3. emitted'[Len(emitted')] = n
    BY <2>1, <2>2
  <2>4. /\ f \in Nat /\ phaseHalf \in {0, 1} /\ b \in Nat \ {0} /\ n \in Nat
        /\ blend \in Nat /\ 2 * f + phaseHalf = b + blend - 1
        /\ nextSource = f + n * b
    BY <2>1, <2>2, Shutter, DueNext DEF Types, Config
  <2> HIDE DEF n, b, f
  <2>5. n * b \in Nat /\ 2 * b * (2 * n + 1) = 4 * (n * b) + 2 * b
    BY <2>4, SMT
  <2>6. (2 * (nextSource - blend + 1) + phaseHalf) + (2 * nextSource + phaseHalf)
          = 4 * (n * b) + 2 * b
    BY <2>4, <2>5, SMT
  <2> QED BY <2>3, <2>5, <2>6 DEF b
<1> QED BY <1>1, Invariance, PTL DEF Spec, CenteredShutter

(* A picture is rendered when the audio and the simulation stand at its    *)
(* place on the clock, or at their ends if it comes after those.           *)
THEOREM PicturesInSync == Spec => RenderedInSync
<1>1. ASSUME TimelineInvariant, [Next]_vars, rendered' > rendered
      PROVE  LET at == SourceSamplePosition(nextSource)
             IN /\ heard' = Smaller(at, audioEndSample)
                /\ simulated' = Smaller(at, contentSamples)
  <2>1. Types /\ Behind /\ Clocked
    BY <1>1, ClockEnds DEF TimelineInvariant, Types, Clocked
  <2>2. Step /\ RenderSource
    BY <1>1, <2>1 DEF Next, Step, Done, vars, Types
  <2>3. ClockSample = SourceSamplePosition(nextSource) /\ ClockSample \in Nat
    BY <2>1, <2>2, Rendering, ClockType
  <2>4. contentSamples \in Nat /\ audioEndSample \in Nat
    BY <2>1, SamplesCover, AudioCovers DEF Types
  <2>5. /\ heard' = Smaller(ClockSample, audioEndSample)
        /\ simulated' = Smaller(ClockSample, contentSamples)
    BY <2>1, <2>2, <2>3, <2>4 DEF Step, Behind, Types, SimulationSample, AudioSample,
                                  Larger, Smaller
  <2> QED BY <2>3, <2>5
<1> QED BY <1>1, Invariance, PTL DEF Spec, RenderedInSync
=============================================================================
