------------------------------ MODULE Waveform ------------------------------
(***************************************************************************)
(* The bars that convertToOpus draws from the raw samples of a voice       *)
(* message: bytes that stand for signed numbers.                           *)
(***************************************************************************)
EXTENDS Integers, Sequences

CONSTANTS
    Bars,      \* 64 in the code
    Samples,   \* bytes that occur (bound)
    MaxSamples \* length of the recordings that are checked (bound)

ASSUME WaveformAssumption ==
    Bars \in Nat \ {0} /\ Samples \subseteq 0..255 /\ MaxSamples \in Nat

\* The normalisation of a byte.
Level(b) == IF b > 128 THEN 255 - b ELSE b

Capped(level) == IF level > 100 THEN 100 ELSE level

\* samplesPerBar, and the samples of bar i: from From until before Until.
PerBar(total) == IF total \div Bars = 0 THEN 1 ELSE total \div Bars
From(total, i) == i * PerBar(total)
Until(total, i) ==
    IF From(total, i) + PerBar(total) > total THEN total ELSE From(total, i) + PerBar(total)

Peak(raw, i) ==
    LET levels == {Level(raw[k]) : k \in (From(Len(raw), i) + 1)..Until(Len(raw), i)}
    IN Capped(CHOOSE x \in levels : \A y \in levels : y <= x)

\* The bars, numbered from 0.  One without samples repeats the one before it.
Waveform(raw) ==
    LET bar[i \in 0..(Bars - 1)] ==
          IF From(Len(raw), i) < Until(Len(raw), i) THEN Peak(raw, i)
          ELSE IF i > 0 THEN bar[i - 1] ELSE 0
    IN bar

(***************************************************************************)
(* Properties.                                                             *)
(***************************************************************************)

\* What a sample is meant to be: the amplitude of a signed byte.
Amplitude(b) == IF b < 128 THEN b ELSE 256 - b
Near(x, y) == x - y \in -1..1
Recordings == UNION {[1..n -> Samples] : n \in 0..MaxSamples}

\* However many samples there are, also fewer than bars, every bar is within one of
\* the amplitude of a sample at its place in time, or of the last one, and no sample
\* stands out of the bar it falls into by more than the rounding of one.  A recording
\* without samples has flat bars.
BarsShowAmplitudes ==
    \A raw \in Recordings :
       LET bars == Waveform(raw)
           span == PerBar(Len(raw)) IN
       /\ Len(raw) = 0 => \A i \in 0..(Bars - 1) : bars[i] = 0
       /\ Len(raw) > 0 => \A i \in 0..(Bars - 1) : \E k \in 1..Len(raw) :
             /\ (k - 1) \div span = i \/ (k = Len(raw) /\ i * span >= Len(raw))
             /\ Near(bars[i], Capped(Amplitude(raw[k])))
       /\ \A k \in 1..Len(raw) :
             (k - 1) \div span < Bars
                => bars[(k - 1) \div span] >= Capped(Amplitude(raw[k])) - 1
=============================================================================
