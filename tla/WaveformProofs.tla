--------------------------- MODULE WaveformProofs ---------------------------
(***************************************************************************)
(* Proofs about Waveform, for every number of bars and of samples.         *)
(***************************************************************************)
EXTENDS Waveform, WellFoundedInduction, TLAPS

\* The normalisation of every byte a sample can be is within one of its amplitude,
\* also when both are capped.
THEOREM LevelIsAmplitude ==
  \A b \in 0..255 : /\ Near(Level(b), Amplitude(b))
                    /\ Near(Capped(Level(b)), Capped(Amplitude(b)))
  BY DEF Near, Level, Amplitude, Capped

LEMMA PerBarType ==
  ASSUME NEW total \in Nat
  PROVE  /\ PerBar(total) \in Nat \ {0}
         /\ total >= Bars => PerBar(total) = total \div Bars
  <1>1. total \div Bars \in Nat
    BY WaveformAssumption
  <1>2. total >= Bars => total \div Bars # 0
    BY WaveformAssumption
  <1>3. QED
    BY <1>1, <1>2 DEF PerBar

LEMMA Division ==
  ASSUME NEW n \in Int, NEW d \in Int, d > 0
  PROVE  n = d * (n \div d) + (n % d)
  BY SMTT(20)

LEMMA Remainder ==
  ASSUME NEW n \in Int, NEW d \in Int, d > 0
  PROVE  n % d \in 0..(d - 1)
  BY SMTT(20)

\* The samples of a bar are those of a recording, and follow those of the bar before.
THEOREM BarsAreConsecutive ==
  ASSUME NEW total \in Nat, NEW i \in 0..(Bars - 1)
  PROVE  /\ Until(total, i) <= total
         /\ From(total, 0) = 0
         /\ Until(total, i) < total => From(total, i + 1) = Until(total, i)
  <1> DEFINE d == PerBar(total)
  <1>1. d \in Nat \ {0}
    BY PerBarType
  <1>2. i \in Nat
    BY WaveformAssumption
  <1> HIDE DEF d
  <1>3. i * d \in Nat /\ (i + 1) * d = i * d + d
    BY <1>1, <1>2
  <1>4. QED
    BY <1>1, <1>2, <1>3 DEF From, Until, d

\* When there are at least as many samples as bars, every bar has samples, and fewer
\* than Bars samples at the end are in none.
THEOREM RemainderIsShort ==
  ASSUME NEW total \in Nat, total >= Bars
  PROVE  /\ \A i \in 0..(Bars - 1) : From(total, i) < Until(total, i)
         /\ total - From(total, Bars) \in 0..(Bars - 1)
  <1> DEFINE d == total \div Bars
  <1>1. d \in Nat \ {0} /\ PerBar(total) = d
    BY PerBarType, WaveformAssumption
  <1>2. total % Bars \in 0..(Bars - 1) /\ total = Bars * d + (total % Bars)
    <2>1. total \in Int /\ Bars \in Int /\ Bars > 0
      BY WaveformAssumption
    <2>2. QED
      BY <2>1, Division, Remainder
  <1> HIDE DEF d
  <1>3. Bars \in Nat \ {0} /\ Bars * d = d * Bars /\ d * Bars \in Nat
    BY <1>1, WaveformAssumption
  <1>4. total - From(total, Bars) = total % Bars
    BY <1>1, <1>2, <1>3 DEF From
  <1>5. ASSUME NEW i \in 0..(Bars - 1) PROVE From(total, i) < Until(total, i)
    <2>1. i \in Nat /\ i + 1 <= Bars
      BY <1>3
    <2>2. i * d + d = (i + 1) * d /\ (i + 1) * d <= Bars * d /\ i * d \in Nat
      BY <1>1, <1>3, <2>1
    <2>3. QED
      BY <1>1, <1>2, <1>3, <2>2 DEF From, Until
  <1>6. QED
    BY <1>2, <1>4, <1>5

(***************************************************************************)
(* What the bars are.                                                      *)
(***************************************************************************)

\* A least element is what induction over the bars is done by.
LEMMA LeastNatural ==
  ASSUME NEW T \in SUBSET Nat, T # {}
  PROVE  \E x \in T : \A y \in T : x <= y
  <1> DEFINE R == OpToRel(<, Nat)
  <1>1. IsWellFoundedOn(R, Nat)
    BY NatLessThanWellFounded
  <1>2. \A x, y \in Nat : y < x => <<y, x>> \in R
    BY DEF OpToRel
  <1> HIDE DEF R
  <1>3. PICK x \in T : \A y \in T : ~ (<<y, x>> \in R)
    BY <1>1, WFMin
  <1>4. \A y \in T : ~ (y < x)
    BY <1>2, <1>3, Zenon
  <1>5. \A y \in T : x <= y
    BY <1>4
  <1>6. QED BY <1>5

LEMMA Highest ==
  ASSUME NEW b \in Nat, NEW S \in SUBSET (0..b), S # {}
  PROVE  \E x \in S : \A y \in S : y <= x
  <1> DEFINE T == {n \in Nat : \A y \in S : y <= n}
  <1>1. b \in T
    OBVIOUS
  <1>2. PICK n \in T : \A m \in T : n <= m
    <2>1. T \in SUBSET Nat /\ T # {}
      BY <1>1
    <2> HIDE DEF T
    <2>2. QED BY <2>1, LeastNatural
  <1>3. ASSUME n \notin S PROVE FALSE
    <2>1. \A y \in S : y \in Nat /\ y < n
      BY <1>3
    <2>2. PICK z \in S : TRUE
      OBVIOUS
    <2>3. n - 1 \in Nat /\ \A y \in S : y <= n - 1
      BY <2>1, <2>2
    <2>4. n - 1 \in T
      BY <2>3
    <2>5. QED BY <1>2, <2>4
  <1>4. QED BY <1>3

LEMMA LevelRange == \A x \in 0..255 : Level(x) \in 0..128
  BY DEF Level

\* The samples of bar i of a recording.
Span(raw, i) == (From(Len(raw), i) + 1)..Until(Len(raw), i)

\* A bar with samples has the level of one of them, and none has a higher level.
LEMMA PeakIsHighest ==
  ASSUME NEW n \in Nat \ {0}, NEW raw \in [1..n -> Samples], Len(raw) = n,
         NEW i \in Nat, From(n, i) < Until(n, i)
  PROVE  /\ \E k \in Span(raw, i) : Peak(raw, i) = Capped(Level(raw[k]))
         /\ \A k \in Span(raw, i) : Peak(raw, i) >= Capped(Level(raw[k]))
         /\ Span(raw, i) \subseteq 1..n
  <1> DEFINE levels == {Level(raw[k]) : k \in Span(raw, i)}
  <1>1. PerBar(n) \in Nat \ {0}
    BY PerBarType
  <1>2. From(n, i) \in Nat /\ Until(n, i) \in Nat /\ Until(n, i) <= n
    BY <1>1 DEF From, Until
  <1>3. Span(raw, i) \subseteq 1..n /\ Until(n, i) \in Span(raw, i)
    BY <1>2 DEF Span
  <1>4. \A k \in Span(raw, i) : Level(raw[k]) \in 0..128
    <2>1. \A k \in 1..n : raw[k] \in Samples
      OBVIOUS
    <2>2. \A k \in 1..n : raw[k] \in 0..255
      BY <2>1, WaveformAssumption
    <2>3. QED BY <1>3, <2>2, LevelRange, Zenon
  <1>5. levels \in SUBSET (0..128) /\ levels # {}
    <2>1. Level(raw[Until(n, i)]) \in levels
      BY <1>3
    <2>2. \A x \in levels : x \in 0..128
      BY <1>4
    <2> HIDE DEF levels
    <2>3. QED BY <2>1, <2>2
  <1>6. Peak(raw, i) = Capped(CHOOSE x \in levels : \A y \in levels : y <= x)
    BY DEF Peak, Span
  <1> DEFINE top == CHOOSE x \in levels : \A y \in levels : y <= x
  <1>7. top \in levels /\ \A y \in levels : y <= top
    <2>1. \E x \in levels : \A y \in levels : y <= x
      <3> HIDE DEF levels
      <3> QED BY <1>5, Highest
    <2> HIDE DEF levels
    <2>2. QED BY <2>1
  <1> HIDE DEF top
  <1>8. PICK k \in Span(raw, i) : top = Level(raw[k])
    BY <1>7
  <1>9. \A j \in Span(raw, i) : Level(raw[j]) <= top
    BY <1>7
  <1>10. \A j \in Span(raw, i) : Capped(Level(raw[j])) <= Capped(top)
    <2>1. \A x, y \in 0..128 : x <= y => Capped(x) <= Capped(y)
      BY DEF Capped
    <2>2. top \in 0..128
      BY <1>4, <1>8
    <2>3. QED BY <1>4, <1>9, <2>1, <2>2, Zenon
  <1>11. Peak(raw, i) = Capped(top)
    BY <1>6 DEF top
  <1>12. QED BY <1>3, <1>8, <1>10, <1>11

\* The equation of the loop over the bars.
Loop(raw, bar) ==
  [i \in 0..(Bars - 1) |->
     IF From(Len(raw), i) < Until(Len(raw), i) THEN Peak(raw, i)
     ELSE IF i > 0 THEN bar[i - 1] ELSE 0]

\* The last bar that has samples.
Last(n) == (n - 1) \div PerBar(n)

LEMMA Product == ASSUME NEW x \in Nat, NEW y \in Nat, NEW d \in Nat, x <= y
                 PROVE  x * d <= y * d /\ x * d \in Nat /\ (x + 1) * d = x * d + d
  BY SMTT(30)

LEMMA Quotient ==
  ASSUME NEW m \in Nat, NEW d \in Nat \ {0}
  PROVE  /\ m \div d \in Nat
         /\ (m \div d) * d <= m /\ m < (m \div d + 1) * d
  <1>1. m = d * (m \div d) + (m % d) /\ m % d \in 0..(d - 1)
    BY Division, Remainder
  <1>2. m \div d \in Nat
    OBVIOUS
  <1> DEFINE q == m \div d
  <1>3. d * q = q * d /\ (q + 1) * d = q * d + d /\ q * d \in Nat
    BY <1>2
  <1> HIDE DEF q
  <1>4. m = q * d + (m % d)
    BY <1>1, <1>3 DEF q
  <1>5. q * d <= m /\ m < (q + 1) * d
    BY <1>1, <1>3, <1>4
  <1>6. QED BY <1>2, <1>5 DEF q

\* A bar has samples as long as they last.
LEMMA HasSamples ==
  ASSUME NEW n \in Nat \ {0}, NEW i \in Nat
  PROVE  /\ From(n, i) < Until(n, i) <=> i * PerBar(n) < n
         /\ From(n, i) < Until(n, i) => i <= Last(n)
         /\ ~(From(n, i) < Until(n, i)) => Last(n) < i
         /\ Last(n) \in Nat /\ From(n, Last(n)) < Until(n, Last(n))
  <1> DEFINE d == PerBar(n)
             q == Last(n)
  <1>1. d \in Nat \ {0}
    BY PerBarType
  <1>2. q \in Nat /\ q * d <= n - 1 /\ n - 1 < (q + 1) * d
    BY <1>1, Quotient DEF Last
  <1> HIDE DEF d, q
  <1>3. ASSUME NEW j \in Nat PROVE From(n, j) < Until(n, j) <=> j * d < n
    <2>1. j * d \in Nat
      BY <1>1
    <2>2. QED BY <1>1, <2>1 DEF From, Until, d
  <1>4. i * d < n => i <= q
    <2>1. SUFFICES ASSUME q + 1 <= i PROVE n <= i * d
      BY <1>1, <1>2
    <2>2. (q + 1) * d <= i * d
      BY <1>1, <1>2, <2>1, Product
    <2>3. (q + 1) * d \in Nat /\ i * d \in Nat
      BY <1>1, <1>2
    <2>4. QED BY <1>2, <2>2, <2>3
  <1>5. ~(i * d < n) => q < i
    <2>1. SUFFICES ASSUME i <= q PROVE i * d < n
      BY <1>1, <1>2
    <2>2. i * d <= q * d
      BY <1>1, <1>2, <2>1, Product
    <2>3. q * d \in Nat /\ i * d \in Nat
      BY <1>1, <1>2
    <2>4. QED BY <1>2, <2>2, <2>3
  <1>6. q * d < n
    <2>1. q * d \in Nat
      BY <1>1, <1>2
    <2>2. QED BY <1>2, <2>1
  <1>7. QED BY <1>2, <1>3, <1>4, <1>5, <1>6 DEF d, q

\* What the loop computes, without the loop: a bar without samples repeats the last
\* one that has some.
Source(n, i) == IF From(n, i) < Until(n, i) THEN i ELSE Last(n)
Filled(raw) == [i \in 0..(Bars - 1) |-> Peak(raw, Source(Len(raw), i))]

LEMMA FilledLoops ==
  ASSUME NEW raw, Len(raw) \in Nat \ {0}
  PROVE  Filled(raw) = Loop(raw, Filled(raw))
  <1> DEFINE n == Len(raw)
  <1> SUFFICES ASSUME NEW i \in 0..(Bars - 1), ~(From(n, i) < Until(n, i))
               PROVE  i > 0 /\ Filled(raw)[i - 1] = Peak(raw, Last(n))
    BY Zenon DEF Filled, Loop, Source
  <1>1. i \in Nat /\ Bars \in Nat
    BY WaveformAssumption
  <1>2. Last(n) \in Nat /\ Last(n) < i
    BY <1>1, HasSamples
  <1>3. i - 1 \in 0..(Bars - 1) /\ i > 0 /\ Last(n) <= i - 1
    BY <1>1, <1>2
  <1>4. Source(n, i - 1) = Last(n)
    <2>1. CASE From(n, i - 1) < Until(n, i - 1)
      <3>1. i - 1 <= Last(n)
        BY <1>1, <1>3, <2>1, HasSamples
      <3>2. i - 1 = Last(n)
        BY <1>1, <1>2, <1>3, <3>1
      <3>3. QED BY <2>1, <3>2 DEF Source
    <2>2. QED BY <2>1 DEF Source
  <1>5. QED BY <1>3, <1>4 DEF Filled

\* Any two functions that satisfy the equation agree: otherwise they would differ
\* first at some bar, which is not one that repeats the bar before.
LEMMA LoopUnique ==
  ASSUME NEW raw, Len(raw) \in Nat, NEW f, NEW g,
         f = Loop(raw, f), g = Loop(raw, g)
  PROVE  f = g
  <1> DEFINE n == Len(raw)
             T == {i \in 0..(Bars - 1) : f[i] # g[i]}
  <1>1. ASSUME T # {} PROVE FALSE
    <2>1. T \in SUBSET Nat
      BY WaveformAssumption
    <2>2. PICK i \in T : \A j \in T : i <= j
      <3> HIDE DEF T
      <3> QED BY <1>1, <2>1, LeastNatural
    <2>3. i \in 0..(Bars - 1) /\ i \in Nat /\ f[i] # g[i]
      BY <2>1
    <2>4. /\ f[i] = IF From(n, i) < Until(n, i) THEN Peak(raw, i)
                    ELSE IF i > 0 THEN f[i - 1] ELSE 0
          /\ g[i] = IF From(n, i) < Until(n, i) THEN Peak(raw, i)
                    ELSE IF i > 0 THEN g[i - 1] ELSE 0
      <3>1. f[i] = Loop(raw, f)[i] /\ g[i] = Loop(raw, g)[i]
        OBVIOUS
      <3> HIDE DEF T
      <3>2. QED BY <2>3, <3>1, Zenon DEF Loop
    <2>5. i > 0 /\ f[i - 1] # g[i - 1]
      <3> HIDE DEF T
      <3>1. ~(From(n, i) < Until(n, i))
        BY <2>3, <2>4, Zenon
      <3>2. i > 0
        BY <2>3, <2>4, <3>1, Zenon
      <3>3. QED BY <2>3, <2>4, <3>1, <3>2, Zenon
    <2>6. i - 1 \in 0..(Bars - 1) /\ ~(i <= i - 1)
      BY <2>3, <2>5, WaveformAssumption
    <2>7. i - 1 \in T
      BY <2>5, <2>6
    <2>8. QED BY <2>2, <2>6, <2>7
  <1>2. \A i \in 0..(Bars - 1) : f[i] = g[i]
    BY <1>1
  <1>3. DOMAIN Loop(raw, f) = 0..(Bars - 1) /\ DOMAIN Loop(raw, g) = 0..(Bars - 1)
    BY DEF Loop
  <1>4. /\ Loop(raw, f) = [i \in 0..(Bars - 1) |-> Loop(raw, f)[i]]
        /\ Loop(raw, g) = [i \in 0..(Bars - 1) |-> Loop(raw, g)[i]]
    BY Zenon DEF Loop
  <1>5. QED BY <1>2, <1>4, Zenon

\* The loop computes the function its equation describes.
LEMMA WaveformIsFilled ==
  ASSUME NEW raw, Len(raw) \in Nat \ {0}
  PROVE  Waveform(raw) = Filled(raw)
  <1> DEFINE E(h) == Loop(raw, h)
  <1>1. Waveform(raw) = CHOOSE h : h = E(h)
    BY DEF Waveform, Loop
  <1>2. Filled(raw) = E(Filled(raw))
    BY FilledLoops
  <1> HIDE DEF E
  <1>3. Waveform(raw) = E(Waveform(raw))
    BY <1>1, <1>2, Zenon
  <1>4. QED BY <1>2, <1>3, LoopUnique DEF E

\* Without samples there is nothing for the first bar, which the others repeat.
LEMMA NoSamplesNoBars ==
  ASSUME NEW raw, Len(raw) = 0
  PROVE  Waveform(raw) = [i \in 0..(Bars - 1) |-> 0]
  <1> DEFINE E(h) == Loop(raw, h)
             flat == [i \in 0..(Bars - 1) |-> 0]
  <1>1. Waveform(raw) = CHOOSE h : h = E(h)
    BY DEF Waveform, Loop
  <1>2. flat = E(flat)
    <2>1. PerBar(0) = 1
      BY WaveformAssumption DEF PerBar
    <2>2. \A i \in 0..(Bars - 1) : ~(From(0, i) < Until(0, i))
      BY <2>1, WaveformAssumption DEF From, Until
    <2>3. \A i \in 0..(Bars - 1) : i > 0 => i - 1 \in 0..(Bars - 1)
      BY WaveformAssumption
    <2>4. \A i \in 0..(Bars - 1) : (IF i > 0 THEN flat[i - 1] ELSE 0) = 0
      BY <2>3
    <2>5. Loop(raw, flat) = [i \in 0..(Bars - 1) |-> IF i > 0 THEN flat[i - 1] ELSE 0]
      BY <2>2 DEF Loop
    <2>6. QED BY <2>4, <2>5
  <1> HIDE DEF E, flat
  <1>3. Waveform(raw) = E(Waveform(raw))
    BY <1>1, <1>2, Zenon
  <1>4. QED BY <1>2, <1>3, LoopUnique DEF E, flat

(***************************************************************************)
(* The bars show the recording.                                            *)
(***************************************************************************)

LEMMA BarsOfSamples ==
  ASSUME NEW n \in 1..MaxSamples, NEW raw \in [1..n -> Samples]
  PROVE  LET bars == Waveform(raw)
             span == PerBar(Len(raw)) IN
         /\ Len(raw) = n
         /\ \A i \in 0..(Bars - 1) : \E k \in 1..Len(raw) :
               /\ (k - 1) \div span = i \/ (k = Len(raw) /\ i * span >= Len(raw))
               /\ Near(bars[i], Capped(Amplitude(raw[k])))
         /\ \A k \in 1..Len(raw) :
               (k - 1) \div span < Bars
                  => bars[(k - 1) \div span] >= Capped(Amplitude(raw[k])) - 1
  <1> DEFINE d == PerBar(n)
  <1>1. n \in Nat \ {0} /\ Len(raw) = n
    BY WaveformAssumption
  <1>2. d \in Nat \ {0} /\ Bars \in Nat \ {0}
    BY <1>1, PerBarType, WaveformAssumption
  <1>3. Waveform(raw) = Filled(raw)
    BY <1>1, WaveformIsFilled
  <1>4. \A k \in 1..n : raw[k] \in 0..255
    <2>1. \A k \in 1..n : raw[k] \in Samples
      OBVIOUS
    <2>2. QED BY <2>1, WaveformAssumption
  <1>5. \A k \in 1..n : /\ Near(Capped(Level(raw[k])), Capped(Amplitude(raw[k])))
                        /\ Capped(Level(raw[k])) >= Capped(Amplitude(raw[k])) - 1
    <2>1. \A b \in 0..255 : Capped(Level(b)) >= Capped(Amplitude(b)) - 1
      BY DEF Capped, Level, Amplitude
    <2>2. QED BY <1>4, <2>1, LevelIsAmplitude, Zenon
  \* The samples of a bar are those whose index divides to it.
  <1>6. ASSUME NEW i \in Nat, NEW k \in 1..n, i * d < n
        PROVE  k \in Span(raw, i) <=> (k - 1) \div d = i
    <2>1. k - 1 \in Nat
      OBVIOUS
    <2>2. /\ (k - 1) \div d \in Nat
          /\ ((k - 1) \div d) * d <= k - 1 /\ k - 1 < ((k - 1) \div d + 1) * d
      BY <1>2, <2>1, Quotient
    <2> DEFINE q == (k - 1) \div d
    <2> HIDE DEF q, d
    <2>3. q \in Nat /\ q * d <= k - 1 /\ k - 1 < (q + 1) * d
      BY <2>2 DEF q
    <2>4. k \in Span(raw, i) <=> i * d <= k - 1 /\ k - 1 < (i + 1) * d
      <3>1. i * d \in Nat /\ (i + 1) * d = i * d + d
        BY <1>2, Product
      <3>2. k \in Span(raw, i) <=> k \in (i * d + 1)..(IF i * d + d > n THEN n ELSE i * d + d)
        BY <1>1 DEF Span, From, Until, d
      <3>3. QED BY <1>1, <1>2, <3>1, <3>2
    <2>5. q < i => ~(i * d <= k - 1)
      <3>1. SUFFICES ASSUME q + 1 <= i PROVE ~(i * d <= k - 1)
        BY <2>3
      <3>2. (q + 1) * d <= i * d /\ (q + 1) * d \in Nat /\ i * d \in Nat
        BY <1>2, <2>3, <3>1, Product
      <3>3. QED BY <2>1, <2>3, <3>2
    <2>6. i < q => ~(k - 1 < (i + 1) * d)
      <3>1. SUFFICES ASSUME i + 1 <= q PROVE ~(k - 1 < (i + 1) * d)
        BY <2>3
      <3>2. (i + 1) * d <= q * d /\ (i + 1) * d \in Nat /\ q * d \in Nat
        BY <1>2, <2>3, <3>1, Product
      <3>3. QED BY <2>1, <2>3, <3>2
    <2>7. QED BY <2>3, <2>4, <2>5, <2>6 DEF q
  <1>7. ASSUME NEW i \in 0..(Bars - 1), i * d < n
        PROVE  /\ From(n, i) < Until(n, i) /\ i \in Nat
               /\ Filled(raw)[i] = Peak(raw, i)
    <2>1. i \in Nat
      BY <1>2
    <2>2. From(n, i) < Until(n, i)
      BY <1>1, <1>7, <2>1, HasSamples
    <2>3. QED BY <1>1, <2>1, <2>2 DEF Filled, Source
  <1>8. ASSUME NEW i \in 0..(Bars - 1)
        PROVE  \E k \in 1..n : /\ (k - 1) \div d = i \/ (k = n /\ i * d >= n)
                               /\ Near(Filled(raw)[i], Capped(Amplitude(raw[k])))
    <2>1. CASE i * d < n
      <3>1. PICK k \in Span(raw, i) : Peak(raw, i) = Capped(Level(raw[k]))
        BY <1>1, <1>7, <2>1, PeakIsHighest
      <3>2. k \in 1..n
        BY <1>1, <1>7, <2>1, PeakIsHighest
      <3>3. (k - 1) \div d = i
        BY <1>6, <1>7, <2>1, <3>1, <3>2
      <3>4. Near(Filled(raw)[i], Capped(Amplitude(raw[k])))
        BY <1>5, <1>7, <2>1, <3>1, <3>2
      <3>5. QED BY <3>2, <3>3, <3>4
    <2>2. CASE ~(i * d < n)
      <3>1. i \in Nat
        BY <1>2
      <3>2. ~(From(n, i) < Until(n, i))
        BY <1>1, <2>2, <3>1, HasSamples
      <3>3. n < Bars
        BY <1>1, <1>2, <3>2, RemainderIsShort
      <3>4. d = 1
        <4>1. n \div Bars = 0
          BY <1>1, <1>2, <3>3
        <4>2. QED BY <4>1 DEF PerBar
      <3>5. Last(n) = n - 1
        BY <1>1, <3>4 DEF Last
      <3>6. Filled(raw)[i] = Peak(raw, n - 1)
        BY <1>1, <3>2, <3>5 DEF Filled, Source
      <3>7. n - 1 \in Nat /\ From(n, n - 1) < Until(n, n - 1)
        BY <1>1, <3>5, HasSamples
      <3>8. \A k \in Span(raw, n - 1) : k = n
        BY <1>1, <3>4 DEF Span, From, Until
      <3>9. Peak(raw, n - 1) = Capped(Level(raw[n]))
        BY <1>1, <3>7, <3>8, PeakIsHighest
      <3>10. n \in 1..n /\ i * d >= n
        BY <1>1, <2>2, <3>1, <3>4
      <3>11. QED BY <1>5, <3>6, <3>9, <3>10
    <2>3. QED BY <2>1, <2>2
  <1>9. ASSUME NEW k \in 1..n, (k - 1) \div d < Bars
        PROVE  Filled(raw)[(k - 1) \div d] >= Capped(Amplitude(raw[k])) - 1
    <2> DEFINE i == (k - 1) \div d
    <2>1. k - 1 \in Nat /\ k - 1 < n
      BY <1>1
    <2>2. i \in Nat /\ i * d <= k - 1
      BY <1>2, <2>1, Quotient
    <2>3. i \in 0..(Bars - 1)
      BY <1>2, <1>9, <2>2
    <2> HIDE DEF i, d
    <2>4. i * d \in Nat
      BY <1>2, <2>2
    <2>5. i * d < n
      BY <1>1, <2>1, <2>2, <2>4
    <2>6. k \in Span(raw, i)
      BY <1>6, <2>2, <2>5 DEF i
    <2>7. Filled(raw)[i] >= Capped(Level(raw[k]))
      BY <1>1, <1>7, <2>3, <2>5, <2>6, PeakIsHighest DEF d
    <2>8. Filled(raw)[i] \in Int /\ Capped(Level(raw[k])) \in Int /\ Capped(Amplitude(raw[k])) \in Int
      <3>1. \A b \in 0..255 : Capped(Level(b)) \in Int /\ Capped(Amplitude(b)) \in Int
        BY DEF Capped, Level, Amplitude
      <3>2. PICK j \in Span(raw, i) : Peak(raw, i) = Capped(Level(raw[j]))
        BY <1>1, <1>7, <2>3, <2>5, PeakIsHighest DEF d
      <3>3. j \in 1..n
        BY <1>1, <1>7, <2>3, <2>5, <3>2, PeakIsHighest DEF d
      <3>4. QED BY <1>4, <1>7, <2>3, <2>5, <3>1, <3>2, <3>3
    <2>9. QED BY <1>5, <2>7, <2>8 DEF i
  <1>10. QED BY <1>1, <1>3, <1>8, <1>9

\* However long a recording is and whatever bytes it has, every bar is within one of
\* the amplitude of a sample at its place in time, or of the last one, and no sample
\* stands out of its bar; without samples all bars are flat.
THEOREM BarsAreFaithful == BarsShowAmplitudes
  <1>1. ASSUME NEW n \in 0..MaxSamples, NEW raw \in [1..n -> Samples]
        PROVE  LET bars == Waveform(raw)
                   span == PerBar(Len(raw)) IN
               /\ Len(raw) = 0 => \A i \in 0..(Bars - 1) : bars[i] = 0
               /\ Len(raw) > 0 => \A i \in 0..(Bars - 1) : \E k \in 1..Len(raw) :
                     /\ (k - 1) \div span = i \/ (k = Len(raw) /\ i * span >= Len(raw))
                     /\ Near(bars[i], Capped(Amplitude(raw[k])))
               /\ \A k \in 1..Len(raw) :
                     (k - 1) \div span < Bars
                        => bars[(k - 1) \div span] >= Capped(Amplitude(raw[k])) - 1
    <2>1. CASE n = 0
      <3>1. Len(raw) = 0
        BY <2>1
      <3>2. \A i \in 0..(Bars - 1) : Waveform(raw)[i] = 0
        BY <3>1, NoSamplesNoBars
      <3>3. 1..Len(raw) = {} /\ ~(Len(raw) > 0)
        BY <3>1
      <3>4. QED BY <3>1, <3>2, <3>3
    <2>2. CASE n # 0
      <3>1. n \in 1..MaxSamples
        BY <2>2
      <3>2. Len(raw) = n /\ n # 0
        <4>1. Len(raw) = n
          BY <3>1, BarsOfSamples
        <4>2. QED BY <2>2, <4>1
      <3>3. QED BY <3>1, <3>2, BarsOfSamples, Zenon
    <2>3. QED BY <2>1, <2>2
  <1>2. QED BY <1>1 DEF BarsShowAmplitudes, Recordings
=============
