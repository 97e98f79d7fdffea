---------------------------- MODULE PartsProofs -----------------------------
(***************************************************************************)
(* Theorems about the parts that control and measure, and about Parts.     *)
(***************************************************************************)
EXTENDS Parts, AccountProofs, ContentProofs

-----------------------------------------------------------------------------
(* The rate controller: its bounds, for every rate, every recovery time and every
   length of frame. *)

\* Arithmetic the steps rest on: a quotient of naturals is a natural, and what
\* is spent in whole packets was there.
LEMMA QuotientNat == \A a \in Nat, b \in Nat \ {0} : a \div b \in Nat
OBVIOUS

LEMMA HalfNat == \A a \in Nat : a \div 2 \in Nat /\ a \div 2 <= a
OBVIOUS

LEMMA WholePackets ==
    ASSUME NEW b \in Nat, NEW k \in Nat, k <= b \div One
    PROVE  k * One \in Nat /\ k * One <= b
<1>1. One \in Nat \ {0}
  BY AimdAssumption
<1>2. DEFINE q == b \div One
<1>3. q \in Nat /\ q * One <= b
  BY <1>1
<1>4. k * One <= q * One
  BY <1>1, <1>3
<1> QED
  BY <1>1, <1>3, <1>4

LEMMA ProductNat == \A a, b \in Nat : a * b \in Nat
OBVIOUS



\* The inductive invariant: in the good mode the last fall is at least one
\* recovery time old, which is what makes falls spaced and doublings few.
FallsAreOld == mode = "good" => sinceBad >= recovery
RateInv == AimdTypeOK /\ BudgetWithinRate /\ RecoveryStaysShort /\ FallsAreOld

LEMMA RateEnds == MinRate \in Nat /\ MaxRate \in Nat /\ BaseRate * One \in Nat
                  /\ MinRate <= BaseRate * One /\ BaseRate * One <= MaxRate /\ 0 < MinRate
<1>1. One \in Nat /\ 0 < One /\ BaseRate \in Nat /\ 1 <= BaseRate
      /\ MaxMultiplier \in Nat /\ 1 <= MaxMultiplier
  BY AimdAssumption
<1>2. BaseRate <= BaseRate * MaxMultiplier /\ BaseRate * MaxMultiplier \in Nat
  BY <1>1
<1>3. \A a, b \in Nat : a <= b => a * One <= b * One /\ a * One \in Nat
  BY <1>1
<1>4. 1 * One <= BaseRate * One /\ BaseRate * One <= (BaseRate * MaxMultiplier) * One
      /\ (BaseRate * MaxMultiplier) * One \in Nat
  BY <1>1, <1>2, <1>3
<1> QED
  BY <1>1, <1>3, <1>4 DEF MinRate, MaxRate

LEMMA RateInit == AimdInit => RateInv
<1> SUFFICES ASSUME AimdInit PROVE RateInv
  OBVIOUS
<1> USE AimdAssumption
<1>1. AimdTypeOK
  <2>1. mode \in {"good", "bad"} /\ congested \in BOOLEAN
    BY DEF AimdInit
  <2>2. Horizon \in Nat
    BY DEF Horizon, Larger
  <2>3. /\ rate \in Nat /\ budget \in Nat /\ recovery \in RecoveryMin .. RecoveryMax
        /\ sinceBad \in 0 .. Horizon /\ sinceGood \in Nat \cup {Unset}
        /\ sinceSend \in 0 .. MaxIdle /\ waiting \in 0 .. MaxWaiting
    BY <2>2, RateEnds DEF AimdInit
  <2> QED
    BY <2>1, <2>3 DEF AimdTypeOK
<1>2. BudgetWithinRate
  BY RateEnds DEF AimdInit, BudgetWithinRate
<1>3. RecoveryStaysShort /\ FallsAreOld
  BY DEF AimdInit, RecoveryStaysShort, FallsAreOld, Horizon, Larger
<1> QED
  BY <1>1, <1>2, <1>3 DEF RateInv

\* What a tick does to the rate, in each of its cases.
LEMMA RateKept ==
    ASSUME RateInv, NEW d \in 1 .. MaxFrame,
           Worsen(d) \/ Thrive(d, sinceSend + d) \/ Bad(d)
    PROVE  rate' \in Nat /\ MinRate <= rate' /\ rate' <= MaxRate
<1> USE AimdAssumption, RateEnds DEF RateInv, AimdTypeOK, BudgetWithinRate
<1>1. CASE Worsen(d)
  BY <1>1, HalfNat DEF Worsen, HalvedRate, Larger
<1>2. CASE Thrive(d, sinceSend + d)
  <2>1. One * (sinceSend + d) \in Nat
    BY ProductNat
  <2>2. (One * (sinceSend + d)) \div Hz \in Nat
    BY <2>1, QuotientNat
  <2> QED
    BY <1>2, <2>2 DEF Thrive, Smaller
<1>3. CASE Bad(d)
  BY <1>3 DEF Bad
<1> QED
  BY <1>1, <1>2, <1>3

\* What it does to the modes and their clocks.
LEMMA ModeKept ==
    ASSUME RateInv, NEW d \in 1 .. MaxFrame,
           Worsen(d) \/ Thrive(d, sinceSend + d) \/ Bad(d)
    PROVE  /\ mode' \in {"good", "bad"} /\ recovery' \in RecoveryMin .. RecoveryMax
           /\ sinceBad' \in 0 .. Horizon /\ sinceGood' \in Nat \cup {Unset}
           /\ RecoveryStaysShort' /\ FallsAreOld'
<1> USE AimdAssumption DEF RateInv, AimdTypeOK, RecoveryStaysShort, FallsAreOld
<1>h. Horizon \in Nat /\ RecoveryMax <= Horizon /\ DoubleWithin <= Horizon
  BY DEF Horizon, Larger
<1>1. CASE Worsen(d)
  <2>1. \A t \in Nat : Doubled(t) \in RecoveryMin .. RecoveryMax
    BY DEF Doubled, Clamp, Smaller, Larger
  <2>2. ASSUME Relapse(d) PROVE Doubled(recovery) < 2 * Larger(DoubleWithin, RecoveryMin)
    BY <1>1, <2>2 DEF Worsen, Relapse, Doubled, Clamp, Smaller, Larger
  <2> QED
    BY <1>1, <1>h, <2>1, <2>2 DEF Worsen
<1>2. CASE Thrive(d, sinceSend + d)
  <2>1. Halved(recovery) \in RecoveryMin .. RecoveryMax /\ Halved(recovery) <= recovery
    BY HalfNat DEF Halved, Clamp, Smaller, Larger
  <2>2. sinceGood' \in Nat
    BY <1>2 DEF Thrive, Unset
  <2>3. recovery' \in RecoveryMin .. RecoveryMax /\ recovery' <= recovery
    BY <1>2, <2>1 DEF Thrive
  <2>4. sinceBad' \in 0 .. Horizon /\ sinceBad' >= recovery
    BY <1>2, <1>h DEF Thrive, Smaller
  <2>5. RecoveryStaysShort'
    BY <2>3 DEF Larger
  <2> QED
    BY <1>2, <2>2, <2>3, <2>4, <2>5 DEF Thrive
<1>3. CASE Bad(d)
  <2>1. sinceBad' \in 0 .. Horizon
    BY <1>3, <1>h DEF Bad, Smaller
  <2>2. mode' = "good" => sinceBad' >= recovery
    BY <1>3, <1>h DEF Bad, Recovered, Smaller
  <2> QED
    BY <1>3, <2>1, <2>2 DEF Bad
<1> QED
  BY <1>1, <1>2, <1>3

\* Refilling and spending leave a budget between nothing and the rate.
LEMMA BudgetKept ==
    ASSUME NEW r \in Nat, NEW dt \in Nat, budget \in Nat, waiting \in 0 .. MaxWaiting,
           Spend(Refilled(r, dt), dt)
    PROVE  /\ budget' \in Nat /\ budget' <= r
           /\ waiting' \in 0 .. MaxWaiting /\ sinceSend' \in 0 .. MaxIdle
<1> USE AimdAssumption
<1> DEFINE b == Refilled(r, dt)
           sent == Smaller(waiting, b \div One)
<1>1. (r * dt) \div Hz \in Nat
  BY ProductNat, QuotientNat
<1>2. b \in Nat /\ b <= r
  BY <1>1 DEF Refilled, Smaller
<1>3. b \div One \in Nat
  BY <1>2, QuotientNat
<1>4. sent \in Nat /\ sent <= waiting /\ sent <= b \div One
  BY <1>3 DEF Smaller
<1>5. sent * One \in Nat /\ sent * One <= b
  BY <1>2, <1>4, WholePackets
<1>6. budget' = b - sent * One /\ waiting' = waiting - sent
      /\ sinceSend' = IF sent > 0 THEN 0 ELSE Smaller(dt, MaxIdle)
  BY DEF Spend
<1>7. budget' \in Nat /\ budget' <= r
  <2> HIDE DEF b, sent
  <2> QED
    BY <1>2, <1>5, <1>6
<1>8. waiting' \in 0 .. MaxWaiting
  <2> HIDE DEF b, sent
  <2> QED
    BY <1>4, <1>6
<1>9. sinceSend' \in 0 .. MaxIdle
  BY <1>6 DEF Smaller
<1> QED
  BY <1>7, <1>8, <1>9

LEMMA RateStep == RateInv /\ [AimdNext]_aimdVars => RateInv'
<1> SUFFICES ASSUME RateInv, [AimdNext]_aimdVars PROVE RateInv'
  OBVIOUS
<1>1. ASSUME NEW d \in 1 .. MaxFrame, Frame(d) PROVE RateInv'
  <2>1. Worsen(d) \/ Thrive(d, sinceSend + d) \/ Bad(d)
    BY <1>1 DEF Frame
  <2>2. rate' \in Nat /\ MinRate <= rate' /\ rate' <= MaxRate
    BY <2>1, RateKept
  <2>3. sinceSend + d \in Nat /\ budget \in Nat /\ waiting \in 0 .. MaxWaiting
    BY AimdAssumption DEF RateInv, AimdTypeOK
  <2>4. /\ budget' \in Nat /\ budget' <= rate'
        /\ waiting' \in 0 .. MaxWaiting /\ sinceSend' \in 0 .. MaxIdle
    BY <1>1, <2>2, <2>3, BudgetKept DEF Frame
  <2>5. /\ mode' \in {"good", "bad"} /\ recovery' \in RecoveryMin .. RecoveryMax
        /\ sinceBad' \in 0 .. Horizon /\ sinceGood' \in Nat \cup {Unset}
        /\ RecoveryStaysShort' /\ FallsAreOld'
    BY <2>1, ModeKept
  <2>6. congested' \in BOOLEAN
    BY <1>1 DEF Frame, RateInv, AimdTypeOK
  <2>7. AimdTypeOK'
    BY <2>2, <2>4, <2>5, <2>6 DEF AimdTypeOK
  <2>8. BudgetWithinRate'
    BY <2>2, <2>4 DEF BudgetWithinRate
  <2> QED
    BY <2>5, <2>7, <2>8 DEF RateInv
<1>2. CASE Offer
  <2>1. waiting' \in 0 .. MaxWaiting
    BY <1>2, AimdAssumption DEF Offer, RateInv, AimdTypeOK
  <2> QED
    BY <1>2, <2>1 DEF Offer, RateInv, AimdTypeOK, BudgetWithinRate, RecoveryStaysShort, FallsAreOld
<1>3. CASE Weather
  BY <1>3 DEF Weather, RateInv, AimdTypeOK, BudgetWithinRate, RecoveryStaysShort, FallsAreOld
<1>4. CASE UNCHANGED aimdVars
  BY <1>4 DEF aimdVars, RateInv, AimdTypeOK, BudgetWithinRate, RecoveryStaysShort, FallsAreOld
<1> QED
  BY <1>1, <1>2, <1>3, <1>4 DEF AimdNext

THEOREM RateInvariance == AimdSpec => []RateInv
BY RateInit, RateStep, PTL DEF AimdSpec

-----------------------------------------------------------------------------
\* Every state is well typed, at every rate and for every recovery time.
THEOREM RateTypeCorrect == AimdSpec => []AimdTypeOK
<1>1. RateInv => AimdTypeOK
  BY DEF RateInv
<1> QED
  BY <1>1, RateInvariance, PTL

\* The rate stays between its ends and the budget between nothing and the
\* rate, also right after the rate was halved.
THEOREM RateAndBudget == AimdSpec => []BudgetWithinRate
<1>1. RateInv => BudgetWithinRate
  BY DEF RateInv
<1> QED
  BY <1>1, RateInvariance, PTL

\* The recovery time stays below twice the time within which it is doubled.
THEOREM RecoveryShort == AimdSpec => []RecoveryStaysShort
<1>1. RateInv => RecoveryStaysShort
  BY DEF RateInv
<1> QED
  BY <1>1, RateInvariance, PTL

\* Two halvings of the rate are at least the shortest recovery time apart.
THEOREM Spacing == AimdSpec => HalvingsSpaced
<1>1. RateInv => (mode = "good" => sinceBad >= RecoveryMin)
  BY AimdAssumption DEF RateInv, AimdTypeOK, FallsAreOld, Horizon, Larger
<1>2. RateInv /\ [AimdNext]_aimdVars
      => [mode = "good" /\ mode' = "bad" => sinceBad >= RecoveryMin]_aimdVars
  BY <1>1
<1> QED
  BY <1>2, RateInvariance, PTL DEF AimdSpec, HalvingsSpaced

-----------------------------------------------------------------------------
(* The round-trip time.                                                    *)

\* The range of the samples as far as the average keeps it: both ends are whole
\* eighths, the upper one with what they round away.
InRange(s, low, high) == 8 * Eighth(low) <= s /\ s <= 8 * Eighth(high) + 7

RttTypeOK ==
    /\ srtt \in Nat \cup {NoSample} /\ rttvar \in Nat /\ rto \in RtoMin .. RtoMax
    /\ least \in Nat /\ most \in Nat

\* The inductive invariant: SmoothedWithinSamples with its types.
RttInv == RttTypeOK /\ SmoothedWithinSamples

\* A sample lies in its own range.
LEMMA SampleInRange == \A x \in Nat : InRange(x, x, x)
BY DEF InRange, Eighth

\* An eighth is at most the number and does not fall when the number grows.
LEMMA EighthMonotone ==
    ASSUME NEW a \in Nat, NEW b \in Nat, a <= b
    PROVE  Eighth(a) \in Nat /\ Eighth(b) \in Nat /\ Eighth(a) <= Eighth(b) /\ Eighth(a) <= a
BY DEF Eighth

\* One more sample, of a range that includes it, leaves the average in the range.
LEMMA AverageInRange ==
    ASSUME NEW s \in Nat, NEW x \in Nat, NEW low \in Nat, NEW high \in Nat,
           low <= x, x <= high, InRange(s, low, high)
    PROVE  /\ s - Eighth(s) + Eighth(x) \in Nat
           /\ InRange(s - Eighth(s) + Eighth(x), low, high)
<1> DEFINE a == Eighth(s)  u == Eighth(high)  l == Eighth(low)  e == Eighth(x)
<1>1. a \in Nat /\ 8 * a <= s /\ s <= 8 * a + 7
  BY DEF Eighth
<1>2. l \in Nat /\ e \in Nat /\ u \in Nat /\ l <= e /\ e <= u
  BY EighthMonotone
<1>3. 8 * l <= s /\ s <= 8 * u + 7
  BY DEF InRange
<1>4. l <= a /\ a <= u
  BY <1>1, <1>2, <1>3
<1> HIDE DEF a, u, l, e
<1>5. s - a + e \in Nat /\ 8 * l <= s - a + e /\ s - a + e <= 8 * u + 7
  BY <1>1, <1>2, <1>3, <1>4
<1> QED
  BY <1>5 DEF InRange, a, u, l, e

\* A wider range holds what the narrower one held.
LEMMA RangeWidens ==
    ASSUME NEW s \in Nat, NEW l \in Nat, NEW m \in Nat, NEW u \in Nat, NEW k \in Nat,
           m <= l, u <= k, InRange(s, l, u)
    PROVE  InRange(s, m, k)
<1>1. Eighth(m) \in Nat /\ Eighth(l) \in Nat /\ Eighth(m) <= Eighth(l)
  BY EighthMonotone
<1>2. Eighth(u) \in Nat /\ Eighth(k) \in Nat /\ Eighth(u) <= Eighth(k)
  BY EighthMonotone
<1> QED
  BY <1>1, <1>2 DEF InRange

\* The time-out lies in its limits, and beyond the average below the cap.
LEMMA TimeoutBeyond ==
    ASSUME NEW s \in Nat, NEW v \in Nat
    PROVE  /\ Timeout(s, v) \in RtoMin .. RtoMax
           /\ Timeout(s, v) < RtoMax => s < Timeout(s, v)
BY EstimatorsAssumption DEF Timeout, Within

LEMMA UpdateKeepsRange ==
    ASSUME RttInv, NEW x \in Samples, RttUpdate(x)
    PROVE  RttInv'
<1>1. x \in Nat
  BY EstimatorsAssumption
<1>2. Variation(x) \in Nat
  BY <1>1 DEF Variation, Quarter, Gap, RttInv, RttTypeOK, NoSample
<1>3. least' \in Nat /\ most' \in Nat /\ least' <= x /\ x <= most'
  BY <1>1 DEF RttUpdate, RttInv, RttTypeOK
<1>4. Smoothed(x) \in Nat /\ InRange(Smoothed(x), least', most')
  <2>1. CASE srtt = NoSample
    BY <1>1, <1>3, <2>1, SampleInRange, RangeWidens DEF Smoothed
  <2>2. CASE srtt # NoSample
    <3>1. srtt \in Nat /\ least \in Nat /\ most \in Nat /\ InRange(srtt, least, most)
      BY <2>2 DEF RttInv, RttTypeOK, SmoothedWithinSamples, InRange
    <3>2. least' <= least /\ most <= most'
      BY <1>1, <2>2, <3>1 DEF RttUpdate
    <3>3. InRange(srtt, least', most')
      BY <1>3, <3>1, <3>2, RangeWidens
    <3> QED
      BY <1>1, <1>3, <2>2, <3>1, <3>3, AverageInRange DEF Smoothed
  <2> QED
    BY <2>1, <2>2
<1>5. srtt' = Smoothed(x) /\ rttvar' = Variation(x) /\ rto' = Timeout(Smoothed(x), Variation(x))
  BY DEF RttUpdate
<1>6. rto' \in RtoMin .. RtoMax /\ (rto' < RtoMax => srtt' < rto')
  BY <1>2, <1>4, <1>5, TimeoutBeyond
<1> QED
  BY <1>2, <1>3, <1>4, <1>5, <1>6 DEF RttInv, RttTypeOK, SmoothedWithinSamples, InRange

\* However many samples are averaged, and however the rounding falls, the smoothed
\* round-trip time of nn_rtt_update stays among them.
THEOREM RoundTripAmongSamples == RttSpec => [](SmoothedWithinSamples /\ RttTypeOK)
<1>1. RttInit => RttInv
  BY EstimatorsAssumption DEF RttInit, RttInv, RttTypeOK, SmoothedWithinSamples, NoSample
<1>2. RttInv /\ [RttNext]_rttVars => RttInv'
  <2> SUFFICES ASSUME RttInv, [RttNext]_rttVars PROVE RttInv'
    OBVIOUS
  <2>1. ASSUME NEW x \in Samples, RttUpdate(x) PROVE RttInv'
    BY <2>1, UpdateKeepsRange
  <2>2. CASE RttReset
    BY <2>2, EstimatorsAssumption
       DEF RttReset, RttInv, RttTypeOK, SmoothedWithinSamples, NoSample
  <2>3. CASE UNCHANGED rttVars
    BY <2>3 DEF rttVars, RttInv, RttTypeOK, SmoothedWithinSamples
  <2> QED
    BY <2>1, <2>2, <2>3 DEF RttNext
<1>3. RttInv => SmoothedWithinSamples /\ RttTypeOK
  BY DEF RttInv
<1> QED
  BY <1>1, <1>2, <1>3, PTL DEF RttSpec

-----------------------------------------------------------------------------
(* The loss window.                                                        *)

LossSlots == 0 .. (LossWindowSize - 1)
LossTypeOK ==
    lossBits \in [LossSlots -> BOOLEAN] /\ lossIndex \in Nat /\ lossCount \in 0 .. LossWindowSize
LatestOutcomes    == IF Len(outcomes) < LossWindowSize THEN Len(outcomes) ELSE LossWindowSize

\* The inductive invariant: the latest outcomes are in their slots.
LossInv ==
    /\ lossBits \in [LossSlots -> BOOLEAN]
    /\ outcomes \in Seq(BOOLEAN)
    /\ lossIndex = Len(outcomes) /\ lossCount = LatestOutcomes
    /\ \A i \in 1 .. Len(outcomes) :
           i > Len(outcomes) - LossWindowSize =>
               lossBits[(i - 1) % LossWindowSize] = outcomes[i]

LEMMA SlotInWindow == \A n \in Nat : n % LossWindowSize \in LossSlots
BY EstimatorsAssumption, PlaceInRing DEF LossSlots

\* Two outcomes less than a window apart have different slots.
LEMMA SlotsApart ==
    ASSUME NEW a \in Nat, NEW b \in Nat, a < b, b - a < LossWindowSize
    PROVE  a % LossWindowSize # b % LossWindowSize
BY EstimatorsAssumption, PlacesApart

LEMMA RecordKeeps ==
    ASSUME LossInv, NEW lost \in BOOLEAN, LossRecord(lost)
    PROVE  LossInv'
<1> DEFINE W == LossWindowSize  n == Len(outcomes)  k == n % W
<1>1. W \in Nat \ {0} /\ n \in Nat /\ lossIndex = n
  BY EstimatorsAssumption DEF LossInv
<1>2. k \in LossSlots
  BY <1>1, SlotInWindow
<1>3. outcomes' = Append(outcomes, lost) /\ lossBits' = [lossBits EXCEPT ![k] = lost]
      /\ lossIndex' = n + 1
  BY <1>1 DEF LossRecord
<1>4. outcomes' \in Seq(BOOLEAN) /\ Len(outcomes') = n + 1 /\ outcomes'[n + 1] = lost
      /\ \A i \in 1 .. n : outcomes'[i] = outcomes[i]
  BY <1>1, <1>3 DEF LossInv
<1>5. lossBits' \in [LossSlots -> BOOLEAN] /\ lossBits'[k] = lost
      /\ \A j \in LossSlots : j # k => lossBits'[j] = lossBits[j]
  BY <1>2, <1>3 DEF LossInv
<1>6. lossCount' = LatestOutcomes'
  BY <1>1, <1>4 DEF LossRecord, LossInv, LatestOutcomes
<1>7. \A i \in 1 .. (n + 1) : i > n + 1 - W => lossBits'[(i - 1) % W] = outcomes'[i]
  <2> SUFFICES ASSUME NEW i \in 1 .. (n + 1), i > n + 1 - W
               PROVE  lossBits'[(i - 1) % W] = outcomes'[i]
    OBVIOUS
  <2>1. CASE i = n + 1
    BY <1>1, <1>4, <1>5, <2>1
  <2>2. CASE i # n + 1
    <3>1. i \in 1 .. n /\ i > n - W /\ i - 1 \in Nat /\ i - 1 < n /\ n - (i - 1) < W
      BY <1>1, <2>2
    <3>2. (i - 1) % W # k
      BY <1>1, <3>1, SlotsApart
    <3>3. (i - 1) % W \in LossSlots
      BY <3>1, SlotInWindow
    <3>4. lossBits[(i - 1) % W] = outcomes[i]
      BY <3>1 DEF LossInv
    <3> QED
      BY <1>4, <1>5, <3>1, <3>2, <3>3, <3>4
  <2> QED
    BY <2>1, <2>2
<1>8. \A i \in 1 .. Len(outcomes') :
          i > Len(outcomes') - W => lossBits'[(i - 1) % W] = outcomes'[i]
  <2>1. Len(outcomes') = n + 1
    BY <1>4
  <2> SUFFICES ASSUME NEW i \in 1 .. Len(outcomes'), i > Len(outcomes') - W
               PROVE  lossBits'[(i - 1) % W] = outcomes'[i]
    OBVIOUS
  <2>2. i \in 1 .. (n + 1) /\ i > n + 1 - W
    BY <1>1, <2>1
  <2> QED
    BY <1>7, <2>2
<1> QED
  BY <1>3, <1>4, <1>5, <1>6, <1>8 DEF LossInv

\* The latest outcomes and the bits in use are the same in number.
LEMMA LossesMatch ==
    ASSUME LossInv
    PROVE  LossesCounted = Cardinality({i \in 1 .. Len(outcomes) :
                                           i > Len(outcomes) - LatestOutcomes /\ outcomes[i]})
<1> DEFINE W == LossWindowSize  n == Len(outcomes)  r == LatestOutcomes
           A == (n - r + 1) .. n  B == 0 .. (r - 1)  f == [i \in A |-> (i - 1) % W]
<1>1. W \in Nat \ {0} /\ n \in Nat /\ r \in Nat /\ r <= n /\ r <= W /\ (r < W => r = n)
  BY EstimatorsAssumption DEF LossInv, LatestOutcomes
<1>2. f \in [A -> B]
  <2> SUFFICES ASSUME NEW i \in A PROVE (i - 1) % W \in B
    OBVIOUS
  <2>1. i - 1 \in Nat /\ i - 1 < n
    BY <1>1
  <2>2. CASE r = W
    BY <2>1, <2>2, SlotInWindow DEF LossSlots
  <2>3. CASE r < W
    <3>1. \A w \in Nat \ {0} : \A j \in 0 .. (w - 1) : j % w = j
      BY Z3
    <3>2. (i - 1) % W = i - 1
      BY <1>1, <2>1, <2>3, <3>1, SMTT(30)
    <3> QED
      BY <1>1, <2>1, <2>3, <3>2
  <2> QED
    BY <1>1, <2>2, <2>3
<1>3. ASSUME NEW i \in A, NEW j \in A, i < j
      PROVE  f[i] # f[j]
  <2>1. i - 1 \in Nat /\ j - 1 \in Nat /\ i - 1 < j - 1 /\ (j - 1) - (i - 1) < W
    BY <1>1, <1>3
  <2> QED
    BY <2>1, SlotsApart
<1>4. \A i, j \in A : f[i] = f[j] => i = j
  <2>1. \A i, j \in A : i < j \/ j < i \/ i = j
    BY <1>1
  <2> HIDE DEF A, f
  <2> QED
    BY <1>3, <2>1
<1>5. f \in Surjection(A, B)
  <2>1. IsFiniteSet(A) /\ IsFiniteSet(B) /\ Cardinality(A) = r /\ Cardinality(B) = r
    <3>1. n - r + 1 \in Int /\ n \in Int /\ r - 1 \in Int /\ 0 \in Int
      BY <1>1
    <3>2. IsFiniteSet(A) /\ Cardinality(A) = IF n - r + 1 > n THEN 0 ELSE n - (n - r + 1) + 1
      BY <3>1, FS_Interval
    <3>3. IsFiniteSet(B) /\ Cardinality(B) = IF 0 > r - 1 THEN 0 ELSE r - 1 - 0 + 1
      BY <3>1, FS_Interval
    <3> HIDE DEF A, B
    <3> QED
      BY <1>1, <3>2, <3>3
  <2> HIDE DEF A, B, f
  <2>2. f \in Injection(A, B)
    BY <1>2, <1>4, Fun_IsInj
  <2> QED
    BY <2>1, <2>2, FS_Injection
<1> DEFINE P == {i \in A : outcomes[i]}  Q == {j \in B : lossBits[j]}  g == [i \in P |-> f[i]]
<1>6. \A i \in A : lossBits[f[i]] = outcomes[i]
  <2> SUFFICES ASSUME NEW i \in A PROVE lossBits[(i - 1) % W] = outcomes[i]
    OBVIOUS
  <2>1. i \in 1 .. n /\ i > n - W
    BY <1>1
  <2> QED
    BY <2>1 DEF LossInv
<1>7. \A j \in B : \E i \in A : f[i] = j
  <2> HIDE DEF A, B, f
  <2> QED
    BY <1>5, Fun_SurjectionProperties
<1>8. g \in [P -> Q] /\ (\A i, j \in P : g[i] = g[j] => i = j) /\ (\A j \in Q : \E i \in P : g[i] = j)
  <2> HIDE DEF A, B, f
  <2> QED
    BY <1>2, <1>4, <1>6, <1>7
<1>9. IsFiniteSet(P)
  <2>1. IsFiniteSet(A)
    BY <1>1, FS_Interval
  <2> HIDE DEF A
  <2> QED
    BY <2>1, FS_Subset
<1>10. Cardinality(Q) = Cardinality(P)
  <2> HIDE DEF P, Q, g
  <2>1. g \in Bijection(P, Q)
    BY <1>8, Fun_IsBij
  <2> QED
    BY <1>9, <2>1, FS_Bijection DEF ExistsBijection
<1>11. P = {i \in 1 .. n : i > n - r /\ outcomes[i]}
  BY <1>1
<1>12. LossesCounted = Cardinality(Q)
  BY DEF LossesCounted, LossInv
<1> QED
  BY <1>10, <1>11, <1>12

\* The loss window of nn_seq.c counts exactly the losses among the latest outcomes,
\* whatever its size and wherever its index stands.
THEOREM LossExact == LossSpec => [](LossIsExact /\ LossTypeOK)
<1>1. LossInit => LossInv
  BY EstimatorsAssumption DEF LossInit, LossInv, LossSlots, LatestOutcomes
<1>2. LossInv /\ [LossNext]_lossVars => LossInv'
  <2> SUFFICES ASSUME LossInv, [LossNext]_lossVars PROVE LossInv'
    OBVIOUS
  <2>1. ASSUME NEW lost \in BOOLEAN, LossRecord(lost) PROVE LossInv'
    BY <2>1, RecordKeeps
  <2>2. CASE LossReset
    BY <2>2, EstimatorsAssumption DEF LossReset, LossInv, LossSlots, LatestOutcomes
  <2>3. CASE UNCHANGED lossVars
    BY <2>3 DEF lossVars, LossInv, LatestOutcomes
  <2> QED
    BY <2>1, <2>2, <2>3 DEF LossNext
<1>3. LossInv => LossIsExact
  <2> SUFFICES ASSUME LossInv PROVE LossIsExact
    OBVIOUS
  <2>1. DOMAIN outcomes = 1 .. Len(outcomes) /\ lossCount = LatestOutcomes
    BY DEF LossInv
  <2> QED
    BY <2>1, LossesMatch DEF LossIsExact, LatestOutcomes
<1>4. LossInv => LossTypeOK
  BY EstimatorsAssumption DEF LossInv, LossTypeOK, LatestOutcomes
<1> QED
  BY <1>1, <1>2, <1>3, <1>4, PTL DEF LossSpec

-----------------------------------------------------------------------------
(* The path MTU.                                                           *)

MtuSizes    == LowBound .. HighBound
Searches == [low : MtuSizes, high : MtuSizes, current : MtuSizes, discovered : MtuSizes,
             complete : BOOLEAN, attempts : Nat]

\* The inductive invariant: beside DiscoveredIsCarried, that only probes the path
\* carries are answered, and the bounds of the search stay within those it was
\* given, although they may cross.
MtuInv ==
    /\ search \in Searches
    /\ pathMtu \in MtuSizes
    /\ answers \subseteq MtuSizes /\ \A size \in answers : size <= pathMtu
    /\ succeeded \subseteq MtuSizes
    /\ DiscoveredIsCarried

\* The probes of a search are counted, and their age up to where they time out.
MtuCounts == search.attempts <= MaxAttempts /\ sinceProbe \in {NeverProbed} \cup 0 .. ProbeTimeout

LEMMA MidpointBetween ==
    ASSUME NEW s \in Searches
    PROVE  Midpoint(s) \in MtuSizes
<1>1. s.low \in MtuSizes /\ s.high \in MtuSizes
  BY DEF Searches
<1>2. \A a, b \in MtuSizes : (a + b) \div 2 \in MtuSizes
  BY MtuAssumption DEF MtuSizes
<1> QED
  BY <1>1, <1>2 DEF Midpoint

LEMMA NextProbeKeeps == MtuInv /\ NextProbe => MtuInv'
<1> SUFFICES ASSUME MtuInv, NextProbe PROVE MtuInv'
  OBVIOUS
<1>1. CASE Done(search) /\ search' = [search EXCEPT !.complete = TRUE] /\ UNCHANGED <<sinceProbe, answers>>
  BY <1>1 DEF NextProbe, MtuInv, Searches, DiscoveredIsCarried
<1>2. CASE /\ search' = [search EXCEPT !.current = Midpoint(search), !.attempts = @ + 1]
           /\ answers' = IF Midpoint(search) <= pathMtu THEN answers \cup {Midpoint(search)} ELSE answers
  <2>1. Midpoint(search) \in MtuSizes
    BY MidpointBetween DEF MtuInv
  <2>2. search' \in Searches /\ search'.discovered = search.discovered
    <3>1. search \in Searches
      BY DEF MtuInv
    <3>2. search.attempts + 1 \in Nat
      BY <3>1 DEF Searches
    <3> DEFINE mid == Midpoint(search)  tries == search.attempts + 1
    <3> HIDE DEF mid, tries
    <3>3. [search EXCEPT !.current = mid, !.attempts = tries] \in Searches
          /\ [search EXCEPT !.current = mid, !.attempts = tries].discovered = search.discovered
      BY <2>1, <3>1, <3>2 DEF Searches, mid, tries
    <3> QED
      BY <1>2, <3>3 DEF mid, tries
  <2>3. answers' \subseteq MtuSizes /\ \A size \in answers' : size <= pathMtu
    BY <1>2, <2>1 DEF MtuInv
  <2> QED
    BY <2>2, <2>3 DEF NextProbe, MtuInv, DiscoveredIsCarried
<1> QED
  BY <1>1, <1>2 DEF NextProbe

LEMMA OnProbeSuccessKeeps ==
    ASSUME MtuInv, NEW size \in answers, OnProbeSuccess(size)
    PROVE  MtuInv'
<1>1. size \in MtuSizes /\ size <= pathMtu /\ search.discovered \in MtuSizes /\ search.low \in MtuSizes
      /\ search.discovered <= pathMtu
  BY DEF MtuInv, Searches, DiscoveredIsCarried
<1>2. AtLeastSize(search.low, size) \in MtuSizes /\ AtLeastSize(search.discovered, size) \in MtuSizes
  BY <1>1 DEF AtLeastSize
<1>3. search' \in Searches /\ search'.discovered = AtLeastSize(search.discovered, size)
  BY <1>2 DEF OnProbeSuccess, MtuInv, Searches
<1>4. AtLeastSize(search.discovered, size) <= pathMtu /\ size <= AtLeastSize(search.discovered, size)
      /\ search.discovered <= AtLeastSize(search.discovered, size)
  BY <1>1, MtuAssumption DEF AtLeastSize, MtuSizes
<1>5. \A s \in succeeded' : s <= search'.discovered
  BY <1>1, <1>2, <1>3, <1>4, MtuAssumption DEF OnProbeSuccess, MtuInv, DiscoveredIsCarried, MtuSizes
<1> QED
  BY <1>1, <1>3, <1>4, <1>5 DEF OnProbeSuccess, MtuInv, DiscoveredIsCarried

LEMMA MtuCountsKept == MtuInv /\ MtuCounts /\ [MtuNext]_mtuVars => MtuCounts'
<1> SUFFICES ASSUME MtuInv, MtuCounts, [MtuNext]_mtuVars PROVE MtuCounts'
  OBVIOUS
<1> USE MtuAssumption DEF MtuCounts, NeverProbed
<1>1. search \in Searches /\ search.attempts \in Nat
  BY DEF MtuInv, Searches
<1>2. CASE NextProbe
  <2>1. CASE Done(search) /\ search' = [search EXCEPT !.complete = TRUE] /\ UNCHANGED <<sinceProbe, answers>>
    BY <1>1, <2>1 DEF Searches
  <2>2. CASE ~Done(search) /\ search' = [search EXCEPT !.current = Midpoint(search), !.attempts = @ + 1]
             /\ sinceProbe' = 0
    BY <1>1, <2>2 DEF Searches, Done
  <2> QED
    BY <1>2, <2>1, <2>2 DEF NextProbe
<1>3. ASSUME NEW size \in answers, OnProbeSuccess(size) PROVE MtuCounts'
  BY <1>1, <1>3 DEF OnProbeSuccess, Searches
<1>4. CASE CheckProbeTimeout
  BY <1>1, <1>4 DEF CheckProbeTimeout, Searches
<1>5. CASE ProbeAges
  BY <1>1, <1>5 DEF ProbeAges
<1>6. CASE UNCHANGED mtuVars
  BY <1>6 DEF mtuVars
<1> QED
  BY <1>2, <1>3, <1>4, <1>5, <1>6 DEF MtuNext

\* In whatever order the four operations of Mtu.hs are called and answers come,
\* the size reported is one the path carries, and no answered one is above it.
THEOREM DiscoveredCarried == MtuSpec => [](DiscoveredIsCarried /\ MtuTypeOK)
<1>1. MtuInit => MtuInv
  <2> SUFFICES ASSUME MtuInit PROVE MtuInv
    OBVIOUS
  <2>1. LowBound \in MtuSizes /\ HighBound \in MtuSizes /\ (LowBound + HighBound) \div 2 \in MtuSizes
    BY MtuAssumption DEF MtuSizes
  <2>2. search \in Searches /\ search.discovered = LowBound
    BY <2>1 DEF MtuInit, Searches
  <2>3. pathMtu \in MtuSizes /\ LowBound <= pathMtu /\ answers = {} /\ succeeded = {}
    BY MtuAssumption DEF MtuInit, MtuSizes
  <2> QED
    BY <2>2, <2>3 DEF MtuInv, DiscoveredIsCarried
<1>2. MtuInv /\ [MtuNext]_mtuVars => MtuInv'
  <2> SUFFICES ASSUME MtuInv, [MtuNext]_mtuVars PROVE MtuInv'
    OBVIOUS
  <2>1. CASE NextProbe
    BY <2>1, NextProbeKeeps
  <2>2. ASSUME NEW size \in answers, OnProbeSuccess(size) PROVE MtuInv'
    BY <2>2, OnProbeSuccessKeeps
  <2>3. CASE CheckProbeTimeout
    BY <2>3 DEF CheckProbeTimeout, MtuInv, Searches, DiscoveredIsCarried
  <2>4. CASE ProbeAges
    BY <2>4 DEF ProbeAges, MtuInv, DiscoveredIsCarried
  <2>5. CASE UNCHANGED mtuVars
    BY <2>5 DEF mtuVars, MtuInv, DiscoveredIsCarried
  <2> QED
    BY <2>1, <2>2, <2>3, <2>4, <2>5 DEF MtuNext
<1>3. MtuInit => MtuCounts
  BY MtuAssumption DEF MtuInit, MtuCounts
<1>4. MtuInv /\ MtuCounts => DiscoveredIsCarried /\ MtuTypeOK
  BY MtuAssumption DEF MtuInv, MtuCounts, MtuTypeOK, MtuSizes, Searches
<1> QED
  BY <1>1, <1>2, <1>3, <1>4, MtuCountsKept, PTL DEF MtuSpec

-----------------------------------------------------------------------------
(* A behaviour of Parts is, for every part, one of that part or one in which it rests. *)

LEMMA FollowsAssembler == Spec => FragmentSpec
<1>1. Init => FragmentInit
  BY ZenonT(30) DEF Init
<1>2. [Next]_partsVars => [FragmentNext]_fragmentVars
  BY DEF Next, OthersRest, Rests, partsVars, messageVars
<1> QED
  BY <1>1, <1>2, PTL DEF Spec, FragmentSpec

LEMMA FollowsRate == Spec => AimdSpec
<1>1. Init => AimdInit
  BY ZenonT(30) DEF Init
<1>2. [Next]_partsVars => [AimdNext]_aimdVars
  BY DEF Next, OthersRest, Rests, partsVars, controlVars
<1> QED
  BY <1>1, <1>2, PTL DEF Spec, AimdSpec

LEMMA FollowsWindow == Spec => CwndSpec
<1>1. Init => CwndInit
  BY ZenonT(30) DEF Init
<1>2. [Next]_partsVars => [CwndNext]_cwndVars
  BY DEF Next, OthersRest, Rests, partsVars, controlVars
<1> QED
  BY <1>1, <1>2, PTL DEF Spec, CwndSpec

LEMMA FollowsRoundTrip == Spec => RttSpec
<1>1. Init => RttInit
  BY ZenonT(30) DEF Init
<1>2. [Next]_partsVars => [RttNext]_rttVars
  BY DEF Next, OthersRest, Rests, partsVars, pathVars
<1> QED
  BY <1>1, <1>2, PTL DEF Spec, RttSpec

LEMMA FollowsLosses == Spec => LossSpec
<1>1. Init => LossInit
  BY ZenonT(30) DEF Init
<1>2. [Next]_partsVars => [LossNext]_lossVars
  BY DEF Next, OthersRest, Rests, partsVars, pathVars
<1> QED
  BY <1>1, <1>2, PTL DEF Spec, LossSpec

LEMMA FollowsMigration == Spec => MigrationSpec
<1>1. Init => MigrationInit
  BY ZenonT(30) DEF Init
<1>2. [Next]_partsVars => [MigrationNext]_migrationVars
  BY DEF Next, OthersRest, Rests, partsVars, pathVars
<1> QED
  BY <1>1, <1>2, PTL DEF Spec, MigrationSpec

LEMMA FollowsMtu == Spec => MtuSpec
<1>1. Init => MtuInit
  BY ZenonT(30) DEF Init
<1>2. [Next]_partsVars => [MtuNext]_mtuVars
  BY DEF Next, OthersRest, Rests, partsVars, pathVars
<1> QED
  BY <1>1, <1>2, PTL DEF Spec, MtuSpec

LEMMA FollowsLimiter == Spec => LimiterSpec
<1>1. Init => LimiterInit
  BY ZenonT(30) DEF Init
<1>2. [Next]_partsVars => [LimiterNext]_limiterVars
  BY DEF Next, OthersRest, Rests, partsVars, securityVars
<1> QED
  BY <1>1, <1>2, PTL DEF Spec, LimiterSpec

LEMMA FollowsTokens == Spec => TokenSpec
<1>1. Init => TokenInit
  BY ZenonT(30) DEF Init
<1>2. [Next]_partsVars => [TokenNext]_tokenVars
  BY DEF Next, OthersRest, Rests, partsVars, securityVars
<1> QED
  BY <1>1, <1>2, PTL DEF Spec, TokenSpec

LEMMA FollowsBandwidth == Spec => BandwidthSpec
<1>1. Init => BandwidthInit
  BY ZenonT(30) DEF Init
<1>2. [Next]_partsVars => [BandwidthNext]_bandwidthVars
  BY DEF Next, OthersRest, Rests, partsVars, pathVars
<1> QED
  BY <1>1, <1>2, PTL DEF Spec, BandwidthSpec

LEMMA FollowsWorld == Spec => WorldSpec
<1>1. Init => WorldInit
  BY ZenonT(30) DEF Init
<1>2. [Next]_partsVars => [WorldNext]_worldVars
  BY DEF Next, OthersRest, Rests, partsVars, networkVars
<1> QED
  BY <1>1, <1>2, PTL DEF Spec, WorldSpec

LEMMA FollowsSimulator == Spec => SimSpec
<1>1. Init => SimInit
  BY ZenonT(30) DEF Init
<1>2. [Next]_partsVars => [SimNext]_simVars
  BY DEF Next, OthersRest, Rests, partsVars, networkVars
<1> QED
  BY <1>1, <1>2, PTL DEF Spec, SimSpec

LEMMA FollowsMac == Spec => MacSpec
<1>1. Init => MacInit
  BY ZenonT(30) DEF Init
<1>2. [Next]_partsVars => [MacNext]_macVars
  BY DEF Next, OthersRest, Rests, partsVars, cryptoVars
<1> QED
  BY <1>1, <1>2, PTL DEF Spec, MacSpec

LEMMA FollowsDelta == Spec => DeltaSpec
<1>1. Init => DeltaInit
  BY ZenonT(30) DEF Init
<1>2. [Next]_partsVars => [DeltaNext]_deltaVars
  BY DEF Next, OthersRest, Rests, partsVars, replicationVars
<1> QED
  BY <1>1, <1>2, PTL DEF Spec, DeltaSpec

LEMMA FollowsPriority == Spec => PrioritySpec
<1>1. Init => PriorityInit
  BY ZenonT(30) DEF Init
<1>2. [Next]_partsVars => [PriorityNext]_priorityVars
  BY DEF Next, OthersRest, Rests, partsVars, replicationVars
<1> QED
  BY <1>1, <1>2, PTL DEF Spec, PrioritySpec

LEMMA FollowsChecksum == Spec => ChecksumSpec
<1>1. Init => ChecksumInit
  BY ZenonT(30) DEF Init
<1>2. [Next]_partsVars => [ChecksumNext]_checksumVars
  BY DEF Next, OthersRest, Rests, partsVars, cryptoVars
<1> QED
  BY <1>1, <1>2, PTL DEF Spec, ChecksumSpec

LEMMA FollowsSealing == Spec => AeadSpec
<1>1. Init => AeadInit
  BY ZenonT(30) DEF Init
<1>2. [Next]_partsVars => [AeadNext]_aeadVars
  BY DEF Next, OthersRest, Rests, partsVars, cryptoVars
<1> QED
  BY <1>1, <1>2, PTL DEF Spec, AeadSpec

LEMMA FollowsBatch == Spec => BatchSpec
<1>1. Init => BatchInit
  BY ZenonT(30) DEF Init
<1>2. [Next]_partsVars => [BatchNext]_batchVars
  BY DEF Next, OthersRest, Rests, partsVars, messageVars
<1> QED
  BY <1>1, <1>2, PTL DEF Spec, BatchSpec

LEMMA FollowsSlices == Spec => SlicesSpec
<1>1. Init => SlicesInit
  BY ZenonT(30) DEF Init
<1>2. [Next]_partsVars => [SlicesNext]_sliceVars
  BY DEF Next, OthersRest, Rests, partsVars, messageVars
<1> QED
  BY <1>1, <1>2, PTL DEF Spec, SlicesSpec

LEMMA FollowsWire == Spec => WireSpec
<1>1. Init => WireInit
  BY ZenonT(30) DEF Init
<1>2. [Next]_partsVars => [WireNext]_wireVars
  BY DEF Next, OthersRest, Rests, partsVars, messageVars
<1> QED
  BY <1>1, <1>2, PTL DEF Spec, WireSpec

LEMMA FollowsInterpolation == Spec => InterpolationSpec
<1>1. Init => InterpolationInit
  BY ZenonT(30) DEF Init
<1>2. [Next]_partsVars => [InterpolationNext]_interpolationVars
  BY DEF Next, OthersRest, Rests, partsVars, replicationVars
<1> QED
  BY <1>1, <1>2, PTL DEF Spec, InterpolationSpec

\* WindowIsTrue: the window controller's phase says where its window stands to its
\* threshold, and it counts in flight no less than what is tracked (nn_cong_cwnd).
THEOREM WindowTrue == Spec => []WindowIsTrue
BY FollowsWindow, WindowAgrees, PTL DEF WindowIsTrue

\* GatesHold: the limiter still counts what it admitted in the last second, as far as it
\* remembers sources, and the validator refuses a token used while it is remembered.
THEOREM Gates == Spec => []GatesHold
BY FollowsLimiter, FollowsTokens, LimitExact, RecentRemembered, PTL DEF GatesHold

\* PathIsMeasured: the round-trip time lies among its samples, the loss window counts the
\* last packets, the rate is that of the last transfers, and the MTU that is found was
\* carried by the path.
THEOREM PathMeasured == Spec => []PathIsMeasured
BY FollowsRoundTrip, FollowsLosses, FollowsBandwidth, FollowsMtu, RoundTripAmongSamples, LossExact,
   RateOfTransfers, DiscoveredCarried, PTL DEF PathIsMeasured

\* NetworksKeepAccounts: the networks the tests run on lose, invent and misdirect no copy of
\* a packet once it is scheduled, and let none through that their latency or bandwidth forbids.
THEOREM NetworksKeep == Spec => []NetworksKeepAccounts
BY FollowsWorld, FollowsSimulator, WorldDeliversAsSent, SimulatorKeepsAccounts, PTL
   DEF NetworksKeepAccounts

\* AssembledWhole and AssemblerAccounts: what the assembler hands on is a message as it was
\* sent, and its books are those of the fragments it holds (nn_fragment and Fragment.hs).
THEOREM Assembling == Spec => [](AssembledWhole /\ AssemblerAccounts)
BY FollowsAssembler, WholeMessages, AccountsKept, PTL

\* DamageIsFound: a packet that arrives as it was sent is accepted, and one damaged within
\* the width of a checksum is refused, whatever the two ends are built for.
THEOREM ChecksumHolds == Spec => []DamageIsFound
BY FollowsChecksum, DamageFound, PTL

\* OpenedIsSealed, for the sealing in a behaviour of all the parts.
THEOREM Sealing == Spec => []OpenedIsSealed
BY FollowsSealing, SealingSound, PTL

\* BatchIsRead and SlicesJoin: what is taken out of a batch, and what its slices join to, is
\* what was put in (nn_batch and splitMessage), for messages and bytes of every size.
THEOREM PutTogether == Spec => [](BatchIsRead /\ SlicesJoin)
BY FollowsBatch, FollowsSlices, BatchReadBack, SlicesJoined, PTL

\* WrittenIsRead: and also what is understood of datagrams, in whatever order they arrive and
\* whichever are damaged (nn_packet, Peer.hs and Peer/Protocol.hs), is what was written, for
\* headers, messages and bytes of every size, as long as message identifiers do not come round.
THEOREM ReadAsWritten == IdsLast => (Spec => []WrittenIsRead)
<1> SUFFICES ASSUME IdsLast PROVE Spec => []WrittenIsRead
  OBVIOUS
<1>1. WireSpec => []ReadIsWritten
  BY MessagesRead
<1> QED
  BY <1>1, FollowsWire, PutTogether, PTL DEF WrittenIsRead

\* MacIsExact: the tag the authenticator writes (nn_crypto.c, poly1305) is the residue of the
\* message's polynomial plus the pad, to the bit, if a limb has room for its carries (seven
\* bits or more; the code's have 26, the run's five).
THEOREM Authenticating == ASSUME Base >= 128 PROVE Spec => []MacIsExact
BY FollowsMac, MacExact, PTL

\* ReplicaIsTrue: a replica decodes the states that were encoded, shows what lies between
\* them, and hears of every entity that fits the budget, if MaxWait is as long as it may take
\* with that many entities (see NobodyStarves).
THEOREM ReplicaTrue ==
    ASSUME NEW peak \in [Nat -> Nat], Climbs(peak), IsFiniteSet(Entities), Entities # {},
           peak[Cardinality(Entities) - 1] + Cardinality(Entities) - 1 <= MaxWait,
           MaxPending <= Numbers
    PROVE  Spec => []ReplicaIsTrue
<1>1. PrioritySpec => []NothingStarves
  BY NobodyStarves
<1>2. DeltaSpec => []DecodedIsSent
  BY DecodedAsSent, PTL
<1> QED
  BY <1>1, <1>2, FollowsDelta, FollowsInterpolation, FollowsPriority, PlaybackSound, PTL
     DEF ReplicaIsTrue

\* PartsTypeOK: every part's state is one its code can hold, for every choice of the
\* constants in which no two snapshots that await an acknowledgment share a number.
THEOREM PartsTyped == ASSUME MaxPending <= Numbers PROVE Spec => []PartsTypeOK
<1>1. RttTypeOK /\ LossTypeOK => EstimatorsTypeOK
  BY DEF RttTypeOK, LossTypeOK, LossSlots, EstimatorsTypeOK
<1>2. Spec => [](FragmentTypeOK /\ AimdTypeOK /\ BudgetWithinRate /\ RecoveryStaysShort /\ CwndTypeOK)
  BY FollowsAssembler, AccountsKept, FollowsRate, RateTypeCorrect, RateAndBudget, RecoveryShort,
     FollowsWindow, WindowAgrees, PTL
<1>3. Spec => [](EstimatorsTypeOK /\ MigrationTypeOK /\ MtuTypeOK /\ LimiterTypeOK /\ TokenTypeOK)
  BY <1>1, FollowsRoundTrip, RoundTripAmongSamples, FollowsLosses, LossExact, FollowsMigration,
     PlacesTyped, FollowsMtu, DiscoveredCarried, FollowsLimiter, LimitExact, FollowsTokens, TokensTyped, PTL
<1>4. DeltaSpec => []DeltaTypeOK
  BY DecodedAsSent, PTL
<1>5. Spec => [](DeltaTypeOK /\ PriorityTypeOK /\ WorldTypeOK /\ SimTypeOK /\ LimbsFit)
  BY <1>4, FollowsDelta, FollowsPriority, PrioritiesTyped, FollowsWorld, WorldDeliversAsSent,
     FollowsSimulator, SimulatorKeepsAccounts, FollowsMac, RoomForCarries, PTL
<1> QED
  BY <1>2, <1>3, <1>5, PTL DEF PartsTypeOK
=============================================================================
