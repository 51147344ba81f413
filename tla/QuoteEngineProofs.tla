-------------------------- MODULE QuoteEngineProofs --------------------------
(***************************************************************************)
(* Proofs about QuoteEngine, for any configuration.                        *)
(***************************************************************************)
EXTENDS QuoteEngine, WellFoundedInduction, TLAPS

----------------------------------------------------------------------------
(* Arithmetic.                                                              *)

LEMMA MulMonotone ==
    ASSUME NEW a \in Int, NEW b \in Int, NEW c \in Nat, a <= b
    PROVE  a * c <= b * c
  OBVIOUS

LEMMA MulStrict ==
    ASSUME NEW a \in Int, NEW b \in Int, NEW c \in Nat \ {0}, a < b
    PROVE  a * c < b * c
  OBVIOUS

LEMMA MulNat ==
    ASSUME NEW a \in Nat, NEW b \in Nat
    PROVE  a * b \in Nat
  OBVIOUS

LEMMA MulPositive ==
    ASSUME NEW a \in Nat \ {0}, NEW b \in Nat \ {0}
    PROVE  a * b \in Nat \ {0}
  OBVIOUS

LEMMA DivBounds ==
    ASSUME NEW a \in Int, NEW n \in Nat \ {0}
    PROVE  /\ a \div n \in Int
           /\ n * (a \div n) <= a
           /\ a < n * (a \div n) + n
  OBVIOUS

LEMMA Swap ==
    ASSUME NEW a \in Int, NEW b \in Int, NEW c \in Int
    PROVE  (a * b) * c = (a * c) * b
  OBVIOUS

LEMMA CancelStrict ==
    ASSUME NEW a \in Int, NEW b \in Int, NEW c \in Nat \ {0}, a * c < b * c
    PROVE  a < b
  OBVIOUS

LEMMA CancelWeak ==
    ASSUME NEW a \in Int, NEW b \in Int, NEW c \in Nat \ {0}, a * c <= b * c
    PROVE  a <= b
  OBVIOUS

----------------------------------------------------------------------------
(* The parameters.                                                          *)

LEMMA Parameters ==
    /\ Spread \in Nat \ {0} /\ Spacing \in Nat \ {0} /\ Levels \in Nat \ {0}
    /\ Bps \in Nat \ {0} /\ SkewDen \in Nat \ {0} /\ VolTarget \in Nat \ {0}
    /\ MaxPosition \in Nat \ {0} /\ SigFig \in Nat \ {0}
    /\ SkewNum \in Nat /\ SkewNum <= SkewDen /\ 15 * Spread < 2 * Bps
    /\ MaxPosition * SkewDen \in Nat \ {0}
    /\ Half \in Nat \ {0}
    /\ Denominator \in Nat \ {0}
<1>1. /\ Spread \in Nat \ {0} /\ Spacing \in Nat \ {0} /\ Levels \in Nat \ {0}
      /\ Bps \in Nat \ {0} /\ SkewDen \in Nat \ {0} /\ VolTarget \in Nat \ {0}
      /\ MaxPosition \in Nat \ {0} /\ SigFig \in Nat \ {0}
      /\ SkewNum \in Nat /\ SkewNum <= SkewDen /\ 15 * Spread < 2 * Bps
  BY QuoteEngineAssumption
<1>2. 2 * MaxPosition \in Nat \ {0}
  BY <1>1
<1>3. 2 * MaxPosition * SkewDen \in Nat \ {0}
  BY <1>1, <1>2, MulPositive
<1>4. 2 * MaxPosition * SkewDen * VolTarget \in Nat \ {0}
  BY <1>1, <1>3, MulPositive
<1>5. Half \in Nat \ {0}
  BY <1>1, <1>4, MulPositive DEF Half
<1>6. Denominator \in Nat \ {0}
  <2>1. Half * Bps \in Nat \ {0}
    BY <1>1, <1>5, MulPositive
  <2> QED
    BY <2>1 DEF Denominator
<1>7. MaxPosition * SkewDen \in Nat \ {0}
  BY <1>1, MulPositive
<1> QED
  BY <1>1, <1>5, <1>6, <1>7

----------------------------------------------------------------------------
(* The price quantum.                                                       *)

Below == {pair \in Nat \X Nat : pair[1] < pair[2]}

LEMMA BelowWellFounded == IsWellFoundedOn(Below, Nat)
  BY NatLessThanWellFounded DEF OpToRel, Below

LEMMA Least ==
    ASSUME NEW S, S \subseteq Nat, S # {}
    PROVE  \E x \in S : \A y \in S : x <= y
<1>1. \E x \in S : \A y \in S : ~(<<y, x>> \in Below)
  BY BelowWellFounded, WFMin, Zenon
<1>2. ASSUME NEW x \in Nat, NEW y \in Nat, ~(<<y, x>> \in Below)
      PROVE  x <= y
  <2>1. <<y, x>> \in Nat \X Nat
    OBVIOUS
  <2>2. ~(y < x)
    BY <1>2, <2>1 DEF Below
  <2> QED
    BY <2>2
<1> QED
  BY <1>1, <1>2

LEMMA QuantumType ==
    ASSUME NEW raw \in Int
    PROVE  Quantum(raw) \in Nat \ {0}
<1> DEFINE Fits(q) == raw < q * SigFig * Denominator
           F == {q \in Quanta : Fits(q)}
<1>1. Quanta \subseteq Nat \ {0} /\ Whole \in Quanta
  BY QuoteEngineAssumption
<1>2. CASE ~ \E q \in Quanta : Fits(q)
  BY <1>1, <1>2 DEF Quantum
<1>3. CASE \E q \in Quanta : Fits(q)
  <2>1. F \subseteq Nat /\ F # {}
    BY <1>1, <1>3
  <2>2. \E q \in F : \A r \in F : q <= r
    <3> HIDE DEF F
    <3> QED
    BY <2>1, Least
  <2>3. \E q \in Quanta : Fits(q) /\ \A r \in Quanta : Fits(r) => q <= r
    BY <2>2
  <2>4. (CHOOSE q \in Quanta : Fits(q) /\ \A r \in Quanta : Fits(r) => q <= r) \in Quanta
    <3> HIDE DEF Fits
    <3> QED
    BY <2>3
  <2> QED
    BY <1>1, <1>3, <2>4 DEF Quantum
<1> QED
  BY <1>2, <1>3

(* A bid is rounded down and an ask up, whatever the quantum.               *)
LEMMA BidRounding ==
    ASSUME NEW raw \in Int
    PROVE  BidPrice(raw) \in Int /\ BidPrice(raw) * Denominator <= raw
<1> DEFINE q == Quantum(raw)
<1>1. q \in Nat \ {0} /\ Denominator \in Nat \ {0}
  BY QuantumType, Parameters
<1> HIDE DEF q
<1>2. q * Denominator \in Nat \ {0}
  BY <1>1, MulPositive
<1>3. /\ raw \div (q * Denominator) \in Int
      /\ (q * Denominator) * (raw \div (q * Denominator)) <= raw
  BY <1>2, DivBounds
<1> DEFINE d == raw \div (q * Denominator)
<1>4. (q * d) * Denominator = (q * Denominator) * d
  <2> HIDE DEF d
  <2>1. d \in Int
    BY <1>3 DEF d
  <2> QED
    BY <1>1, <2>1, Swap
<1>5. BidPrice(raw) = q * d
  BY DEF BidPrice, Down, q
<1>6. q * d \in Int
  BY <1>1, <1>3
<1> QED
  BY <1>3, <1>4, <1>5, <1>6

LEMMA AskRounding ==
    ASSUME NEW raw \in Int
    PROVE  AskPrice(raw) \in Int /\ raw <= AskPrice(raw) * Denominator
<1> DEFINE q == Quantum(raw)
           n == q * Denominator
           d == (raw + n - 1) \div n
<1>1. q \in Nat \ {0} /\ Denominator \in Nat \ {0}
  BY QuantumType, Parameters
<1>2. n \in Nat \ {0}
  <2> HIDE DEF q
  <2> QED
    BY <1>1, MulPositive
<1>3. d \in Int /\ raw + n - 1 < n * d + n
  <2> HIDE DEF n
  <2> QED
    BY <1>2, DivBounds
<1>4. raw <= n * d
  <2> HIDE DEF n, d
  <2>1. n * d \in Int
    BY <1>2, <1>3
  <2> QED
    BY <1>2, <1>3, <2>1
<1>5. (q * d) * Denominator = n * d
  <2> HIDE DEF d, q
  <2> QED
    BY <1>1, <1>3, Swap DEF n
<1>6. AskPrice(raw) = q * d
  BY DEF AskPrice, Up, q
<1>7. q * d \in Int
  <2> HIDE DEF d, q
  <2> QED
    BY <1>1, <1>3
<1> QED
  BY <1>4, <1>5, <1>6, <1>7

----------------------------------------------------------------------------
(* The offsets from the mid.                                                *)

M == MaxPosition * SkewDen

LEMMA SpreadBounds ==
    ASSUME NEW vol \in Nat
    PROVE  /\ EffectiveSpread(vol) \in Nat \ {0}
           /\ EffectiveSpread(vol) <= 5 * Spread * VolTarget
<1> DEFINE c == Clamp(vol, VolTarget, 5 * VolTarget)
<1>1. c \in Nat \ {0} /\ c <= 5 * VolTarget
  BY Parameters DEF Clamp
<1> HIDE DEF c
<1>2. Spread * c \in Nat \ {0}
  BY <1>1, Parameters, MulPositive
<1>3. c * Spread <= (5 * VolTarget) * Spread
  BY <1>1, Parameters, MulMonotone
<1>4. Spread * c = c * Spread /\ (5 * VolTarget) * Spread = 5 * Spread * VolTarget
  BY <1>1, Parameters
<1> QED
  BY <1>2, <1>3, <1>4 DEF EffectiveSpread, c

(* The part of the offset that the position moves.                          *)
LEMMA SkewBounds ==
    ASSUME NEW position \in Int
    PROVE  /\ 2 * SkewNum * Skew(position) \in Int
           /\ -(2 * M) <= 2 * SkewNum * Skew(position)
           /\ 2 * SkewNum * Skew(position) <= 2 * M
           /\ 2 * SkewNum <= SkewDen => /\ -M <= 2 * SkewNum * Skew(position)
                                        /\ 2 * SkewNum * Skew(position) <= M
<1> DEFINE s == Skew(position)
<1>1. s \in Int /\ -MaxPosition <= s /\ s <= MaxPosition
  BY Parameters DEF Skew, Clamp
<1> HIDE DEF s
<1>2. ASSUME NEW f \in Nat, NEW g \in Nat, f <= g
      PROVE  /\ f * s \in Int
             /\ f * s <= MaxPosition * g
             /\ -(MaxPosition * g) <= f * s
  <2>1. s * f <= MaxPosition * f /\ (-MaxPosition) * f <= s * f
    BY <1>1, <1>2, Parameters, MulMonotone
  <2>2. f * MaxPosition <= g * MaxPosition
    BY <1>2, Parameters, MulMonotone
  <2>3. /\ s * f \in Int /\ f * s = s * f
        /\ f * MaxPosition = MaxPosition * f
        /\ g * MaxPosition = MaxPosition * g
        /\ (-MaxPosition) * f = -(MaxPosition * f)
        /\ MaxPosition * f \in Int /\ MaxPosition * g \in Int
    BY <1>1, <1>2, Parameters
  <2> QED
    BY <2>1, <2>2, <2>3
<1>3. 2 * SkewNum \in Nat /\ 2 * SkewDen \in Nat /\ SkewDen \in Nat
  BY Parameters
<1>4. 2 * SkewNum <= 2 * SkewDen
  BY Parameters
<1>5. MaxPosition * (2 * SkewDen) = 2 * M
  BY Parameters DEF M
<1>6. /\ 2 * SkewNum * s \in Int
      /\ 2 * SkewNum * s <= 2 * M /\ -(2 * M) <= 2 * SkewNum * s
  BY <1>2, <1>3, <1>4, <1>5
<1>7. ASSUME 2 * SkewNum <= SkewDen
      PROVE  2 * SkewNum * s <= M /\ -M <= 2 * SkewNum * s
  BY <1>2, <1>3, <1>7 DEF M
<1> QED
  BY <1>6, <1>7 DEF s

(* Both prices stay positive, and the gap between them is a whole spread    *)
(* however they are skewed.                                                 *)
LEMMA Offsets ==
    ASSUME NEW position \in Int, NEW vol \in Nat
    PROVE  /\ BidOffset(position, vol) \in Int
           /\ AskOffset(position, vol) \in Int
           /\ BidOffset(position, vol) < Half
           /\ -BidOffset(position, vol) < AskOffset(position, vol)
           /\ 2 * SkewNum <= SkewDen => /\ 0 <= BidOffset(position, vol)
                                        /\ 0 <= AskOffset(position, vol)
<1> DEFINE e == EffectiveSpread(vol)
           x == 2 * SkewNum * Skew(position)
<1>1. e \in Nat \ {0} /\ e <= 5 * Spread * VolTarget
  BY SpreadBounds
<1>2. /\ M \in Nat \ {0} /\ x \in Int
      /\ -(2 * M) <= x /\ x <= 2 * M
      /\ 2 * SkewNum <= SkewDen => -M <= x /\ x <= M
  BY SkewBounds, Parameters DEF M
<1>3. BidOffset(position, vol) = e * (M + x) /\ AskOffset(position, vol) = e * (M - x)
  BY DEF BidOffset, AskOffset, M
<1> HIDE DEF e, x
<1>4. e * (M + x) \in Int /\ e * (M - x) \in Int
  BY <1>1, <1>2
<1>5. e * (M + x) < Half
  <2>1. (M + x) * e <= (3 * M) * e
    BY <1>1, <1>2, MulMonotone
  <2>2. 5 * Spread * VolTarget \in Nat
    BY Parameters
  <2>3. e * (3 * M) <= (5 * Spread * VolTarget) * (3 * M)
    BY <1>1, <1>2, <2>2, MulMonotone
  <2>4. VolTarget * M \in Nat \ {0}
    BY <1>2, Parameters, MulPositive
  <2>5. (15 * Spread) * (VolTarget * M) < (2 * Bps) * (VolTarget * M)
    <3>1. 15 * Spread \in Int /\ 2 * Bps \in Int /\ 15 * Spread < 2 * Bps
      BY Parameters
    <3> QED
      BY <2>4, <3>1, MulStrict
  <2>6. (5 * Spread * VolTarget) * (3 * M) = (15 * Spread) * (VolTarget * M)
    BY <1>2, Parameters
  <2>7. (2 * Bps) * (VolTarget * M) = Half
    BY Parameters DEF Half, M
  <2>8. e * (M + x) = (M + x) * e /\ (3 * M) * e = e * (3 * M)
    BY <1>1, <1>2
  <2> QED
    BY <1>1, <1>2, <1>4, <2>1, <2>3, <2>4, <2>5, <2>6, <2>7, <2>8, Parameters
<1>6. -(e * (M + x)) < e * (M - x)
  <2>1. e * (M + x) + e * (M - x) = 2 * (e * M)
    BY <1>1, <1>2
  <2>2. e * M \in Nat \ {0}
    BY <1>1, <1>2, MulPositive
  <2> QED
    BY <1>4, <2>1, <2>2
<1>7. ASSUME 2 * SkewNum <= SkewDen
      PROVE  0 <= e * (M + x) /\ 0 <= e * (M - x)
  <2>1. M + x \in Nat /\ M - x \in Nat
    BY <1>2, <1>7
  <2> QED
    BY <1>1, <2>1, MulNat
<1> QED
  BY <1>3, <1>4, <1>5, <1>6, <1>7

(* What the mid is multiplied with for the best bid and the best ask.       *)
LEMMA Factors ==
    ASSUME NEW position \in Int, NEW vol \in Nat
    PROVE  /\ Half - BidOffset(position, vol) \in Nat \ {0}
           /\ Half + AskOffset(position, vol) \in Nat \ {0}
           /\ Half - BidOffset(position, vol) < Half + AskOffset(position, vol)
           /\ 2 * SkewNum <= SkewDen =>
                  /\ Half - BidOffset(position, vol) <= Half
                  /\ Half <= Half + AskOffset(position, vol)
           /\ Half \in Int
<1>1. /\ BidOffset(position, vol) \in Int /\ AskOffset(position, vol) \in Int
      /\ BidOffset(position, vol) < Half
      /\ -BidOffset(position, vol) < AskOffset(position, vol)
      /\ 2 * SkewNum <= SkewDen => /\ 0 <= BidOffset(position, vol)
                                   /\ 0 <= AskOffset(position, vol)
  BY Offsets
<1>2. Half \in Nat \ {0}
  BY Parameters
<1> QED
  BY <1>1, <1>2

----------------------------------------------------------------------------
(* The ladder.                                                              *)

LEMMA LevelBounds ==
    ASSUME NEW level \in 0 .. Levels - 1
    PROVE  /\ Bps - level * Spacing \in Int /\ Bps - level * Spacing <= Bps
           /\ Bps + level * Spacing \in Nat /\ Bps <= Bps + level * Spacing
<1>1. level \in Nat
  BY Parameters
<1>2. level * Spacing \in Nat
  BY <1>1, Parameters, MulNat
<1> QED
  BY <1>2, Parameters

(* What bounds every bid from above and every ask from below: the first     *)
(* level before the rounding.                                               *)
LEMMA RawBounds ==
    ASSUME NEW m \in Nat \ {0}, NEW position \in Int, NEW vol \in Nat,
           NEW level \in 0 .. Levels - 1
    PROVE  /\ BidRaw(m, position, vol, level) \in Int
           /\ BidRaw(m, position, vol, level)
                  <= m * (Half - BidOffset(position, vol)) * Bps
           /\ AskRaw(m, position, vol, level) \in Int
           /\ m * (Half + AskOffset(position, vol)) * Bps
                  <= AskRaw(m, position, vol, level)
<1> DEFINE a == Half - BidOffset(position, vol)
           b == Half + AskOffset(position, vol)
           down == Bps - level * Spacing
           up == Bps + level * Spacing
<1>1. a \in Nat \ {0} /\ b \in Nat \ {0}
  BY Factors
<1>2. /\ down \in Int /\ down <= Bps
      /\ up \in Nat /\ Bps <= up /\ Bps \in Nat
  BY LevelBounds, Parameters
<1> HIDE DEF a, b, down, up
<1>3. m * a \in Nat \ {0} /\ m * b \in Nat \ {0}
  BY <1>1, MulPositive
<1>4. down * (m * a) <= Bps * (m * a) /\ Bps * (m * b) <= up * (m * b)
  BY <1>2, <1>3, MulMonotone
<1>5. /\ down * (m * a) = m * a * down /\ Bps * (m * a) = m * a * Bps
      /\ up * (m * b) = m * b * up /\ Bps * (m * b) = m * b * Bps
      /\ m * a * down \in Int /\ m * b * up \in Int
  BY <1>2, <1>3
<1> QED
  BY <1>4, <1>5 DEF BidRaw, AskRaw, a, b, down, up

(* No ladder crosses itself: whatever the mid, the position, the volatility *)
(* and the price quanta the two sides are rounded to, every bid of a cycle  *)
(* is below every ask of it.  This is what the configuration's limits on    *)
(* the spread are for.                                                      *)
THEOREM Uncrossed ==
    ASSUME NEW m \in Nat \ {0}, NEW position \in Int, NEW vol \in Nat,
           NEW i \in 0 .. Levels - 1, NEW j \in 0 .. Levels - 1
    PROVE  BidPrice(BidRaw(m, position, vol, i))
               < AskPrice(AskRaw(m, position, vol, j))
<1> DEFINE a == Half - BidOffset(position, vol)
           b == Half + AskOffset(position, vol)
<1>1. a \in Nat \ {0} /\ b \in Nat \ {0} /\ a < b
  BY Factors
<1> DEFINE bid == BidRaw(m, position, vol, i)
           ask == AskRaw(m, position, vol, j)
<1>2. bid \in Int /\ bid <= m * a * Bps /\ ask \in Int /\ m * b * Bps <= ask
  BY RawBounds
<1> HIDE DEF a, b, bid, ask
<1>3. m * a * Bps < m * b * Bps
  <2>1. m * Bps \in Nat \ {0}
    BY Parameters, MulPositive
  <2>2. a * (m * Bps) < b * (m * Bps)
    BY <1>1, <2>1, MulStrict
  <2>3. a * (m * Bps) = m * a * Bps /\ b * (m * Bps) = m * b * Bps
    BY <1>1, Parameters
  <2> QED
    BY <2>2, <2>3
<1>4. m * a * Bps \in Int /\ m * b * Bps \in Int
  BY <1>1, Parameters
<1>5. bid < ask
  BY <1>2, <1>3, <1>4
<1>6. /\ BidPrice(bid) \in Int /\ BidPrice(bid) * Denominator <= bid
      /\ AskPrice(ask) \in Int /\ ask <= AskPrice(ask) * Denominator
  BY <1>2, BidRounding, AskRounding
<1>7. Denominator \in Nat \ {0}
  BY Parameters
<1>8. BidPrice(bid) * Denominator < AskPrice(ask) * Denominator
  <2>1. BidPrice(bid) * Denominator \in Int /\ AskPrice(ask) * Denominator \in Int
    BY <1>6, <1>7
  <2> QED
    BY <1>2, <1>5, <1>6, <2>1
<1>9. BidPrice(bid) < AskPrice(ask)
  BY <1>6, <1>7, <1>8, CancelStrict
<1> QED
  BY <1>9 DEF bid, ask

(* With a skew factor of at most a half, as it is by default, no quote      *)
(* reaches across the mid either: the ladder only makes, it never takes.    *)
(* Above a half, a skewed ladder does cross the mid.  A price is doubled to *)
(* be compared with the mid, which counts in half steps.                    *)
THEOREM MakerSide ==
    ASSUME NEW m \in Nat \ {0}, NEW position \in Int, NEW vol \in Nat,
           NEW level \in 0 .. Levels - 1, 2 * SkewNum <= SkewDen
    PROVE  /\ 2 * BidPrice(BidRaw(m, position, vol, level)) <= m
           /\ m <= 2 * AskPrice(AskRaw(m, position, vol, level))
<1> DEFINE a == Half - BidOffset(position, vol)
           b == Half + AskOffset(position, vol)
<1>1. a \in Nat \ {0} /\ b \in Nat \ {0} /\ a <= Half /\ Half <= b
  BY Factors
<1> DEFINE bid == BidRaw(m, position, vol, level)
           ask == AskRaw(m, position, vol, level)
<1>2. bid \in Int /\ bid <= m * a * Bps /\ ask \in Int /\ m * b * Bps <= ask
  BY RawBounds
<1> HIDE DEF a, b, bid, ask
<1>3. Half \in Int /\ Bps \in Nat /\ m * Bps \in Nat
  BY Parameters, MulNat
<1>4. a * (m * Bps) <= Half * (m * Bps) /\ Half * (m * Bps) <= b * (m * Bps)
  BY <1>1, <1>3, MulMonotone
<1>5. /\ a * (m * Bps) = m * a * Bps /\ b * (m * Bps) = m * b * Bps
      /\ Half * (m * Bps) = m * (Half * Bps)
      /\ m * a * Bps \in Int /\ m * b * Bps \in Int /\ m * (Half * Bps) \in Int
  BY <1>1, <1>3
<1> DEFINE d == Half * Bps
<1>6. bid <= m * d /\ m * d <= ask
  BY <1>2, <1>4, <1>5
<1>7. /\ BidPrice(bid) \in Int /\ BidPrice(bid) * Denominator <= bid
      /\ AskPrice(ask) \in Int /\ ask <= AskPrice(ask) * Denominator
  BY <1>2, BidRounding, AskRounding
<1>8. d \in Nat \ {0}
  BY Parameters, MulPositive
<1>9. /\ 2 * BidPrice(bid) * d <= m * d
      /\ m * d <= 2 * AskPrice(ask) * d
  <2> DEFINE lo == BidPrice(bid)
             hi == AskPrice(ask)
  <2>1. lo \in Int /\ hi \in Int /\ lo * (2 * d) <= bid /\ ask <= hi * (2 * d)
    BY <1>7 DEF Denominator
  <2> HIDE DEF d, lo, hi
  <2>2. lo * (2 * d) = 2 * lo * d /\ hi * (2 * d) = 2 * hi * d
    BY <1>8, <2>1
  <2>3. 2 * lo * d \in Int /\ 2 * hi * d \in Int /\ m * d \in Int
    BY <1>8, <2>1
  <2>4. 2 * lo * d <= m * d /\ m * d <= 2 * hi * d
    BY <1>2, <1>6, <2>1, <2>2, <2>3
  <2> QED
    BY <2>4 DEF lo, hi
<1>10. 2 * BidPrice(bid) <= m /\ m <= 2 * AskPrice(ask)
  <2>1. 2 * BidPrice(bid) \in Int /\ 2 * AskPrice(ask) \in Int
    BY <1>7
  <2> HIDE DEF d
  <2> QED
    BY <1>8, <1>9, <2>1, CancelWeak
<1> QED
  BY <1>10 DEF bid, ask
=============================================================================
