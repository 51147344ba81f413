----------------------------- MODULE QuoteEngine -----------------------------
(***************************************************************************)
(* The quotes the bot wants on the book, as a function of the mid, the     *)
(* position and the volatility: compute_quotes of the quote engine         *)
(* (src/src/quote_engine.py), the skew and the bypasses the inventory      *)
(* gives it, and the client's rounding of prices and sizes.                *)
(*                                                                         *)
(* The code computes in Decimal, which is exact here: a price is an        *)
(* integer number of the smallest price steps, the mid, the middle of two  *)
(* prices, an integer number of half steps, and a raw price an integer     *)
(* number of Denominator-ths of a step.                                    *)
(***************************************************************************)
EXTENDS Integers

CONSTANTS
    Spread,        \* spread_bps
    MaxSpread,     \* max_spread_bps
    Spacing,       \* level_spacing_bps
    Levels,        \* num_levels
    Bps,           \* the basis points in one: 10000
    SkewNum,       \* skew_factor is SkewNum / SkewDen
    SkewDen,
    VolTarget,     \* vol_target
    MaxPosition,   \* max_position_size
    OrderSize,     \* order_size
    SizeStep,      \* 10^-sz_decimals
    Quanta,        \* 1, 10, 100, ... up to Whole
    Whole,         \* the price steps in 1: 10^(max_decimals - sz_decimals)
    SigFig         \* 10^sig_figs

ASSUME QuoteEngineAssumption ==
    /\ {Spread, Spacing, Levels, Bps, SkewDen, VolTarget, MaxPosition,
        OrderSize, SizeStep, SigFig} \subseteq Nat \ {0}
    /\ {MaxSpread, SkewNum} \subseteq Nat
    /\ SkewNum <= SkewDen /\ 15 * Spread < 2 * Bps   \* the configuration's limits
    /\ Quanta \subseteq Nat \ {0} /\ Whole \in Quanta

Clamp(x, lo, hi) == IF x < lo THEN lo ELSE IF x > hi THEN hi ELSE x

(* inventory_skew is Skew / MaxPosition: the position, clamped to the       *)
(* maximum either way.                                                      *)
Skew(position) == Clamp(position, -MaxPosition, MaxPosition)

NoLimit(position) == TRUE
CanBid(position) == position < MaxPosition
CanAsk(position) == position > -MaxPosition

(* effective_spread, in VolTarget-ths of a basis point: the multiplier is   *)
(* the volatility over its target, from 1 to 5.  0 is no volatility yet.    *)
EffectiveSpread(vol) == Spread * Clamp(vol, VolTarget, 5 * VolTarget)
Suppressed(vol) == EffectiveSpread(vol) > MaxSpread * VolTarget

----------------------------------------------------------------------------
(* Prices before the rounding.                                              *)

Half == 2 * MaxPosition * SkewDen * VolTarget * Bps
Denominator == 2 * (Half * Bps)

(* Half a spread, moved against the position by the skew.                   *)
BidOffset(position, vol) ==
    EffectiveSpread(vol) * (MaxPosition * SkewDen + 2 * SkewNum * Skew(position))
AskOffset(position, vol) ==
    EffectiveSpread(vol) * (MaxPosition * SkewDen - 2 * SkewNum * Skew(position))

BidRaw(mid, position, vol, level) ==
    mid * (Half - BidOffset(position, vol)) * (Bps - level * Spacing)
AskRaw(mid, position, vol, level) ==
    mid * (Half + AskOffset(position, vol)) * (Bps + level * Spacing)

----------------------------------------------------------------------------
(* round_price: as many significant figures as allowed, but a whole price   *)
(* always is.  A bid is rounded down, an ask up.                            *)
Quantum(raw) ==
    IF \E q \in Quanta : raw < q * SigFig * Denominator
    THEN CHOOSE q \in Quanta :
            /\ raw < q * SigFig * Denominator
            /\ \A r \in Quanta : raw < r * SigFig * Denominator => q <= r
    ELSE Whole

Down(raw, q) == q * (raw \div (q * Denominator))
Up(raw, q) == q * ((raw + q * Denominator - 1) \div (q * Denominator))

BidPrice(raw) == Down(raw, Quantum(raw))
AskPrice(raw) == Up(raw, Quantum(raw))

(* round_size                                                               *)
Size == OrderSize - (OrderSize % SizeStep)

----------------------------------------------------------------------------
(* compute_quotes: the prices of each side by level, as far as the side may *)
(* be quoted and the price is positive.                                     *)
BidLevels(mid, position, vol) ==
    {l \in 1 .. Levels : /\ CanBid(position) /\ Size > 0
                         /\ BidRaw(mid, position, vol, l - 1) > 0
                         /\ BidPrice(BidRaw(mid, position, vol, l - 1)) > 0}
AskLevels(mid, position, vol) ==
    {l \in 1 .. Levels : /\ CanAsk(position) /\ Size > 0
                         /\ AskRaw(mid, position, vol, l - 1) > 0
                         /\ AskPrice(AskRaw(mid, position, vol, l - 1)) > 0}

Bids(mid, position, vol) ==
    [l \in BidLevels(mid, position, vol) |-> BidPrice(BidRaw(mid, position, vol, l - 1))]
Asks(mid, position, vol) ==
    [l \in AskLevels(mid, position, vol) |-> AskPrice(AskRaw(mid, position, vol, l - 1))]
=============================================================================
