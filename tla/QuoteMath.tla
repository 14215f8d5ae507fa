----------------------------- MODULE QuoteMath ------------------------------
(***************************************************************************)
(* The arithmetic of a quote (src/gfx_swap/quote.rs): transfer fees of the *)
(* Token-2022 mints, in u64, and slippage, in f64.  Panic stands for an    *)
(* unwrap that fails.  A transfer fee is a record [bps, max]; a mint       *)
(* without the extension charges 0 basis points.                           *)
(*                                                                         *)
(* An operator named X_Slip, put before X, is X with a plausible slip: it  *)
(* shows what the properties would notice, and is used nowhere.            *)
(***************************************************************************)
EXTENDS Integers

CONSTANTS
    One,       \* basis points in one (MAX_FEE_BASIS_POINTS, 10_000)
    U64Max,    \* the largest u64
    Precise,   \* the integers up to it are floats (2^53)
    Scale,     \* the unit of the floats is 1/Scale
    Ulps       \* the units in the last place, in that unit: powers of two

ASSUME QuoteMathAssumption ==
    /\ One \in Nat \ {0}
    /\ U64Max \in Nat
    /\ Precise \in Nat
    /\ Precise % 2 = 0
    /\ 16 * One <= Precise
    /\ Precise <= U64Max
    /\ Ulps \subseteq Nat \ {0}
    /\ \A u \in Ulps : u = 1 \/ (u % 2 = 0 /\ u \div 2 \in Ulps)
    /\ \A u, v \in Ulps : u <= v => v % u = 0
    /\ Scale \in Ulps
    /\ Precise * One <= Scale

TransferFee == [bps : 0 .. One, max : 0 .. U64Max]

Panic == -1

CeilDiv(a, b) == (a + b - 1) \div b
Lesser(a, b) == IF a <= b THEN a ELSE b

(* TransferFee::calculate_fee: what a transfer of an amount is charged.    *)
calculate_fee(fee, amount) ==
    IF fee.bps = 0 \/ amount = 0 THEN 0
    ELSE Lesser(CeilDiv(amount * fee.bps, One), fee.max)

(* TransferFee::calculate_pre_fee_amount, for less than 100 %: what to     *)
(* transfer so that an amount arrives.                                     *)
calculate_pre_fee_amount(fee, amount) ==
    IF fee.bps = 0 \/ amount = 0 THEN amount
    ELSE LET raw == CeilDiv(amount * One, One - fee.bps)
         IN  IF raw - amount >= fee.max THEN amount + fee.max ELSE raw

get_transfer_fee(fee, pre_fee_amount) == calculate_fee(fee, pre_fee_amount)

get_transfer_inverse_fee_OnNet(fee, post_fee_amount) == calculate_fee(fee, post_fee_amount)
get_transfer_inverse_fee(fee, post_fee_amount) ==
    IF fee.bps = One THEN fee.max
    ELSE LET pre == calculate_pre_fee_amount(fee, post_fee_amount)
         IN  IF pre > U64Max THEN Panic ELSE calculate_fee(fee, pre)

(* In: what arrives of an amount; out: what to send for it to arrive, or 0 *)
(* if that is no u64.                                                      *)
get_amount_after_transfer_fee_Unchecked(amount, fee, base_in) ==
    IF base_in THEN amount - get_transfer_fee(fee, amount)
    ELSE amount + get_transfer_inverse_fee(fee, amount)
get_amount_after_transfer_fee(amount, fee, base_in) ==
    IF base_in
      THEN LET charged == get_transfer_fee(fee, amount)
           IN  IF charged > amount THEN 0 ELSE amount - charged
      ELSE LET charged == get_transfer_inverse_fee(fee, amount)
           IN  CASE charged = Panic -> Panic
                 [] charged # Panic /\ amount + charged > U64Max -> 0
                 [] OTHER -> amount + charged

-----------------------------------------------------------------------------
(***************************************************************************)
(* IEEE arithmetic, round to nearest, ties to even.  A float is given in   *)
(* units of 1/Scale, small enough for bps / One and what follows from it   *)
(* to lose nothing to them; Float(n, d) is the one nearest to n / d units. *)
(* The unit in the last place doubles with every power of two.             *)
(***************************************************************************)
UlpOf(n, d) == CHOOSE u \in Ulps :
    /\ n < d * u * Precise
    /\ u = 1 \/ d * (u \div 2) * Precise <= n

Float(n, d) ==
    LET u    == UlpOf(n, d)
        down == n \div (d * u)
        rest == n % (d * u)
        up   == 2 * rest > d * u \/ (2 * rest = d * u /\ down % 2 = 1)
    IN  u * (IF up THEN down + 1 ELSE down)

(* (amount as f64) * (1 +- bps / One), rounded after each operation.  The  *)
(* amount is an integer, whose ulp is one at least.                        *)
Slipped(amount, bps, round_up) ==
    LET slippage == Float(bps * Scale, One)
        factor   == Float(IF round_up THEN Scale + slippage ELSE Scale - slippage, 1)
    IN  Float(Float(amount, 1) * factor, 1)

(* `as u64' saturates, and takes what is negative (more than 100 % off)    *)
(* to 0.                                                                   *)
amount_with_slippage_Swapped(amount, bps, round_up) ==
    IF round_up THEN Lesser(Slipped(amount, bps, TRUE) \div Scale, U64Max)
    ELSE IF bps > One THEN 0
    ELSE Lesser(CeilDiv(Slipped(amount, bps, FALSE), Scale), U64Max)
amount_with_slippage(amount, bps, round_up) ==
    IF round_up THEN Lesser(CeilDiv(Slipped(amount, bps, TRUE), Scale), U64Max)
    ELSE IF bps > One THEN 0
    ELSE Lesser(Slipped(amount, bps, FALSE) \div Scale, U64Max)
=============================================================================
