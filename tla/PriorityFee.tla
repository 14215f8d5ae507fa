---------------------------- MODULE PriorityFee -----------------------------
(***************************************************************************)
(* The arithmetic of compute-unit prices and priority fees                 *)
(* (src/gfx_swap/swap.rs).  The constants of the code are parameters: TLC  *)
(* runs on smaller numbers in the same order, the theorems hold for any    *)
(* numbers.                                                                *)
(*                                                                         *)
(* An operator named X_Slip, put before X, is X with a plausible slip: it  *)
(* stands for a bug the properties must notice, and is used nowhere.       *)
(***************************************************************************)
EXTENDS Integers

CONSTANTS
    MicroPerLamport,  \* MICRO_LAMPORTS_PER_LAMPORT
    DefaultUnits,     \* DEFAULT_INSTRUCTION_COMPUTE_UNIT
    MaxAutoFee,       \* MAX_AUTO_PRIORITY_FEE_LAMPORTS
    MinCuPrice,       \* MIN_CU_PRICE
    MinPriorityFee,   \* MIN_PRIORITY_FEE
    MultiplierFee,    \* lamports per unit of AutoMultiplier (100_000)
    SafetyUnits,      \* units added to the simulated ones (50_000)
    MaxUnits,         \* the runtime's limit for a transaction (1_400_000)
    U32Max, U64Max

ASSUME FeeAssumption ==
    /\ MicroPerLamport \in Nat \ {0}
    /\ DefaultUnits \in Nat \ {0}
    /\ MaxAutoFee \in Nat
    /\ MinCuPrice \in Nat
    /\ MinPriorityFee \in Nat
    /\ MinPriorityFee <= MaxAutoFee
    /\ MultiplierFee \in Nat
    /\ SafetyUnits \in Nat
    /\ MaxUnits \in Nat
    /\ U32Max \in Nat
    /\ U64Max \in Nat

None == -1

AtLeast(a, b) == IF a >= b THEN a ELSE b
AtMost(a, b)  == IF a <= b THEN a ELSE b

(* calculate_cu_price: the division by one unit more than the limit keeps  *)
(* the rounding on the safe side; the result saturates at u64::MAX.        *)
calculate_cu_price_Ceil(fee, units) ==
    AtMost((fee * MicroPerLamport + units - 1) \div units, U64Max)
calculate_cu_price(fee, units) ==
    AtMost(AtLeast(fee * MicroPerLamport - (MicroPerLamport - 1), 0) \div (units + 1),
           U64Max)

(* The compute-unit limit after a simulation: none if the units consumed   *)
(* are unknown or the sum does not fit a u32.                              *)
dynamic_compute_Wrapping(consumed) ==
    IF consumed = None THEN None ELSE (consumed + SafetyUnits) % (U32Max + 1)
dynamic_compute(consumed) ==
    IF consumed = None \/ consumed + SafetyUnits > U32Max
      THEN None
      ELSE consumed + SafetyUnits

(* The fee aimed at by PrioritizationFeeLamports::Auto, from the latest    *)
(* estimate (None: no priority-fee service is configured).                 *)
auto_priofee(estimate) ==
    IF estimate = None
      THEN MaxAutoFee
      ELSE AtMost(AtLeast(MinPriorityFee, estimate), MaxAutoFee)

auto_cu_price(estimate) ==
    IF estimate = None THEN MinCuPrice ELSE AtLeast(MinCuPrice, estimate)

(***************************************************************************)
(* What the runtime charges, as the comment in swap.rs:370 states it, and  *)
(* the limit it applies to a transaction of n instructions (compute-budget *)
(* instructions not counted) that does not set one.                        *)
(***************************************************************************)
PriorityFeeCharged(price, limit) ==
    (price * limit + (MicroPerLamport - 1)) \div MicroPerLamport

RuntimeLimit(limit, n) ==
    IF limit = None THEN AtMost(n * DefaultUnits, MaxUnits) ELSE AtMost(limit, MaxUnits)
=============================================================================
