------------------------- MODULE PriorityFeeProofs --------------------------
(***************************************************************************)
(* Theorems about the arithmetic of PriorityFee, for all values.           *)
(***************************************************************************)
EXTENDS PriorityFee, TLAPS

(* Division, as the integers define it.                                    *)
LEMMA DivBound ==
  ASSUME NEW a \in Nat, NEW b \in Nat \ {0}
  PROVE  a \div b \in Nat /\ b * (a \div b) <= a /\ a < b * (a \div b) + b
  BY SMT

LEMMA DivUpper ==
  ASSUME NEW a \in Nat, NEW b \in Nat \ {0}, NEW c \in Nat, a < b * c + b
  PROVE  a \div b <= c
<1> DEFINE q == a \div b
<1>1. q \in Nat /\ b * q <= a
  BY DivBound
<1>2. b * q < b * (c + 1)
  BY <1>1
<1> HIDE DEF q
<1>3. q < c + 1
  BY <1>1, <1>2
<1> QED
  BY <1>1, <1>3 DEF q

(* What the price of calculate_cu_price costs in micro-lamports: the       *)
(* product with the limit stays a rounding below the fee asked for.        *)
LEMMA CuPriceProduct ==
  ASSUME NEW fee \in Nat, NEW units \in Nat
  PROVE  /\ calculate_cu_price(fee, units) \in Nat
         /\ calculate_cu_price(fee, units) * units + (MicroPerLamport - 1)
              < MicroPerLamport * fee + MicroPerLamport
<1> DEFINE n == AtLeast(fee * MicroPerLamport - (MicroPerLamport - 1), 0)
           q == n \div (units + 1)
           p == calculate_cu_price(fee, units)
<1>1. /\ MicroPerLamport \in Nat \ {0}
      /\ U64Max \in Nat
  BY FeeAssumption
<1>2. fee * MicroPerLamport \in Nat /\ fee * MicroPerLamport = MicroPerLamport * fee
  BY <1>1
<1>3. n \in Nat /\ n + (MicroPerLamport - 1) < MicroPerLamport * fee + MicroPerLamport
  BY <1>1, <1>2 DEF AtLeast
<1>4. units + 1 \in Nat \ {0}
  OBVIOUS
<1> HIDE DEF n
<1>5. q \in Nat /\ (units + 1) * q <= n
  BY <1>3, <1>4, DivBound
<1>6. p = AtMost(q, U64Max)
  BY DEF calculate_cu_price, n
<1> HIDE DEF q, p
<1>7. p \in Nat /\ p <= q
  BY <1>1, <1>5, <1>6 DEF AtMost
<1>8. p * units <= (units + 1) * q
  BY <1>5, <1>7
<1>9. p * units \in Nat /\ (units + 1) * q \in Nat
  BY <1>5, <1>7
<1>10. p * units + (MicroPerLamport - 1) < MicroPerLamport * fee + MicroPerLamport
  <2> DEFINE x == p * units
             y == (units + 1) * q
             z == MicroPerLamport * fee
  <2> HIDE DEF x, y, z
  <2>1. x \in Nat /\ y \in Nat /\ z \in Nat /\ x <= y /\ y <= n
    BY <1>2, <1>5, <1>8, <1>9 DEF x, y, z
  <2>2. n + (MicroPerLamport - 1) < z + MicroPerLamport
    BY <1>3 DEF z
  <2>3. x + (MicroPerLamport - 1) < z + MicroPerLamport
    BY <1>1, <1>3, <2>1, <2>2
  <2> QED
    BY <2>3 DEF x, z
<1> QED
  BY <1>7, <1>10 DEF p

(* A price computed for a fee and a limit never makes the runtime charge   *)
(* more than that fee, whatever the fee and the limit: the rounding down   *)
(* of calculate_cu_price outweighs the rounding up of the runtime.         *)
THEOREM CuPriceFee ==
  ASSUME NEW fee \in Nat, NEW units \in Nat
  PROVE  PriorityFeeCharged(calculate_cu_price(fee, units), units) <= fee
<1> DEFINE p == calculate_cu_price(fee, units)
           a == p * units + (MicroPerLamport - 1)
<1>1. p \in Nat /\ a < MicroPerLamport * fee + MicroPerLamport
  BY CuPriceProduct
<1>2. MicroPerLamport \in Nat \ {0}
  BY FeeAssumption
<1> HIDE DEF p
<1>3. p * units \in Nat
  BY <1>1
<1>4. a \in Nat
  BY <1>2, <1>3
<1> HIDE DEF a
<1>5. a \div MicroPerLamport <= fee
  BY <1>1, <1>2, <1>4, DivUpper
<1> QED
  BY <1>5 DEF PriorityFeeCharged, p, a

(* The fee Auto aims at never exceeds the cap the service sets, and never  *)
(* falls below the minimum, whatever the estimate.                         *)
THEOREM AutoFeeBounds ==
  ASSUME NEW estimate \in Nat \cup {None}
  PROVE  auto_priofee(estimate) \in MinPriorityFee .. MaxAutoFee
  BY FeeAssumption DEF auto_priofee, AtLeast, AtMost, None

(* With an explicit limit the fee Auto makes the user pay is within the    *)
(* cap, for every estimate and every limit.                                *)
THEOREM AutoFeeCapped ==
  ASSUME NEW estimate \in Nat \cup {None}, NEW units \in Nat
  PROVE  PriorityFeeCharged(calculate_cu_price(auto_priofee(estimate), units), units)
           <= MaxAutoFee
<1> DEFINE f == auto_priofee(estimate)
<1>1. f \in MinPriorityFee .. MaxAutoFee
  BY AutoFeeBounds
<1>2. f \in Nat /\ f <= MaxAutoFee /\ MaxAutoFee \in Nat
  BY <1>1, FeeAssumption
<1> HIDE DEF f
<1>3. PriorityFeeCharged(calculate_cu_price(f, units), units) <= f
  BY <1>2, CuPriceFee
<1>4. PriorityFeeCharged(calculate_cu_price(f, units), units) \in Int
  <2>1. calculate_cu_price(f, units) \in Nat
    BY <1>2, CuPriceProduct
  <2> QED
    BY <2>1, FeeAssumption, DivBound DEF PriorityFeeCharged
<1> QED
  BY <1>2, <1>3, <1>4 DEF f
=============================================================================
