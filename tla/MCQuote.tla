------------------------------ MODULE MCQuote -------------------------------
(***************************************************************************)
(* An instance of Quote for TLC: one pool, a u64 of nine bits, floats of  *)
(* eight, and ten basis points in one.                                     *)
(***************************************************************************)
EXTENDS Quote, TLC

CONSTANTS p1, sol, usdc

OnePool == {p1}
TwoMints == (p1 :> {sol, usdc})

Fee(bps, max) == [bps |-> bps, max |-> max]

(* No fee, a capped one, one without a cap, nearly all, and all of it.     *)
FeePairs ==
    {<<Fee(0, 0), Fee(0, 0)>>, <<Fee(1, 2), Fee(0, 0)>>, <<Fee(0, 0), Fee(1, 511)>>,
     <<Fee(3, 511), Fee(9, 4)>>, <<Fee(9, 511), Fee(3, 2)>>, <<Fee(10, 511), Fee(3, 511)>>,
     <<Fee(3, 511), Fee(10, 5)>>}

(* Pools that are small for some of the amounts, or empty, on either side; *)
(* slippage up to more than all of it.                                     *)
SomeTrades ==
    {[base_in |-> i, amount |-> a, bps |-> s, in_fee |-> f[1], out_fee |-> f[2],
      vault_in |-> v[1], vault_out |-> v[2]] :
        i \in BOOLEAN, a \in {0, 1, 6, 43, 301, 511}, s \in {0, 1, 4, 11}, f \in FeePairs,
        v \in {<<240, 440>>, <<320, 20>>, <<0, 45>>, <<6, 0>>}}

SomeSwaps == [other : {0, 1, 5, 13, 45, 431, 511, 512}, fee : {0, 3, 280}]
(* Units up to that of the largest product.                                *)
PowersOfTwo == {2^k : k \in 0 .. 21}
=============================================================================
