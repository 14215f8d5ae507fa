------------------------- MODULE MCAccountsService --------------------------
(***************************************************************************)
(* Instances of AccountsService for TLC: two pools that share a mint, each *)
(* with an observation account of its own.                                 *)
(***************************************************************************)
EXTENDS AccountsService, TLC

CONSTANTS p1, p2, usdc

TwoPools == {p1, p2}
SharedMint == (p1 :> {usdc}) @@ (p2 :> {usdc})
=============================================================================
