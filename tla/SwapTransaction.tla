-------------------------- MODULE SwapTransaction ---------------------------
(***************************************************************************)
(* The instructions of a swap (src/gfx_swap/swap.rs): which ones a request *)
(* gets, in which order, and what it pays for priority.  Requests are      *)
(* records                                                                 *)
(*   [endpoint, pair, wrap, dest, mode, dynamic, cu_price, priofee]        *)
(* of the /swap or /swap-instructions endpoint; pair says on which side of *)
(* the swap native SOL is, and the two fee settings are [kind, value].     *)
(*                                                                         *)
(* An operator named X_Slip, put before X, is X with a plausible slip: it  *)
(* stands for a bug the properties must notice, and is used nowhere.       *)
(***************************************************************************)
EXTENDS PriorityFee, SolanaRuntime

CONSTANTS
    InAmount,   \* in_amount of the quote
    OutAmount,  \* out_amount of the quote
    Slippage    \* by how much the quote's other_amount_threshold is wider

ASSUME SwapAssumption ==
    /\ InAmount \in Nat \ {0}
    /\ OutAmount \in Nat
    /\ Slippage \in Nat
    /\ Slippage < OutAmount

Options == [kind : {"none", "auto", "micro", "multiplier", "tip"}, value : Nat]

(* SwapRequest, as far as the code looks at it.                            *)
SwapRequest ==
    [endpoint : {"swap", "swap-instructions"},
     pair     : {"same", "sol_in", "sol_out", "tokens"},
     wrap     : BOOLEAN,
     dest     : BOOLEAN,
     mode     : {"ExactIn", "ExactOut"},
     dynamic  : BOOLEAN,
     cu_price : Options,
     priofee  : Options]

(* Setup (180-212, 214-225): the input account is only created if it is a  *)
(* native one, and only filled if the user asks to wrap.                   *)
InputSetup_NoSync(r) ==
    IF r.pair # "sol_in" THEN <<>>
    ELSE <<CreateAta("input")>> \o (IF r.wrap THEN <<Transfer(InAmount)>> ELSE <<>>)
InputSetup(r) ==
    IF r.pair # "sol_in" THEN <<>>
    ELSE <<CreateAta("input")>>
         \o (IF r.wrap THEN <<Transfer(InAmount), SyncNative>> ELSE <<>>)

OutputSetup(r) == IF r.dest THEN <<>> ELSE <<CreateAta("output")>>

(* Cleanup (202-210, 226-238): the native account that was wrapped or      *)
(* filled for the user is closed.                                          *)
Cleanup_DestToo(r) ==
    CASE r.wrap /\ r.pair = "sol_in" -> <<CloseAccount("input")>>
      [] r.wrap /\ r.pair = "sol_out" -> <<CloseAccount("output")>>
      [] OTHER -> <<>>
Cleanup(r) ==
    CASE r.wrap /\ r.pair = "sol_in" -> <<CloseAccount("input")>>
      [] r.wrap /\ r.pair = "sol_out" /\ ~r.dest -> <<CloseAccount("output")>>
      [] OTHER -> <<>>

(* The swap itself (241-295): the bound is the least output of an exact-in *)
(* swap, the greatest input of an exact-out one.                           *)
SwapIx(r) ==
    [op      |-> "swap",
     base_in |-> r.mode = "ExactIn",
     target  |-> IF r.dest THEN "destination" ELSE "output",
     bound   |-> IF r.mode = "ExactIn" THEN OutAmount - Slippage ELSE InAmount + Slippage]

(* SwapInstructionsResponse, before the budget is decided.                 *)
Instructions(r) ==
    [budget  |-> <<>>,
     setup   |-> InputSetup(r) \o OutputSetup(r),
     swap    |-> SwapIx(r),
     cleanup |-> Cleanup(r)]

build_transaction(ixs) == ixs.budget \o ixs.setup \o <<ixs.swap>> \o ixs.cleanup

-----------------------------------------------------------------------------
(* The price of a compute unit (341-416), given the estimates per compute  *)
(* unit and per transaction (None: no priority-fee service) and the limit  *)
(* set, if any.  A Jito tip takes the place of a price.                    *)
FeeBranch(r) ==
    CASE r.cu_price.kind = "micro" -> "user"
      [] r.cu_price.kind = "auto" \/ r.priofee.kind = "none" -> "auto_price"
      [] r.priofee.kind = "auto" -> "auto_fee"
      [] r.priofee.kind = "multiplier" -> "multiplier"
      [] OTHER -> "tip"

PriofeeOverflows(r) ==
    FeeBranch(r) = "multiplier" /\ r.priofee.value * MultiplierFee > U64Max

(* The fee in lamports the two automatic settings aim at.                  *)
TargetFee(r, estimate) ==
    IF FeeBranch(r) = "multiplier" THEN r.priofee.value * MultiplierFee
    ELSE auto_priofee(estimate.transaction)

cu_price(r, estimate, limit) ==
    CASE FeeBranch(r) = "user" -> r.cu_price.value
      [] FeeBranch(r) = "auto_price" -> auto_cu_price(estimate.unit)
      [] OTHER -> calculate_cu_price(TargetFee(r, estimate),
                                     IF limit = None THEN DefaultUnits ELSE limit)

WithLimit(ixs, limit) ==
    IF limit = None THEN ixs
    ELSE [ixs EXCEPT !.budget = Append(@, Budget("limit", limit))]

WithFee(ixs, r, estimate, limit) ==
    IF FeeBranch(r) = "tip"
      THEN [ixs EXCEPT !.setup = Append(@, Tip(r.priofee.value))]
      ELSE [ixs EXCEPT !.budget = Append(@, Budget("price", cu_price(r, estimate, limit)))]

-----------------------------------------------------------------------------
(* The exchange at the moment the swap runs: by how much the market has    *)
(* moved against the user since the quote, and the units the swap takes.   *)
Drifts == -1 .. Slippage + 1

Draws(r, drift) == IF r.mode = "ExactIn" THEN InAmount ELSE InAmount + drift
Gives(r, drift) == IF r.mode = "ExactIn" THEN OutAmount - drift ELSE OutAmount

Market(r, drift, units) ==
    [draws |-> Draws(r, drift), gives |-> Gives(r, drift), units |-> units]

-----------------------------------------------------------------------------
(***************************************************************************)
(* What the user is owed, in terms of the request alone.                   *)
(***************************************************************************)
Wraps(r)   == r.wrap /\ r.pair = "sol_in"
Unwraps(r) == r.wrap /\ r.pair = "sol_out" /\ ~r.dest
TipOf(r)   == IF FeeBranch(r) = "tip" THEN r.priofee.value ELSE 0

(* What the wallet needs besides the swapped tokens: the rent of accounts  *)
(* that are to be there and are not, and the tip.                          *)
Needs(r) == (IF r.pair = "sol_in" THEN {"input"} ELSE {})
            \cup (IF r.dest THEN {} ELSE {"output"})
RentDue(accounts, ledger) ==
    Rent * Cardinality({a \in accounts : ledger.tokens[a] = Absent})

Held(ledger, a)  == IF ledger.tokens[a] = Absent THEN 0 ELSE ledger.tokens[a]
Worth(ledger, a) == IF ledger.tokens[a] = Absent THEN 0 ELSE ledger.tokens[a] + Rent

(* The market is within the slippage and the user has what the swap takes. *)
Funded(r, ledger, drift) ==
    /\ drift <= Slippage
    /\ r.dest => ledger.tokens["destination"] # Absent
    /\ r.pair # "sol_in" => ledger.tokens["input"] # Absent
    /\ Draws(r, drift) <=
           Held(ledger, "input") + (IF Wraps(r) THEN InAmount ELSE 0)
    /\ ledger.wallet >=
           RentDue(Needs(r), ledger) + TipOf(r) + (IF Wraps(r) THEN InAmount ELSE 0)

(* What the transaction sent may consume on top of its simulation, the     *)
(* swap apart: two instructions more, for the limit and for the price or   *)
(* the tip, and accounts it needs that were there in the simulation.       *)
Overhead(r) ==
    2 + (IF r.pair = "sol_in" THEN CreateCost - 1 ELSE 0)
      + (IF r.dest THEN 0 ELSE CreateCost - 1)

(* What a swap that ran through leaves of the ledger: a native account     *)
(* that was wrapped or unwrapped for the user is closed.                   *)
Settled(r, ledger, market, after) ==
    LET target == SwapIx(r).target
        rent(a) == RentDue(a \cap Needs(r), ledger)
    IN  CASE Wraps(r) ->
                /\ after.tokens["input"] = Absent
                /\ after.tokens[target] = Held(ledger, target) + market.gives
                /\ after.wallet = ledger.wallet + Worth(ledger, "input")
                                  - market.draws - TipOf(r) - rent({"output"})
          [] Unwraps(r) ->
                /\ after.tokens["output"] = Absent
                /\ after.tokens["input"] = ledger.tokens["input"] - market.draws
                /\ after.wallet = ledger.wallet + Worth(ledger, "output")
                                  + market.gives - TipOf(r)
          [] OTHER ->
                /\ after.tokens["input"] = Held(ledger, "input") - market.draws
                /\ after.tokens[target] = Held(ledger, target) + market.gives
                /\ after.wallet = ledger.wallet - TipOf(r) - rent({"input", "output"})
=============================================================================
