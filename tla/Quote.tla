------------------------------- MODULE Quote --------------------------------
(***************************************************************************)
(* The /quote handler (src/gfx_swap/quote.rs, src/handlers/quote.rs)       *)
(* against the store the accounts service fills meanwhile: it reads the    *)
(* pool, the config, the two mints and the observation account one after   *)
(* the other, then computes.  The handler only reads, so one request at a  *)
(* time stands for any number of them.                                     *)
(*                                                                         *)
(* The amounts of a request, and what the pool and the mints it read hold, *)
(* matter in the last step only and are chosen there: a trade              *)
(*   [base_in, amount, bps, in_fee, out_fee, vault_in, vault_out].         *)
(* The curve belongs to the gamma crate; it fails or returns               *)
(*   [other, fee]: destination_amount_swapped or source_amount_swapped,    *)
(*                 and dynamic_fee.                                        *)
(* An account that does not decode, and vaults that hold less than the     *)
(* fees owed from them, are an error whatever the rest of the data is.     *)
(* Formatting, and the price impact but for what it may panic on, are left *)
(* out.                                                                    *)
(*                                                                         *)
(* An operator named X_Slip, put before X, is X with a plausible slip: it  *)
(* shows what the properties would notice, and is used nowhere.            *)
(***************************************************************************)
EXTENDS AccountsService, QuoteMath

CONSTANTS
    Trades,         \* the trades asked for
    Swaps,          \* what the curve may return: u128 numbers
    OverflowChecks  \* whether the build checks arithmetic (the dev profile does)

ASSUME QuoteAssumption ==
    /\ Trades \subseteq [base_in : BOOLEAN, amount : 0 .. U64Max, bps : Nat,
                         in_fee : TransferFee, out_fee : TransferFee,
                         vault_in : 0 .. U64Max, vault_out : 0 .. U64Max]
    /\ \A t \in Trades : \E u \in Ulps : 8 * U64Max * Scale * (One + t.bps) < u * Precise
    /\ Swaps \subseteq [other : Nat, fee : Nat]
    /\ \A p \in Pools : \E a, b \in Mints[p] : a # b /\ Mints[p] = {a, b}

VARIABLES
    stage,    \* what the handler is about to do
    asked,    \* the pool of the two mints: none if the mints are equal
    partial,  \* history: when its pool was read, accounts of it were yet to come
    status,   \* how the handler ended
    missing,  \* the account it did not find: at most one
    quoted    \* the trade computed, with its results

quoteVars == <<stage, asked, partial, status, missing, quoted>>
allVars   == <<vars, quoteVars>>

NoTrade == [amount |-> 0]

QuoteInit ==
    /\ Init
    /\ stage = "idle"
    /\ asked = {}
    /\ partial = FALSE
    /\ status = "none"
    /\ missing = {}
    /\ quoted = NoTrade

-----------------------------------------------------------------------------
(* The handler of handlers/quote.rs answers 200, 400 or 500; a panic       *)
(* closes the connection.                                                  *)
Reply(s, trade) ==
    /\ stage' = "answered"
    /\ status' = s
    /\ quoted' = trade
    /\ UNCHANGED asked

(* The server listens once the bootstrap is over, and goes on when the     *)
(* service task has ended.                                                 *)
Ask(pools) ==
    /\ phase \in {"serve", "ended"}
    /\ stage = "idle"
    /\ stage' = "epoch"
    /\ asked' = pools
    /\ UNCHANGED <<partial, status, missing, quoted>>

(* get_epoch_info, and the check that there are two mints.                 *)
EpochInfo ==
    /\ stage = "epoch"
    /\ \/ Reply("client_error", NoTrade)
       \/ asked = {} /\ Reply("bad_request", NoTrade)
       \/ asked # {} /\ stage' = "pool" /\ UNCHANGED <<asked, status, quoted>>
    /\ UNCHANGED <<partial, missing>>

ReadPool(p) ==
    /\ stage = "pool"
    /\ asked = {p}
    /\ \/ /\ p \in stored
          /\ stage' = "config"
          /\ partial' = (p \in cur /\ left # {})
          /\ UNCHANGED <<asked, status, quoted>>
       \/ /\ p \in stored
          /\ Reply("decode_error", NoTrade)
          /\ UNCHANGED partial
       \/ /\ p \notin stored
          /\ Reply("pair_not_tradeable", NoTrade)
          /\ UNCHANGED partial
    /\ UNCHANGED missing

(* token_0_mint is the smaller of the two.                                 *)
Token0(p) == CHOOSE m \in Mints[p] : TRUE
Token1(p) == CHOOSE m \in Mints[p] : m # Token0(p)

KeyRead_Vault(p) ==
    CASE stage = "config" -> Config
      [] stage = "mint_0" -> Token0(p)
      [] stage = "mint_1" -> Token1(p)
      [] stage = "observation" -> <<"vault", p>>
KeyRead(p) ==
    CASE stage = "config" -> Config
      [] stage = "mint_0" -> Token0(p)
      [] stage = "mint_1" -> Token1(p)
      [] stage = "observation" -> Observation(p)

NextStage ==
    [config |-> "mint_0", mint_0 |-> "mint_1", mint_1 |-> "observation",
     observation |-> "compute"]

ReadAccount(p) ==
    /\ stage \in DOMAIN NextStage
    /\ asked = {p}
    /\ IF KeyRead(p) \in stored
         THEN stage' = NextStage[stage] /\ UNCHANGED <<asked, status, missing, quoted>>
         ELSE Reply("accounts_error", NoTrade) /\ missing' = {KeyRead(p)}
    /\ UNCHANGED partial

-----------------------------------------------------------------------------
(* actual_amount_specified, and other_amount.                              *)
Specified(t) ==
    get_amount_after_transfer_fee(t.amount, IF t.base_in THEN t.in_fee ELSE t.out_fee,
                                  t.base_in)
OtherAmount(t, swap) ==
    get_amount_after_transfer_fee(swap.other, IF t.base_in THEN t.out_fee ELSE t.in_fee,
                                  t.base_in)

(* source_amount_swapped and destination_amount_swapped.                   *)
TakenIn(t, swap) == IF t.base_in THEN Specified(t) ELSE swap.other
PaidOut(t, swap) == IF t.base_in THEN swap.other ELSE Specified(t)

(* CurveCalculator: the fee is part of what goes in, and the pool pays out *)
(* no more than it holds: all of it, if nothing was on the other side.     *)
SwapResults(t) ==
    {swap \in Swaps : swap.fee <= TakenIn(t, swap) /\ PaidOut(t, swap) <= t.vault_out}

(* total_input_token_amount - fee_amount.                                  *)
FeeUnderflows_Output(t, swap) == OverflowChecks /\ swap.fee > t.vault_out
FeeUnderflows(t, swap) == OverflowChecks /\ swap.fee > t.vault_in

(* The prices before and after the swap, and their ratio: what the output  *)
(* vault holds, is left with, and the input vault ends up with, is each    *)
(* divided by.                                                             *)
DividesByZero(t, swap) ==
    \/ t.vault_out = 0
    \/ t.vault_out - PaidOut(t, swap) = 0
    \/ t.vault_in + TakenIn(t, swap) = 0

ResultPanics(t, swap) ==
    \/ swap.other > U64Max
    \/ swap.fee > U64Max
    \/ OtherAmount(t, swap) = Panic
    \/ FeeUnderflows(t, swap)
    \/ DividesByZero(t, swap)

QuoteResponse(t, swap) ==
    LET other == OtherAmount(t, swap)
    IN  [trade      |-> t,
         swap       |-> swap,
         specified  |-> Specified(t),
         in_amount  |-> IF t.base_in THEN t.amount ELSE other,
         out_amount |-> IF t.base_in THEN other ELSE t.amount,
         threshold  |-> amount_with_slippage(other, t.bps, ~t.base_in)]

(* The four accounts are decoded when all are there.                       *)
Compute ==
    /\ stage = "compute"
    /\ \/ Reply("decode_error", NoTrade)
       \/ \E t \in Trades :
            IF Specified(t) = Panic
              THEN Reply("panic", [trade |-> t])
              ELSE \/ Reply("curve_error", NoTrade)
                   \/ \E swap \in SwapResults(t) :
                        IF ResultPanics(t, swap)
                          THEN Reply("panic", [trade |-> t, swap |-> swap])
                          ELSE Reply("ok", QuoteResponse(t, swap))
    /\ UNCHANGED <<partial, missing>>

(* The client has its answer.                                              *)
Done ==
    /\ stage = "answered"
    /\ stage' = "idle"
    /\ asked' = {}
    /\ partial' = FALSE
    /\ status' = "none"
    /\ missing' = {}
    /\ quoted' = NoTrade

-----------------------------------------------------------------------------
Handler ==
    \/ Ask({})
    \/ \E p \in Pools : Ask({p}) \/ ReadPool(p) \/ ReadAccount(p)
    \/ EpochInfo
    \/ Compute
    \/ Done

QuoteNext ==
    \/ Next /\ UNCHANGED quoteVars
    \/ Handler /\ UNCHANGED vars

QuoteSpec == QuoteInit /\ [][QuoteNext]_allVars

-----------------------------------------------------------------------------
(***************************************************************************)
(* Properties.                                                             *)
(***************************************************************************)

(* What the handler may hold.  Every amount answered is a u64.             *)
QuoteTypeOK ==
    /\ stage \in {"idle", "epoch", "pool", "compute", "answered"} \cup DOMAIN NextStage
    /\ asked \subseteq Pools
    /\ partial \in BOOLEAN
    /\ status \in {"none", "ok", "bad_request", "client_error", "pair_not_tradeable",
                   "accounts_error", "decode_error", "curve_error", "panic"}
    /\ missing \subseteq Accounts
    /\ status = "ok" =>
        {quoted.in_amount, quoted.out_amount, quoted.threshold} \subseteq 0 .. U64Max

(* A pool that can be read can be quoted.  An account it needs is missing  *)
(* only if it was null when it was fetched, or if the pool was read while  *)
(* the service was storing it, however the reads and the service's writes  *)
(* interleave.                                                             *)
MissingExplained == missing \subseteq nulls \/ partial

(* An exact-out quote asks for enough: of the input amount, what the curve *)
(* wants reaches the pool, and of what the pool pays, what was asked for   *)
(* reaches the user.  "we need to provide enough input for                 *)
(* `output + fees`" (quote.rs:253), which fails where the sum is no u64,   *)
(* at a fee of 100 %.                                                      *)
Fits(amount, fee) == fee.bps < One \/ amount + fee.max <= U64Max

Arrives(amount, fee, sent) == Fits(amount, fee) =>
    sent - calculate_fee(fee, sent) = amount

ExactOutDelivers ==
    status = "ok" /\ ~quoted.trade.base_in =>
        LET t == quoted.trade
        IN  /\ Arrives(t.amount, t.out_fee, quoted.specified)
            /\ Arrives(quoted.swap.other, t.in_fee, quoted.in_amount)

(* The threshold is no stricter than the quote itself: at least what is    *)
(* quoted to go in, at most what is quoted to come out.  The floats break  *)
(* that for amounts beyond their precision if no slippage is allowed.      *)
(* Well within their precision the threshold is exact, or lenient by one.  *)
WithSlippage(amount, bps, round_up) ==
    IF round_up THEN CeilDiv(amount * (One + bps), One)
    ELSE IF bps > One THEN 0 ELSE (amount * (One - bps)) \div One

SlippageHonoured ==
    status = "ok" =>
        LET t     == quoted.trade
            other == IF t.base_in THEN quoted.out_amount ELSE quoted.in_amount
            exact == WithSlippage(other, t.bps, ~t.base_in)
        IN  /\ t.bps > 0 \/ other <= Precise =>
                IF t.base_in THEN quoted.threshold <= other
                ELSE quoted.threshold >= other
            /\ 4 * other * (One + t.bps) <= Precise =>
                quoted.threshold - exact \in IF t.base_in THEN -1 .. 0 ELSE 0 .. 1

(* The handler panics only on trades out of all proportion: a fee, and so  *)
(* an input, larger than the vault, an amount that is no u64 with its      *)
(* transfer fee, or a pool that is empty on a side or is emptied.  The     *)
(* rest of the arithmetic, unwraps and divisions included, is safe.        *)
TooBig(amount, fee) == fee.bps < One /\ calculate_pre_fee_amount(fee, amount) > U64Max

PanicsOutOfScale ==
    status = "panic" =>
        LET t == quoted.trade
        IN  IF t.base_in
              THEN \/ t.amount > t.vault_in
                   \/ t.vault_in = 0
                   \/ quoted.swap.other = t.vault_out
              ELSE \/ TooBig(t.amount, t.out_fee)
                   \/ quoted.swap.other > t.vault_in
                   \/ TooBig(quoted.swap.other, t.in_fee)
                   \/ t.vault_in = 0
                   \/ Specified(t) = t.vault_out
=============================================================================
