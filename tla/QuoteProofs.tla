---------------------------- MODULE QuoteProofs -----------------------------
(***************************************************************************)
(* Proofs about Quote, for any pools, any width of the integers, any       *)
(* transfer fees and any precision of the floats.                          *)
(***************************************************************************)
EXTENDS Quote, AccountsServiceProofs, NaturalsInduction, WellFoundedInduction

-----------------------------------------------------------------------------
(***************************************************************************)
(* Arithmetic: what a transfer fee takes from an amount that was computed  *)
(* so that another amount remains.                                         *)
(***************************************************************************)
LEMMA CeilDivFacts ==
    ASSUME NEW x \in Nat, NEW d \in Nat \ {0}
    PROVE  /\ CeilDiv(x, d) \in Nat
           /\ CeilDiv(x, d) * d >= x
           /\ CeilDiv(x, d) * d < x + d
  BY DEF CeilDiv

(* The quotient is the only number with these bounds.                      *)
LEMMA CeilDivUnique ==
    ASSUME NEW x \in Nat, NEW d \in Nat \ {0}, NEW c \in Nat, c * d >= x, c * d < x + d
    PROVE  CeilDiv(x, d) = c
<1> DEFINE q == CeilDiv(x, d)
<1>1. q \in Nat /\ q * d >= x /\ q * d < x + d
  BY CeilDivFacts
<1> HIDE DEF q
<1>2. (q - c) * d = q * d - c * d /\ (c - q) * d = c * d - q * d
  BY <1>1
<1>3. (q - c) * d < d /\ (c - q) * d < d
  BY <1>1, <1>2
<1>4. ~(q - c >= 1) /\ ~(c - q >= 1)
  <2>1. \A k \in Int : k >= 1 => k * d >= d
    OBVIOUS
  <2> QED
    BY <1>1, <1>3, <2>1
<1>5. q = c
  BY <1>1, <1>4
<1> QED
  BY <1>5 DEF q

LEMMA CalculateFeeFacts ==
    ASSUME NEW fee \in TransferFee, NEW amount \in Nat
    PROVE  /\ calculate_fee(fee, amount) \in Nat
           /\ calculate_fee(fee, amount) <= fee.max
<1>1. One \in Nat \ {0} /\ fee.bps \in Nat /\ fee.max \in Nat
  BY QuoteMathAssumption DEF TransferFee
<1>2. amount * fee.bps \in Nat
  BY <1>1
<1>3. CeilDiv(amount * fee.bps, One) \in Nat
  BY <1>1, <1>2, CeilDivFacts
<1> QED
  BY <1>1, <1>3 DEF calculate_fee, Lesser

(***************************************************************************)
(* calculate_pre_fee_amount undoes the fee, to the unit, although both     *)
(* round up and both are capped.                                           *)
(***************************************************************************)
LEMMA PreFeeExact ==
    ASSUME NEW fee \in TransferFee, fee.bps < One, NEW a \in Nat
    PROVE  LET pre == calculate_pre_fee_amount(fee, a)
           IN  pre \in Nat /\ pre - calculate_fee(fee, pre) = a
<1> DEFINE D == One
           b == fee.bps
           m == fee.max
           n == D - b
           raw == CeilDiv(a * D, n)
<1>1. D \in Nat \ {0} /\ b \in Nat /\ m \in Nat /\ n \in Nat \ {0} /\ n <= D /\ b = D - n
  BY QuoteMathAssumption DEF TransferFee
<1>2. CASE b = 0 \/ a = 0
  BY <1>1, <1>2 DEF calculate_pre_fee_amount, calculate_fee
<1>3. CASE b # 0 /\ a # 0
  <2>1. /\ raw \in Nat
        /\ raw * n >= a * D
        /\ raw * n < a * D + n
    <3>1. a * D \in Nat
      BY <1>1
    <3> QED
      BY <1>1, <3>1, CeilDivFacts
  <2> HIDE DEF raw
  <2>2. raw >= a /\ raw # 0
    <3>1. a * D >= a * n
      BY <1>1
    <3>2. raw * n >= a * n
      BY <1>1, <2>1, <3>1
    <3> DEFINE k == a - raw
    <3>3. k \in Int /\ k * n = a * n - raw * n /\ a * n \in Int /\ raw * n \in Int
      BY <1>1, <2>1
    <3> HIDE DEF k
    <3>4. k * n <= 0
      BY <3>2, <3>3
    <3>5. ~(k >= 1)
      <4>1. k >= 1 => k * n >= 1
        BY <1>1, <3>3
      <4> QED
        BY <3>3, <3>4, <4>1
    <3> QED
      BY <1>3, <2>1, <3>5 DEF k
  <2>3. calculate_pre_fee_amount(fee, a) = IF raw - a >= m THEN a + m ELSE raw
    BY <1>3 DEF calculate_pre_fee_amount, raw
  <2>4. \A x \in Nat : x # 0 => calculate_fee(fee, x) = Lesser(CeilDiv(x * b, D), m)
    BY <1>3 DEF calculate_fee
  <2>5. CASE raw - a >= m
    <3> DEFINE x == a + m
               c == CeilDiv(x * b, D)
    <3>1. x \in Nat /\ x # 0 /\ x <= raw
      BY <1>1, <1>3, <2>1, <2>5
    <3>2. c \in Nat /\ c * D >= x * b
      <4>1. x * b \in Nat
        BY <1>1, <3>1
      <4> QED
        BY <1>1, <4>1, CeilDivFacts
    <3>3. x * n <= raw * n
      BY <1>1, <2>1, <3>1
    <3>4. x * n < a * D + n
      BY <1>1, <2>1, <3>1, <3>3
    <3>5. x * b = x * D - x * n
      BY <1>1, <3>1
    <3>6. x * D = a * D + m * D
      BY <1>1
    <3>7. c * D > m * D - D
      <4>1. x * n \in Int /\ x * D \in Int /\ a * D \in Int /\ m * D \in Int
            /\ c * D \in Int /\ x * b \in Int
        BY <1>1, <3>1, <3>2
      <4> HIDE DEF c, x
      <4> QED
        BY <4>1, <1>1, <3>2, <3>4, <3>5, <3>6
    <3>8. c >= m
      <4> HIDE DEF c
      <4>1. (m - c) * D < D
        BY <1>1, <3>2, <3>7
      <4>2. \A k \in Int : k >= 1 => k * D >= D
        BY <1>1
      <4>3. ~(m - c >= 1)
        BY <1>1, <3>2, <4>1, <4>2
      <4> QED
        BY <1>1, <3>2, <4>3
    <3>9. calculate_fee(fee, x) = m
      <4>1. calculate_fee(fee, x) = Lesser(c, m)
        BY <2>4, <3>1
      <4> HIDE DEF c
      <4> QED
        BY <1>1, <3>2, <3>8, <4>1 DEF Lesser
    <3> QED
      BY <1>1, <2>3, <2>5, <3>1, <3>9
  <2>6. CASE raw - a < m
    <3> DEFINE c == raw - a
    <3>1. c \in Nat /\ raw * b \in Nat
      BY <1>1, <2>1, <2>2
    <3>2. c * D = raw * D - a * D /\ raw * b = raw * D - raw * n
      BY <1>1, <2>1
    <3>3. c * D >= raw * b /\ c * D < raw * b + D
      <4>1. raw * D \in Int /\ a * D \in Int /\ raw * n \in Int /\ raw * b \in Int
        BY <1>1, <2>1, <3>1
      <4> QED
        BY <1>1, <2>1, <3>2, <4>1
    <3>4. CeilDiv(raw * b, D) = c
      BY <1>1, <3>1, <3>3, CeilDivUnique
    <3>5. calculate_fee(fee, raw) = c
      BY <1>1, <2>1, <2>2, <2>4, <2>6, <3>1, <3>4 DEF Lesser
    <3> QED
      BY <1>1, <2>1, <2>3, <2>6, <3>5
  <2> QED
    BY <1>1, <2>1, <2>5, <2>6
<1> QED
  BY <1>2, <1>3

(* What is to be sent for an amount to arrive lets it arrive.              *)
LEMMA SentArrives ==
    ASSUME NEW fee \in TransferFee, NEW a \in Nat,
           get_amount_after_transfer_fee(a, fee, FALSE) # Panic
    PROVE  Arrives(a, fee, get_amount_after_transfer_fee(a, fee, FALSE))
<1> DEFINE sent == get_amount_after_transfer_fee(a, fee, FALSE)
           charged == get_transfer_inverse_fee(fee, a)
<1>0. One \in Nat \ {0} /\ U64Max \in Nat /\ fee.bps \in 0 .. One /\ fee.max \in 0 .. U64Max
  BY QuoteMathAssumption DEF TransferFee
<1>1. charged # Panic
  BY DEF get_amount_after_transfer_fee
<1>2. sent = IF a + charged > U64Max THEN 0 ELSE a + charged
  BY <1>1 DEF get_amount_after_transfer_fee
<1> HIDE DEF sent
<1> SUFFICES ASSUME Fits(a, fee) PROVE sent - calculate_fee(fee, sent) = a
  BY DEF Arrives, sent
<1>3. CASE fee.bps < One
  <2> DEFINE pre == calculate_pre_fee_amount(fee, a)
  <2>1. pre \in Nat /\ pre - calculate_fee(fee, pre) = a /\ calculate_fee(fee, pre) \in Nat
    BY <1>3, PreFeeExact, CalculateFeeFacts
  <2>2. charged = IF pre > U64Max THEN Panic ELSE calculate_fee(fee, pre)
    BY <1>0, <1>3 DEF get_transfer_inverse_fee
  <2> HIDE DEF pre, charged
  <2>3. sent = pre
    BY <1>0, <1>1, <1>2, <2>1, <2>2
  <2> QED
    BY <2>1, <2>3
<1>4. CASE fee.bps = One
  <2>1. charged = fee.max
    BY <1>4 DEF get_transfer_inverse_fee
  <2>2. a + fee.max <= U64Max
    BY <1>0, <1>4 DEF Fits
  <2> HIDE DEF charged
  <2>3. sent = a + fee.max /\ sent \in Nat
    BY <1>0, <1>2, <2>1, <2>2
  <2>4. CeilDiv(sent * One, One) = sent
    BY <1>0, <2>3, CeilDivUnique
  <2>5. calculate_fee(fee, sent) = fee.max
    BY <1>0, <1>4, <2>3, <2>4 DEF calculate_fee, Lesser
  <2> QED
    BY <1>0, <2>3, <2>5
<1> QED
  BY <1>0, <1>3, <1>4

-----------------------------------------------------------------------------
(***************************************************************************)
(* The accounts of a quote.  The invariants of the service carry over: a   *)
(* step of the handler leaves them alone.                                  *)
(***************************************************************************)
LEMMA QuoteServiceInv == QuoteSpec => []Inv
<1>1. QuoteInit => Inv
  BY InitInv DEF QuoteInit
<1>2. ASSUME Inv, [QuoteNext]_allVars PROVE Inv'
  <2>1. [Next]_vars
    BY <1>2 DEF QuoteNext, allVars
  <2> QED
    BY <1>2, <2>1, NextTypeOK, NextInv, NextOrigin DEF Inv
<1> QED
  BY <1>1, <1>2, PTL DEF QuoteSpec

(* What is stored, or was answered by null, remains so.                    *)
LEMMA StoreGrows ==
    ASSUME [Next]_vars
    PROVE  stored \subseteq stored' /\ nulls \subseteq nulls'
<1>1. ASSUME NEW p \in Pools, KeysAnswered(p) \/ KeysFail(p) \/ StorePool(p) \/ BootstrapPool(p)
      PROVE  stored \subseteq stored' /\ nulls \subseteq nulls'
  BY <1>1 DEF KeysAnswered, KeysFail, StorePool, BootstrapPool
<1>2. ASSUME NEW k \in Accounts, StoreKey(k)
      PROVE  stored \subseteq stored' /\ nulls \subseteq nulls'
  BY <1>2 DEF StoreKey
<1>3. CASE EndPool \/ Receive \/ FetchPools
  BY <1>3 DEF EndPool, Receive, FetchPools
<1> QED
  BY <1>1, <1>2, <1>3, OtherSteps DEF Next

(* The config was asked for before the server listens, and the server      *)
(* listens from then on.                                                   *)
Listening == phase \in {"serve", "ended"}

ConfigInv == phase \in {"bootstrap", "serve", "ended"} => Config \in stored \cup nulls

LEMMA PhaseSteps ==
    ASSUME [Next]_vars
    PROVE  \/ phase' = phase
           \/ FetchPools
           \/ phase' \in {"fetch", "failed"} /\ ~Listening
           \/ phase' = "serve" /\ phase = "bootstrap"
           \/ phase' = "ended" /\ phase = "serve"
<1> USE DEF Listening, serviceVars, vars
<1>1. ASSUME NEW p \in Pools,
             \/ PoolChanges(p) \/ StreamDelivers(p) \/ Send(p) \/ KeysAnswered(p)
             \/ KeysFail(p) \/ StorePool(p) \/ BootstrapPool(p)
      PROVE  phase' = phase
  BY <1>1 DEF PoolChanges, StreamDelivers, Send, KeysAnswered, KeysFail, StorePool,
     BootstrapPool
<1>2. ASSUME NEW k \in Accounts, StoreKey(k) PROVE phase' = phase
  BY <1>2 DEF StoreKey
<1>3. CASE \/ NodesCatchUp \/ StreamOpens \/ ConnectFails \/ StreamBreaks \/ PauseEnds
           \/ PollTick \/ PollAnswers \/ PollFails \/ EndPool \/ Receive
           \/ UNCHANGED vars
  BY <1>3 DEF NodesCatchUp, StreamOpens, ConnectFails, StreamBreaks, PauseEnds,
     PollTick, PollAnswers, PollFails, EndPool, Receive
<1>4. CASE ListPools \/ BootstrapFails \/ BootstrapEnds \/ ChannelClosed
  BY <1>4 DEF ListPools, BootstrapFails, BootstrapEnds, ChannelClosed
<1> QED
  BY <1>1, <1>2, <1>3, <1>4 DEF Next

LEMMA NextConfigInv == ConfigInv /\ [Next]_vars => ConfigInv'
<1> SUFFICES ASSUME ConfigInv, [Next]_vars PROVE ConfigInv'
  OBVIOUS
<1>1. CASE FetchPools
  BY <1>1 DEF FetchPools, ConfigInv
<1>2. CASE ~FetchPools
  BY <1>2, PhaseSteps, StoreGrows DEF ConfigInv
<1> QED
  BY <1>1, <1>2

(***************************************************************************)
(* From the reading of the pool on, its accounts are there, were null, or  *)
(* were yet to come when the pool was read.                                *)
(***************************************************************************)
Reading == {"config", "mint_0", "mint_1", "observation"}

ReadInv ==
    /\ stage # "idle" => Listening
    /\ stage \in Reading =>
        \E p \in Pools : asked = {p} /\ (partial \/ KeysForPool(p) \subseteq stored \cup nulls)
    /\ stage # "answered" => missing = {}
    /\ MissingExplained

LEMMA StageSteps ==
    /\ DOMAIN NextStage = Reading
    /\ \A s \in Reading : NextStage[s] \in Reading \cup {"compute"}
  BY DEF NextStage, Reading

(* Whatever is read of a pool is the config, or belongs to the pool.       *)
LEMMA KeysRead ==
    ASSUME NEW p \in Pools, stage \in Reading
    PROVE  KeyRead(p) \in {Config} \cup KeysForPool(p)
<1>1. PICK a, b \in Mints[p] : a # b /\ Mints[p] = {a, b}
  BY QuoteAssumption
<1>2. Token0(p) \in Mints[p]
  BY <1>1 DEF Token0
<1>3. Token1(p) \in Mints[p]
  BY <1>1 DEF Token1
<1> QED
  BY <1>2, <1>3 DEF KeyRead, KeysForPool, Reading

LEMMA ServiceReadInv ==
    ASSUME ReadInv, [Next]_vars, UNCHANGED quoteVars
    PROVE  ReadInv'
<1>1. stored \subseteq stored' /\ nulls \subseteq nulls'
  BY StoreGrows
<1>2. Listening => Listening'
  BY PhaseSteps DEF Listening, FetchPools
<1> QED
  BY <1>1, <1>2 DEF ReadInv, quoteVars, MissingExplained

LEMMA HandlerReadInv ==
    ASSUME Inv, ConfigInv, ReadInv, Handler, UNCHANGED vars
    PROVE  ReadInv'
<1>0. UNCHANGED <<phase, stored, nulls, cur, left>>
  BY DEF vars, serviceVars, processVars
<1> USE <1>0 DEF ReadInv, Listening, Reading, MissingExplained, Reply
<1>1. ASSUME NEW pools, Ask(pools) PROVE ReadInv'
  BY <1>1 DEF Ask
<1>2. CASE EpochInfo
  BY <1>2 DEF EpochInfo
<1>3. ASSUME NEW p \in Pools, ReadPool(p) PROVE ReadInv'
  <2>1. CASE p \in stored
    <3>1. KeysForPool(p) \subseteq stored \cup nulls \cup (IF p \in cur THEN left ELSE {})
      BY <2>1 DEF Inv, StoredInv, StoredPoolsComplete
    <3>2. CASE stage' = "config"
      <4>1. partial' \/ KeysForPool(p) \subseteq stored \cup nulls
        BY <1>3, <2>1, <3>1, <3>2 DEF ReadPool
      <4> QED
        BY <1>3, <2>1, <3>2, <4>1 DEF ReadPool
    <3>3. CASE stage' # "config"
      BY <1>3, <2>1, <3>3 DEF ReadPool
    <3> QED
      BY <3>2, <3>3
  <2>2. CASE p \notin stored
    BY <1>3, <2>2 DEF ReadPool
  <2> QED
    BY <2>1, <2>2
<1>4. ASSUME NEW p \in Pools, ReadAccount(p) PROVE ReadInv'
  <2>0. stage \in Reading /\ asked = {p} /\ partial' = partial
    BY <1>4, StageSteps DEF ReadAccount
  <2>1. partial \/ KeysForPool(p) \subseteq stored \cup nulls
    BY <2>0
  <2>2. CASE KeyRead(p) \in stored
    <3>1. stage' \in Reading \cup {"compute"} /\ UNCHANGED <<asked, missing>>
      BY <1>4, <2>0, <2>2, StageSteps DEF ReadAccount
    <3> QED
      BY <2>0, <2>1, <3>1
  <2>3. CASE KeyRead(p) \notin stored
    <3>1. stage' = "answered" /\ missing' = {KeyRead(p)}
      BY <1>4, <2>3 DEF ReadAccount
    <3>2. Config \in stored \cup nulls
      BY <2>0 DEF ConfigInv
    <3>3. KeyRead(p) \in nulls \/ partial
      BY <2>0, <2>1, <2>3, <3>2, KeysRead
    <3> QED
      BY <2>0, <3>1, <3>3
  <2> QED
    BY <2>2, <2>3
<1>5. CASE Compute
  BY <1>5 DEF Compute
<1>6. CASE Done
  BY <1>6 DEF Done
<1> QED
  BY <1>1, <1>2, <1>3, <1>4, <1>5, <1>6 DEF Handler

(* A quote misses an account only if it was null when the service fetched  *)
(* it, or if the pool was read while the service was storing it.           *)
THEOREM MissesAreExplained == QuoteSpec => []MissingExplained
<1>1. QuoteInit => ConfigInv /\ ReadInv
  BY DEF QuoteInit, Init, ConfigInv, ReadInv, Reading, MissingExplained
<1>2. ASSUME Inv, ConfigInv, ReadInv, [QuoteNext]_allVars PROVE ConfigInv' /\ ReadInv'
  <2>1. [Next]_vars
    BY <1>2 DEF QuoteNext, allVars
  <2>2. ConfigInv'
    BY <1>2, <2>1, NextConfigInv
  <2>3. CASE Handler /\ UNCHANGED vars
    BY <1>2, <2>2, <2>3, HandlerReadInv
  <2>4. CASE UNCHANGED quoteVars
    BY <1>2, <2>1, <2>2, <2>4, ServiceReadInv
  <2> QED
    BY <1>2, <2>3, <2>4 DEF QuoteNext, allVars
<1>3. ReadInv => MissingExplained
  BY DEF ReadInv
<1> QED
  BY <1>1, <1>2, <1>3, QuoteServiceInv, PTL DEF QuoteSpec

-----------------------------------------------------------------------------
(***************************************************************************)
(* The amounts of a quote: one that is answered was computed from a trade, *)
(* without a panic.                                                        *)
(***************************************************************************)
Computed(t, swap) ==
    /\ Specified(t) # Panic
    /\ ~ResultPanics(t, swap)
    /\ quoted = QuoteResponse(t, swap)

QuotedInv == status = "ok" => \E t \in Trades, swap \in Swaps : Computed(t, swap)

LEMMA HandlerQuotedInv ==
    ASSUME QuotedInv, Handler
    PROVE  QuotedInv'
<1> USE DEF Reply, Computed
<1>1. CASE status' # "ok"
  BY <1>1 DEF QuotedInv
<1>2. CASE UNCHANGED <<status, quoted>>
  BY <1>2 DEF QuotedInv
<1>3. ASSUME NEW pools, Ask(pools) PROVE UNCHANGED <<status, quoted>>
  BY <1>3 DEF Ask
<1>4. ASSUME NEW p \in Pools, ReadPool(p) \/ ReadAccount(p)
      PROVE  status' # "ok" \/ UNCHANGED <<status, quoted>>
  BY <1>4 DEF ReadPool, ReadAccount
<1>5. CASE EpochInfo \/ Done
  BY <1>1, <1>2, <1>5 DEF EpochInfo, Done
<1>6. CASE Compute
  <2> SUFFICES ASSUME status' = "ok" PROVE QuotedInv'
    BY <1>1
  <2>1. PICK t \in Trades :
          /\ Specified(t) # Panic
          /\ \E swap \in SwapResults(t) :
                ~ResultPanics(t, swap) /\ quoted' = QuoteResponse(t, swap)
    BY <1>6 DEF Compute
  <2>2. SwapResults(t) \subseteq Swaps
    BY DEF SwapResults
  <2> QED
    BY <2>1, <2>2 DEF QuotedInv
<1> QED
  BY <1>1, <1>2, <1>3, <1>4, <1>5, <1>6 DEF Handler

LEMMA QuotedInvariant == QuoteSpec => []QuotedInv
<1>1. QuoteInit => QuotedInv
  BY DEF QuoteInit, QuotedInv
<1>2. QuotedInv /\ [QuoteNext]_allVars => QuotedInv'
  <2>1. ASSUME QuotedInv, UNCHANGED quoteVars PROVE QuotedInv'
    BY <2>1 DEF quoteVars, QuotedInv, Computed
  <2> QED
    BY <2>1, HandlerQuotedInv DEF QuoteNext, allVars
<1> QED
  BY <1>1, <1>2, PTL DEF QuoteSpec

LEMMA ComputedDelivers ==
    ASSUME NEW t \in Trades, NEW swap \in Swaps, Computed(t, swap), ~t.base_in
    PROVE  /\ quoted.trade = t
           /\ Arrives(t.amount, t.out_fee, quoted.specified)
           /\ Arrives(quoted.swap.other, t.in_fee, quoted.in_amount)
<1>1. /\ t.base_in = FALSE
      /\ t.amount \in Nat
      /\ t.in_fee \in TransferFee
      /\ t.out_fee \in TransferFee
      /\ swap.other \in Nat
  BY QuoteAssumption, QuoteMathAssumption
<1>2. /\ quoted.trade = t
      /\ quoted.swap = swap
      /\ quoted.specified = get_amount_after_transfer_fee(t.amount, t.out_fee, FALSE)
      /\ quoted.in_amount = get_amount_after_transfer_fee(swap.other, t.in_fee, FALSE)
  BY <1>1 DEF Computed, QuoteResponse, Specified, OtherAmount
<1>3. Arrives(t.amount, t.out_fee, quoted.specified)
  <2>1. get_amount_after_transfer_fee(t.amount, t.out_fee, FALSE) # Panic
    BY <1>1 DEF Computed, Specified
  <2> QED
    BY <1>1, <1>2, <2>1, SentArrives
<1>4. Arrives(swap.other, t.in_fee, quoted.in_amount)
  <2>1. get_amount_after_transfer_fee(swap.other, t.in_fee, FALSE) # Panic
    BY <1>1 DEF Computed, ResultPanics, OtherAmount
  <2> QED
    BY <1>1, <1>2, <2>1, SentArrives
<1> QED
  BY <1>2, <1>3, <1>4

(* An exact-out quote asks for exactly what lets the curve's input reach   *)
(* the pool and the output asked for reach the user, for any transfer      *)
(* fees and amounts, but where that is no u64.                             *)
THEOREM QuotesDeliver == QuoteSpec => []ExactOutDelivers
<1>1. QuotedInv => ExactOutDelivers
  <2> SUFFICES ASSUME QuotedInv, status = "ok", ~quoted.trade.base_in
               PROVE  LET t == quoted.trade
                      IN  /\ Arrives(t.amount, t.out_fee, quoted.specified)
                          /\ Arrives(quoted.swap.other, t.in_fee, quoted.in_amount)
    BY DEF ExactOutDelivers
  <2>1. PICK t \in Trades, swap \in Swaps : Computed(t, swap)
    BY DEF QuotedInv
  <2>2. quoted.trade = t
    BY <2>1 DEF Computed, QuoteResponse
  <2> QED
    BY <2>1, <2>2, ComputedDelivers
<1> QED
  BY <1>1, QuotedInvariant, PTL

-----------------------------------------------------------------------------
(***************************************************************************)
(* The panics.                                                             *)
(***************************************************************************)
Panicked(t) ==
    \/ Specified(t) = Panic /\ quoted = [trade |-> t]
    \/ \E swap \in SwapResults(t) :
          ResultPanics(t, swap) /\ quoted = [trade |-> t, swap |-> swap]

PanicInv == status = "panic" => \E t \in Trades : Panicked(t)

LEMMA HandlerPanicInv ==
    ASSUME PanicInv, Handler
    PROVE  PanicInv'
<1> USE DEF Reply, Panicked
<1>1. CASE status' # "panic"
  BY <1>1 DEF PanicInv
<1>2. CASE UNCHANGED <<status, quoted>>
  BY <1>2 DEF PanicInv
<1>3. ASSUME NEW pools, Ask(pools) PROVE UNCHANGED <<status, quoted>>
  BY <1>3 DEF Ask
<1>4. ASSUME NEW p \in Pools, ReadPool(p) \/ ReadAccount(p)
      PROVE  status' # "panic" \/ UNCHANGED <<status, quoted>>
  BY <1>4 DEF ReadPool, ReadAccount
<1>5. CASE EpochInfo \/ Done
  BY <1>1, <1>2, <1>5 DEF EpochInfo, Done
<1>6. CASE Compute
  <2> SUFFICES ASSUME status' = "panic" PROVE PanicInv'
    BY <1>1
  <2>1. PICK t \in Trades :
          \/ Specified(t) = Panic /\ quoted' = [trade |-> t]
          \/ \E swap \in SwapResults(t) :
                ResultPanics(t, swap) /\ quoted' = [trade |-> t, swap |-> swap]
    BY <1>6 DEF Compute
  <2> QED
    BY <2>1 DEF PanicInv
<1> QED
  BY <1>1, <1>2, <1>3, <1>4, <1>5, <1>6 DEF Handler

(* What is sent for an amount to arrive is a u64, unless that panics.      *)
LEMMA SendingBounds ==
    ASSUME NEW fee \in TransferFee, NEW a \in Nat,
           get_amount_after_transfer_fee(a, fee, FALSE) # Panic
    PROVE  get_amount_after_transfer_fee(a, fee, FALSE) \in 0 .. U64Max
<1> DEFINE charged == get_transfer_inverse_fee(fee, a)
           sent == get_amount_after_transfer_fee(a, fee, FALSE)
<1>0. /\ One \in Nat \ {0} /\ U64Max \in Nat
      /\ fee.bps \in Nat /\ fee.bps <= One /\ fee.max \in Nat
  BY QuoteMathAssumption DEF TransferFee
<1>1. charged # Panic /\ sent = IF a + charged > U64Max THEN 0 ELSE a + charged
  BY DEF get_amount_after_transfer_fee
<1>2. charged \in Nat
  <2>1. CASE fee.bps = One
    BY <1>0, <2>1 DEF get_transfer_inverse_fee
  <2>2. CASE fee.bps # One
    <3> DEFINE pre == calculate_pre_fee_amount(fee, a)
    <3>1. pre \in Nat /\ calculate_fee(fee, pre) \in Nat
      BY <1>0, <2>2, PreFeeExact, CalculateFeeFacts
    <3>2. charged = calculate_fee(fee, pre)
      BY <1>1, <2>2 DEF get_transfer_inverse_fee
    <3> QED
      BY <3>1, <3>2
  <2> QED
    BY <2>1, <2>2
<1> HIDE DEF charged, sent
<1>3. sent \in 0 .. U64Max
  BY <1>0, <1>1, <1>2
<1> QED
  BY <1>3 DEF sent

(* What arrives of an amount is at most the amount, and no panic.          *)
LEMMA ArrivingBounds ==
    ASSUME NEW fee \in TransferFee, NEW a \in Nat
    PROVE  get_amount_after_transfer_fee(a, fee, TRUE) \in 0 .. a
  BY CalculateFeeFacts DEF get_amount_after_transfer_fee, get_transfer_fee

(* Only an amount that is no u64 with its transfer fee panics.             *)
LEMMA SendingPanics ==
    ASSUME NEW fee \in TransferFee, NEW a \in Nat,
           get_amount_after_transfer_fee(a, fee, FALSE) = Panic
    PROVE  TooBig(a, fee)
<1>0. /\ One \in Nat /\ U64Max \in Nat /\ Panic = -1
      /\ fee.bps \in Nat /\ fee.bps <= One /\ fee.max \in Nat
  BY QuoteMathAssumption DEF TransferFee, Panic
<1>1. get_transfer_inverse_fee(fee, a) = Panic
  <2> DEFINE charged == get_transfer_inverse_fee(fee, a)
  <2>1. CASE charged # Panic
    <3>1. Panic = IF a + charged > U64Max THEN 0 ELSE a + charged
      BY <2>1 DEF get_amount_after_transfer_fee
    <3>2. charged \in Nat
      <4>1. CASE fee.bps = One
        BY <1>0, <4>1 DEF get_transfer_inverse_fee
      <4>2. CASE fee.bps # One
        <5> DEFINE pre == calculate_pre_fee_amount(fee, a)
        <5>1. fee.bps < One
          BY <1>0, <4>2
        <5>2. pre \in Nat /\ calculate_fee(fee, pre) \in Nat
          BY <5>1, PreFeeExact, CalculateFeeFacts
        <5>3. charged = calculate_fee(fee, pre)
          BY <2>1, <4>2 DEF get_transfer_inverse_fee
        <5> QED
          BY <5>2, <5>3
      <4> QED
        BY <4>1, <4>2
    <3> QED
      BY <1>0, <3>1, <3>2
  <2> QED
    BY <2>1
<1>2. fee.bps # One
  BY <1>0, <1>1 DEF get_transfer_inverse_fee
<1> DEFINE pre == calculate_pre_fee_amount(fee, a)
<1>3. fee.bps < One
  BY <1>0, <1>2
<1>4. pre \in Nat /\ calculate_fee(fee, pre) \in Nat
  BY <1>3, PreFeeExact, CalculateFeeFacts
<1>5. Panic = IF pre > U64Max THEN Panic ELSE calculate_fee(fee, pre)
  BY <1>1, <1>2 DEF get_transfer_inverse_fee
<1>6. pre > U64Max
  <2> HIDE DEF pre
  <2> QED
    BY <1>0, <1>4, <1>5
<1> QED
  BY <1>3, <1>6 DEF TooBig

(* An exact-in quote panics only for an input larger than its vault, or    *)
(* for a pool that has nothing in or pays out all it has.                  *)
LEMMA InPanics ==
    ASSUME NEW t \in Trades, t.base_in, Panicked(t)
    PROVE  t.amount > t.vault_in \/ t.vault_in = 0 \/ quoted.swap.other = t.vault_out
<1>0. /\ U64Max \in Nat /\ Panic = -1
      /\ t.amount \in Nat /\ t.amount <= U64Max
      /\ t.vault_in \in Nat
      /\ t.vault_out \in Nat /\ t.vault_out <= U64Max
      /\ t.in_fee \in TransferFee /\ t.out_fee \in TransferFee
      /\ t.base_in = TRUE
  BY QuoteAssumption, QuoteMathAssumption DEF Panic
<1>1. Specified(t) \in Nat /\ Specified(t) <= t.amount
  <2>1. Specified(t) = get_amount_after_transfer_fee(t.amount, t.in_fee, TRUE)
    BY <1>0 DEF Specified
  <2>2. Specified(t) \in 0 .. t.amount
    BY <1>0, <2>1, ArrivingBounds
  <2> QED
    BY <1>0, <2>2
<1>2. PICK swap \in SwapResults(t) : ResultPanics(t, swap) /\ quoted = [trade |-> t, swap |-> swap]
  BY <1>0, <1>1 DEF Panicked
<1>3. /\ swap.other \in Nat /\ swap.fee \in Nat
      /\ swap.fee <= Specified(t) /\ swap.other <= t.vault_out
      /\ quoted.swap = swap
  BY <1>0, <1>2, QuoteAssumption DEF SwapResults, TakenIn, PaidOut
<1>4. OtherAmount(t, swap) # Panic
  <2>1. OtherAmount(t, swap) = get_amount_after_transfer_fee(swap.other, t.out_fee, TRUE)
    BY <1>0 DEF OtherAmount
  <2>2. OtherAmount(t, swap) \in 0 .. swap.other
    BY <1>0, <1>3, <2>1, ArrivingBounds
  <2> QED
    BY <1>0, <1>3, <2>2
<1>5. CASE DividesByZero(t, swap)
  BY <1>0, <1>1, <1>3, <1>5 DEF DividesByZero, TakenIn, PaidOut
<1>6. CASE ~DividesByZero(t, swap)
  <2>1. swap.fee > t.vault_in
    BY <1>0, <1>1, <1>2, <1>3, <1>4, <1>6 DEF ResultPanics, FeeUnderflows
  <2> QED
    BY <1>0, <1>1, <1>3, <2>1
<1> QED
  BY <1>5, <1>6

(* An exact-out quote panics only for an amount that is no u64 with its    *)
(* fee, for an input larger than its vault, or for a pool that has nothing *)
(* in or pays out all it has.                                              *)
LEMMA OutPanics ==
    ASSUME NEW t \in Trades, ~t.base_in, Panicked(t)
    PROVE  \/ TooBig(t.amount, t.out_fee)
           \/ quoted.swap.other > t.vault_in
           \/ TooBig(quoted.swap.other, t.in_fee)
           \/ t.vault_in = 0
           \/ Specified(t) = t.vault_out
<1>0. /\ U64Max \in Nat
      /\ t.amount \in Nat
      /\ t.vault_in \in Nat /\ t.vault_in <= U64Max
      /\ t.vault_out \in Nat
      /\ t.in_fee \in TransferFee /\ t.out_fee \in TransferFee
      /\ t.base_in = FALSE
  BY QuoteAssumption, QuoteMathAssumption
<1>1. CASE Specified(t) = Panic
  BY <1>0, <1>1, SendingPanics DEF Specified
<1>2. CASE Specified(t) # Panic
  <2>1. PICK swap \in SwapResults(t) :
          ResultPanics(t, swap) /\ quoted = [trade |-> t, swap |-> swap]
    BY <1>2 DEF Panicked
  <2>2. /\ swap.other \in Nat /\ swap.fee \in Nat
        /\ swap.fee <= swap.other /\ Specified(t) <= t.vault_out
        /\ quoted.swap = swap
    BY <1>0, <2>1, QuoteAssumption DEF SwapResults, TakenIn, PaidOut
  <2>3. CASE OtherAmount(t, swap) = Panic
    BY <1>0, <2>2, <2>3, SendingPanics DEF OtherAmount
  <2>5. CASE DividesByZero(t, swap)
    <3>1. Specified(t) = get_amount_after_transfer_fee(t.amount, t.out_fee, FALSE)
      BY <1>0 DEF Specified
    <3>2. Specified(t) \in 0 .. U64Max
      BY <1>0, <1>2, <3>1, SendingBounds
    <3>3. Specified(t) \in Nat
      BY <1>0, <3>2
    <3> QED
      BY <1>0, <2>2, <2>5, <3>3 DEF DividesByZero, TakenIn, PaidOut
  <2>4. CASE OtherAmount(t, swap) # Panic /\ ~DividesByZero(t, swap)
    <3>1. swap.other > U64Max \/ swap.fee > U64Max \/ swap.fee > t.vault_in
      BY <2>1, <2>4 DEF ResultPanics, FeeUnderflows
    <3> QED
      BY <1>0, <2>2, <3>1
  <2> QED
    BY <2>3, <2>4, <2>5
<1> QED
  BY <1>1, <1>2

(* The handler panics only on trades out of all proportion to the pool, or *)
(* to the integers: an empty pool has no proportion to anything.           *)
THEOREM PanicsAreOutOfScale == QuoteSpec => []PanicsOutOfScale
<1>1. QuoteInit => PanicInv
  BY DEF QuoteInit, PanicInv
<1>2. PanicInv /\ [QuoteNext]_allVars => PanicInv'
  <2>1. ASSUME PanicInv, UNCHANGED quoteVars PROVE PanicInv'
    BY <2>1 DEF quoteVars, PanicInv, Panicked
  <2> QED
    BY <2>1, HandlerPanicInv DEF QuoteNext, allVars
<1>3. PanicInv => PanicsOutOfScale
  <2> SUFFICES ASSUME PanicInv, status = "panic" PROVE PanicsOutOfScale
    BY DEF PanicsOutOfScale
  <2>1. PICK t \in Trades : Panicked(t)
    BY DEF PanicInv
  <2>2. quoted.trade = t
    BY <2>1 DEF Panicked
  <2> QED
    BY <2>1, <2>2, InPanics, OutPanics DEF PanicsOutOfScale
<1> QED
  BY <1>1, <1>2, <1>3, PTL DEF QuoteSpec
-----------------------------------------------------------------------------
(***************************************************************************)
(* Floats: the unit in the last place exists and is the least that fits,   *)
(* so that rounding is off by less than one part in Precise.               *)
(***************************************************************************)
LEMMA LeastOf ==
    ASSUME NEW T \in SUBSET Nat, T # {}
    PROVE  \E n \in T : \A m \in T : n <= m
<1>1. PICK n \in T : \A m \in T : ~(<<m, n>> \in OpToRel(<, Nat))
  BY NatLessThanWellFounded, WFMin
<1>2. \A m \in T : n <= m
  <2> TAKE m \in T
  <2>1. m \in Nat /\ n \in Nat /\ ~(m < n)
    BY <1>1 DEF OpToRel
  <2> QED
    BY <2>1
<1> QED
  BY <1>2

LEMMA DivFacts ==
    ASSUME NEW n \in Nat, NEW q \in Nat \ {0}
    PROVE  /\ n \div q \in Nat
           /\ n % q \in 0 .. q - 1
           /\ n = q * (n \div q) + (n % q)
  OBVIOUS

LEMMA UnitUlp == 1 \in Ulps
<1>1. PICK u \in Ulps : \A v \in Ulps : u <= v
  BY LeastOf, QuoteMathAssumption
<1>2. CASE u # 1
  <2>1. u \in Nat \ {0} /\ u % 2 = 0 /\ u \div 2 \in Ulps
    BY <1>2, QuoteMathAssumption
  <2>2. u \div 2 < u
    BY <2>1
  <2> QED
    BY <1>1, <2>1, <2>2
<1> QED
  BY <1>1, <1>2

(* The unit chosen is one that fits, and half of it does not.              *)
LEMMA UlpFacts ==
    ASSUME NEW n \in Nat, NEW d \in Nat \ {0}, NEW w \in Ulps, n < d * w * Precise
    PROVE  /\ UlpOf(n, d) \in Ulps
           /\ n < d * UlpOf(n, d) * Precise
           /\ \/ UlpOf(n, d) = 1
              \/ \E h \in Ulps : UlpOf(n, d) = 2 * h /\ d * h * Precise <= n
<1> DEFINE Wide(u) == n < d * u * Precise
           Chosen(u) == Wide(u) /\ (u = 1 \/ d * (u \div 2) * Precise <= n)
<1>1. PICK u \in {x \in Ulps : Wide(x)} : \A v \in {x \in Ulps : Wide(x)} : u <= v
  <2>1. {x \in Ulps : Wide(x)} \in SUBSET Nat /\ w \in {x \in Ulps : Wide(x)}
    BY QuoteMathAssumption
  <2> HIDE DEF Wide
  <2> QED
    BY <2>1, LeastOf
<1>2. Chosen(u)
  <2>1. CASE u # 1
    <3>1. u \in Nat \ {0} /\ u % 2 = 0 /\ u \div 2 \in Ulps /\ u \div 2 \in Nat
      BY <2>1, QuoteMathAssumption
    <3>2. u \div 2 < u
      BY <3>1
    <3>3. ~Wide(u \div 2)
      <4> HIDE DEF Wide
      <4> QED
        BY <1>1, <3>1, <3>2
    <3>4. d * (u \div 2) * Precise \in Nat
      BY <3>1, QuoteMathAssumption
    <3> QED
      BY <1>1, <3>3, <3>4
  <2> QED
    BY <1>1, <2>1
<1>3. UlpOf(n, d) \in Ulps /\ Chosen(UlpOf(n, d))
  BY <1>2 DEF UlpOf
<1>4. \A v \in Ulps : v # 1 => v \div 2 \in Ulps /\ v = 2 * (v \div 2)
  BY QuoteMathAssumption
<1> QED
  BY <1>3, <1>4

(* The float nearest to n / d is no further from it than one part in       *)
(* Precise, where no unit is too coarse for n / d.                         *)
LEMMA FloatError ==
    ASSUME NEW n \in Nat, NEW d \in Nat \ {0}, NEW w \in Ulps, n < d * w * Precise,
           d = 1 \/ n = 0 \/ d * Precise <= n
    PROVE  /\ Float(n, d) \in Nat
           /\ Precise * (Float(n, d) * d) <= Precise * n + n
           /\ Precise * (Float(n, d) * d) >= Precise * n - n
<1> DEFINE u == UlpOf(n, d)
           q == d * u
           down == n \div q
           rest == n % q
           f == Float(n, d)
           e == f * d - n
<1>1. /\ u \in Nat \ {0} /\ Precise \in Nat \ {0}
      /\ u = 1 \/ \E h \in Nat : u = 2 * h /\ d * h * Precise <= n
  <2>1. u \in Ulps /\ (u = 1 \/ \E h \in Ulps : u = 2 * h /\ d * h * Precise <= n)
    BY UlpFacts
  <2>2. Ulps \subseteq Nat \ {0} /\ Precise \in Nat \ {0}
    BY QuoteMathAssumption
  <2> HIDE DEF u
  <2> QED
    BY <2>1, <2>2
<1>2. q \in Nat \ {0} /\ down \in Nat /\ rest \in 0 .. q - 1 /\ n = q * down + rest
  <2>1. q \in Nat \ {0}
    BY <1>1
  <2> HIDE DEF q
  <2> QED
    BY <2>1
<1>3. \/ f = u * down /\ 2 * rest <= q
      \/ f = u * (down + 1) /\ 2 * rest >= q
  <2>1. f = u * (IF 2 * rest > q \/ (2 * rest = q /\ down % 2 = 1) THEN down + 1 ELSE down)
    BY DEF Float
  <2> HIDE DEF f, u, q, rest, down
  <2> QED
    BY <1>2, <2>1
<1>4. f \in Nat /\ e \in Int /\ 2 * e <= q /\ -(2 * e) <= q
  <2>1. (u * down) * d = q * down /\ (u * (down + 1)) * d = q * down + q
    <3> HIDE DEF down, u
    <3> QED
      BY <1>1, <1>2
  <2>2. u * down \in Nat /\ u * (down + 1) \in Nat /\ q * down \in Nat
    <3> HIDE DEF down, u
    <3> QED
      BY <1>1, <1>2
  <2> HIDE DEF f, q, rest, down, u
  <2>3. CASE f = u * down /\ 2 * rest <= q
    BY <1>2, <2>1, <2>2, <2>3
  <2>4. CASE f = u * (down + 1) /\ 2 * rest >= q
    BY <1>2, <2>1, <2>2, <2>4
  <2> QED
    BY <1>3, <2>3, <2>4
<1>5. Precise * e <= n /\ Precise * (-e) <= n
  <2> HIDE DEF e, q
  <2>1. CASE u = 1
    <3>1. q = d
      BY <1>1, <2>1 DEF q
    <3>2. CASE d = 1
      <4>1. e = 0
        BY <1>4, <3>1, <3>2
      <4> QED
        BY <1>1, <4>1
    <3>3. CASE n = 0
      <4>1. down = 0 /\ rest = 0
        BY <1>2, <3>3
      <4>2. f = 0
        BY <1>1, <1>2, <1>3, <4>1
      <4>3. e = 0
        BY <3>3, <4>2 DEF e
      <4> QED
        BY <1>1, <4>3
    <3>4. CASE d * Precise <= n
      <4>1. e <= d /\ -e <= d
        BY <1>2, <1>4, <3>1
      <4>2. Precise * e <= Precise * d /\ Precise * (-e) <= Precise * d
        BY <1>1, <1>4, <4>1
      <4> HIDE DEF u, f
      <4> QED
        BY <1>1, <1>4, <3>4, <4>2
    <3> QED
      BY <3>2, <3>3, <3>4
  <2>2. ASSUME NEW h \in Nat, u = 2 * h, d * h * Precise <= n
        PROVE  Precise * e <= n /\ Precise * (-e) <= n
    <3>1. q = 2 * (d * h) /\ d * h \in Nat
      BY <2>2 DEF q
    <3>2. e <= d * h /\ -e <= d * h
      BY <1>4, <3>1
    <3>3. Precise * e <= Precise * (d * h) /\ Precise * (-e) <= Precise * (d * h)
      BY <1>1, <1>4, <3>1, <3>2
    <3>4. Precise * (d * h) = d * h * Precise
      BY <1>1, <3>1
    <3> HIDE DEF u, f
    <3> QED
      BY <1>1, <1>4, <2>2, <3>1, <3>3, <3>4
  <2> QED
    BY <1>1, <2>1, <2>2
<1>6. f * d \in Nat /\ Precise * e = Precise * (f * d) - Precise * n
      /\ Precise * (-e) = Precise * n - Precise * (f * d)
  <2> HIDE DEF f
  <2> QED
    BY <1>1, <1>4
<1> HIDE DEF e, f, u
<1>7. f \in Nat /\ Precise * (f * d) <= Precise * n + n /\ Precise * (f * d) >= Precise * n - n
  BY <1>1, <1>4, <1>5, <1>6
<1> QED
  BY <1>7 DEF f

(* A number of units that is no larger than Precise loses nothing.         *)
LEMMA FloatExact ==
    ASSUME NEW m \in Nat, m <= Precise, NEW s \in Ulps, NEW d \in Nat \ {0},
           NEW w \in Ulps, m * s < w * Precise
    PROVE  Float(d * (m * s), d) = m * s
<1> DEFINE n == d * (m * s)
           u == UlpOf(n, d)
           q == d * u
<1>0. /\ s \in Nat \ {0} /\ w \in Nat \ {0} /\ Precise \in Nat \ {0} /\ Precise % 2 = 0
      /\ m * s \in Nat /\ n \in Nat
  BY QuoteMathAssumption
<1>1. n < d * w * Precise
  <2>1. d * w * Precise = d * (w * Precise) /\ w * Precise \in Nat
    BY <1>0
  <2>2. \A x, y \in Nat : x < y => d * x < d * y
    OBVIOUS
  <2> QED
    BY <1>0, <2>1, <2>2
<1>2. /\ u \in Ulps /\ u \in Nat \ {0}
      /\ u = 1 \/ \E h \in Ulps : u = 2 * h /\ d * h * Precise <= n
  <2> HIDE DEF n
  <2> QED
    BY <1>0, <1>1, UlpFacts, QuoteMathAssumption
<1>3. \E k \in Nat : m * s = u * k
  <2>1. CASE u <= s
    <3>1. s % u = 0
      BY <1>2, <2>1, QuoteMathAssumption
    <3>2. PICK j \in Nat : s = u * j
      <4> HIDE DEF u
      <4>1. s = u * (s \div u) /\ s \div u \in Nat
        BY <1>0, <1>2, <3>1
      <4> QED
        BY <4>1
    <3>3. m * s = u * (m * j) /\ m * j \in Nat
      <4> HIDE DEF u
      <4> QED
        BY <1>2, <3>2
    <3> QED
      BY <3>3
  <2>2. CASE u > s
    <3>1. PICK h \in Ulps : u = 2 * h /\ d * h * Precise <= n
      BY <1>0, <1>2, <2>2
    <3>2. h \in Nat \ {0} /\ h * Precise <= m * s
      <4>1. h \in Nat \ {0} /\ h * Precise \in Nat
        BY <1>0, QuoteMathAssumption
      <4>2. d * (h * Precise) <= d * (m * s)
        BY <1>0, <3>1, <4>1
      <4>3. \A x, y \in Nat : d * x <= d * y => x <= y
        OBVIOUS
      <4> QED
        BY <1>0, <4>1, <4>2, <4>3
    <3>3. s <= h
      <4> SUFFICES ASSUME h < s PROVE FALSE
        BY <1>0, <3>2
      <4>1. s % h = 0
        BY <3>2, QuoteMathAssumption
      <4>2. s = h * (s \div h) /\ s \div h \in Nat
        BY <1>0, <3>2, <4>1
      <4>3. s \div h >= 2
        <5>1. s \div h # 0 /\ s \div h # 1
          BY <1>0, <3>2, <4>2
        <5> QED
          BY <4>2, <5>1
      <4>4. h * (s \div h) >= h * 2
        BY <3>2, <4>2, <4>3
      <4> HIDE DEF u
      <4> QED
        BY <1>0, <1>2, <2>2, <3>1, <3>2, <4>2, <4>4
    <3>4. m * s = h * Precise
      <4>1. m * s <= Precise * s /\ Precise * s <= Precise * h
        BY <1>0, <3>2, <3>3
      <4>2. Precise * h = h * Precise /\ Precise * h \in Nat /\ Precise * s \in Nat
        BY <1>0, <3>2
      <4> QED
        BY <1>0, <3>2, <4>1, <4>2
    <3>5. Precise = 2 * (Precise \div 2) /\ Precise \div 2 \in Nat
      BY <1>0
    <3>6. h * (2 * (Precise \div 2)) = u * (Precise \div 2)
      <4> HIDE DEF u
      <4> QED
        BY <3>1, <3>2, <3>5
    <3> QED
      BY <3>4, <3>5, <3>6
  <2> HIDE DEF u
  <2> QED
    BY <1>0, <1>2, <2>1, <2>2
<1>4. PICK k \in Nat : m * s = u * k
  BY <1>3
<1>5. q \in Nat \ {0} /\ n = q * k
  <2> HIDE DEF u
  <2> QED
    BY <1>0, <1>2, <1>4
<1>6. n \div q = k /\ n % q = 0
  <2> HIDE DEF n, q
  <2>1. /\ n \in Nat /\ n \div q \in Nat /\ n % q \in 0 .. q - 1
        /\ n = q * (n \div q) + (n % q)
    <3>1. n \in Nat /\ q \in Nat \ {0}
      BY <1>0, <1>5
    <3> QED
      BY <3>1, DivFacts
  <2>2. q * (k - n \div q) = n % q
    BY <1>5, <2>1
  <2>3. \A i \in Int : i >= 1 => q * i >= q
    BY <1>5
  <2>4. \A i \in Int : i <= -1 => q * i < 0
    BY <1>5
  <2>5. k - n \div q \in Int
    BY <2>1
  <2>6. ~(k - n \div q >= 1) /\ ~(k - n \div q <= -1)
    BY <1>5, <2>1, <2>2, <2>3, <2>4, <2>5
  <2>7. k = n \div q
    BY <2>1, <2>6
  <2> QED
    BY <1>5, <2>1, <2>2, <2>7
<1>7. Float(n, d) = u * (IF 2 * (n % q) > q \/ (2 * (n % q) = q /\ (n \div q) % 2 = 1)
                         THEN n \div q + 1 ELSE n \div q)
  BY DEF Float
<1>8. Float(n, d) = u * k
  <2> HIDE DEF n, q, u
  <2> QED
    BY <1>5, <1>6, <1>7
<1> QED
  BY <1>4, <1>8

-----------------------------------------------------------------------------
(***************************************************************************)
(* The three roundings of a slippage: none makes up for what one basis     *)
(* point takes or adds.                                                    *)
(***************************************************************************)
(* Rounding takes at most one part in P of what exceeds z by k parts.      *)
LEMMA Grow ==
    ASSUME NEW P \in Nat \ {0}, NEW k \in Nat, k <= P, NEW x \in Nat, NEW y \in Nat, NEW z \in Nat,
           P * y >= P * x - x, P * x >= P * z + k * z
    PROVE  P * y >= P * z + k * z - 2 * z
<1>1. P * (P * x) >= P * (P * z + k * z)
  OBVIOUS
<1>2. P * (P * z + k * z) = P * (P * z) + P * (k * z)
  OBVIOUS
<1>3. \/ P * y >= P * z + k * z - 2 * z
      \/ P * y + 1 <= P * z + k * z - 2 * z
  OBVIOUS
<1> SUFFICES ASSUME P * y + 1 <= P * z + k * z - 2 * z PROVE FALSE
  BY <1>3
<1>4. z # 0
  <2> SUFFICES ASSUME z = 0 PROVE FALSE
    OBVIOUS
  <2>1. P * y >= 0 /\ P * z = 0 /\ k * z = 0
    OBVIOUS
  <2> QED
    BY <2>1
<1>5. P * x - x <= P * z + k * z - 2 * z - 1
  OBVIOUS
<1>6. P * x <= P * z + k * z - 2 * z - 1 + x
  BY <1>5
<1>7. P * (P * x - x) = P * (P * x) - P * x
  OBVIOUS
<1>8. P * (P * x - x) <= P * (P * z + k * z - 2 * z - 1)
  BY <1>5
<1>9. P * (P * z + k * z - 2 * z - 1) = P * (P * z) + P * (k * z) - 2 * (P * z) - P
  OBVIOUS
<1>10. P * (P * x) - P * x >= (P - 1) * (P * z + k * z)
  <2>1. P * (P * x) - P * x = (P - 1) * (P * x)
    OBVIOUS
  <2>2. (P - 1) * (P * x) >= (P - 1) * (P * z + k * z)
    OBVIOUS
  <2> QED
    BY <2>1, <2>2
<1>11. (P - 1) * (P * z + k * z) = P * (P * z) + P * (k * z) - P * z - k * z
  OBVIOUS
<1>12. k * z <= P * z
  OBVIOUS
<1>13. /\ P * (P * z) \in Int /\ P * (k * z) \in Int /\ P * z \in Int
       /\ k * z \in Int /\ P * (P * x) \in Int /\ P * x \in Int
  OBVIOUS
<1> QED
  BY <1>7, <1>8, <1>9, <1>10, <1>11, <1>12, <1>13

(* Rounding adds at most one part in P to what is k parts less than z.     *)
LEMMA Shrink ==
    ASSUME NEW P \in Nat \ {0}, NEW k \in Nat \ {0}, NEW x \in Nat, NEW y \in Nat, NEW z \in Nat,
           P * y <= P * x + x, P * x <= P * z - k * z
    PROVE  P * y <= P * z - k * z + z
<1> SUFFICES ASSUME P * y >= P * z - k * z + z + 1 PROVE FALSE
  <2>1. \A i, j \in Int : i <= j \/ i >= j + 1
    OBVIOUS
  <2> QED
    BY <2>1
<1>1. P * x + x >= P * z - k * z + z + 1
  OBVIOUS
<1>2. P * (P * x + x) >= P * (P * z - k * z + z + 1)
  BY <1>1
<1>3. P * (P * z - k * z + z + 1) = P * (P * z) - P * (k * z) + P * z + P
  OBVIOUS
<1>4. P * (P * x + x) = (P + 1) * (P * x)
  OBVIOUS
<1>5. (P + 1) * (P * x) <= (P + 1) * (P * z - k * z)
  OBVIOUS
<1>6. (P + 1) * (P * z - k * z) = P * (P * z) - P * (k * z) + P * z - k * z
  OBVIOUS
<1>7. P * (P * z) \in Int /\ P * (k * z) \in Int /\ P * z \in Int /\ k * z \in Nat
  OBVIOUS
<1> QED
  BY <1>2, <1>3, <1>4, <1>5, <1>6, <1>7

InRange(bps) == \E w \in Ulps : 8 * U64Max * Scale * (One + bps) < w * Precise

Slippage(bps) == Float(bps * Scale, One)
OneAdjusted(bps, up) == IF up THEN Scale + Slippage(bps) ELSE Scale - Slippage(bps)
Factor(bps, up) == Float(OneAdjusted(bps, up), 1)

(* Slipped, rounding by rounding.                                          *)
LEMMA SlippedIsRounded ==
    ASSUME NEW a, NEW b, NEW up
    PROVE  Slipped(a, b, up) = Float(Float(a, 1) * Factor(b, up), 1)
  BY DEF Slipped, Factor, OneAdjusted, Slippage

LEMMA Parameters ==
    /\ One \in Nat \ {0} /\ U64Max \in Nat \ {0} /\ Precise \in Nat \ {0} /\ Scale \in Nat \ {0}
    /\ Ulps \subseteq Nat \ {0} /\ Scale \in Ulps
    /\ 16 * One <= Precise /\ Precise <= U64Max /\ Precise * One <= Scale
  BY QuoteMathAssumption

(* No unit is too small for what Trades may lead to.                       *)
LEMMA Ranges ==
    ASSUME NEW b \in Nat, NEW n \in Nat, NEW w \in Ulps,
           8 * U64Max * Scale * (One + b) < w * Precise,
           n <= 8 * U64Max * Scale * (One + b)
    PROVE  \A d \in Nat \ {0} : n < d * w * Precise
<1>1. w * Precise \in Nat /\ n < w * Precise
  <2>1. 8 * U64Max * Scale * (One + b) \in Nat
    BY Parameters
  <2>2. w * Precise \in Nat
    BY Parameters
  <2> QED
    BY <2>1, <2>2
<1> TAKE d \in Nat \ {0}
<1>2. d * w * Precise = d * (w * Precise)
  BY Parameters
<1>3. \A x \in Nat : d * x >= x
  OBVIOUS
<1> QED
  BY <1>1, <1>2, <1>3

LEMMA RangeFacts ==
    ASSUME NEW b \in Nat
    PROVE  LET top == 8 * U64Max * Scale * (One + b)
           IN  /\ top \in Nat
               /\ b * Scale <= top
               /\ One * Scale <= top
               /\ U64Max * Scale <= top
               /\ \A a \in 0 .. U64Max : 4 * a * (Scale + 2 * (b * Scale)) <= top
<1> DEFINE top == 8 * U64Max * Scale * (One + b)
           c == Scale * (One + b)
<1>1. c \in Nat /\ c = Scale * One + Scale * b /\ Scale * One \in Nat /\ Scale * b \in Nat
  BY Parameters
<1>2. Scale * One >= Scale /\ Scale \in Nat
  BY Parameters
<1>3. top = 8 * (U64Max * c)
  BY Parameters
<1>4. U64Max * c >= c /\ U64Max * c \in Nat /\ U64Max * c >= U64Max * Scale
  <2> HIDE DEF c
  <2>1. c >= Scale
    BY <1>1, <1>2
  <2> QED
    BY <1>1, <1>2, <2>1, Parameters
<1>5. ASSUME NEW a \in 0 .. U64Max PROVE 4 * a * (Scale + 2 * (b * Scale)) <= top
  <2>1. Scale + 2 * (b * Scale) <= 2 * c /\ Scale + 2 * (b * Scale) \in Nat
    <3>1. b * Scale = Scale * b
      BY Parameters
    <3> HIDE DEF c
    <3> QED
      BY <1>1, <1>2, <3>1
  <2>2. a \in Nat /\ a <= U64Max /\ U64Max \in Nat
    BY Parameters
  <2> DEFINE y == Scale + 2 * (b * Scale)
  <2> HIDE DEF y, c
  <2>3. a * y <= a * (2 * c) /\ a * y \in Nat
    BY <2>1, <2>2, <1>1 DEF y
  <2>4. a * (2 * c) <= U64Max * (2 * c)
    BY <2>2, <1>1
  <2>5. U64Max * (2 * c) = 2 * (U64Max * c)
    BY <2>2, <1>1
  <2>6. 4 * a * y = 4 * (a * y)
    BY <2>1, <2>2 DEF y
  <2>7. a * (2 * c) \in Nat
    BY <2>2, <1>1
  <2>8. 4 * a * y <= top
    BY <1>3, <1>4, <2>3, <2>4, <2>5, <2>6, <2>7
  <2> QED
    BY <2>8 DEF y
<1>6. top \in Nat /\ b * Scale <= top /\ One * Scale <= top /\ U64Max * Scale <= top
  <2>1. b * Scale = Scale * b /\ One * Scale = Scale * One /\ U64Max * Scale \in Nat
    BY Parameters
  <2> HIDE DEF c
  <2>2. top = 8 * (U64Max * c)
    BY <1>3
  <2> HIDE DEF top
  <2> QED
    BY <1>1, <1>2, <1>4, <2>1, <2>2
<1> QED
  BY <1>5, <1>6

(* What (bps as f64) / One is off by.  Not more than all of it, if bps is  *)
(* not.                                                                    *)
LEMMA SlippageBounds ==
    ASSUME NEW b \in Nat, InRange(b)
    PROVE  /\ Slippage(b) \in Nat
           /\ Precise * (Slippage(b) * One) <= Precise * (b * Scale) + b * Scale
           /\ Precise * (Slippage(b) * One) >= Precise * (b * Scale) - b * Scale
           /\ Slippage(b) <= 2 * (b * Scale)
           /\ b <= One => Slippage(b) <= Scale
           /\ b = 0 => Slippage(b) = 0
<1> DEFINE S == Slippage(b)
           n == b * Scale
           top == 8 * U64Max * Scale * (One + b)
<1>0. PICK w \in Ulps : top < w * Precise
  BY DEF InRange
<1>1. n \in Nat /\ n <= top /\ One * Scale <= top
  BY RangeFacts, Parameters
<1>2. n = 0 \/ One * Precise <= n
  <2>1. CASE b # 0
    <3>1. b * Scale >= Scale
      BY <2>1, Parameters
    <3>2. One * Precise = Precise * One /\ One * Precise \in Nat
      BY Parameters
    <3> QED
      BY <1>1, <3>1, <3>2, Parameters
  <2> QED
    BY <2>1, Parameters
<1>3. n < One * w * Precise
  <2> HIDE DEF n
  <2> QED
    BY <1>0, <1>1, Ranges, Parameters
<1>4. /\ S \in Nat
      /\ Precise * (S * One) <= Precise * n + n
      /\ Precise * (S * One) >= Precise * n - n
  <2>1. S = Float(n, One)
    BY DEF Slippage
  <2> HIDE DEF n, S
  <2> QED
    BY <1>1, <1>2, <1>3, <2>1, FloatError, Parameters
<1>5. S <= 2 * n
  <2> HIDE DEF S, n
  <2>1. S * One >= S /\ S * One \in Nat
    BY <1>4, Parameters
  <2>2. Precise * n >= n /\ Precise * n \in Nat
    BY <1>1, Parameters
  <2>3. Precise * (S * One) <= Precise * (2 * n)
    BY <1>1, <1>4, <2>1, <2>2, Parameters
  <2>4. \A x, y \in Nat : Precise * x <= Precise * y => x <= y
    BY Parameters
  <2>5. S * One <= 2 * n
    BY <1>1, <2>1, <2>3, <2>4
  <2> QED
    BY <1>1, <1>4, <2>1, <2>5
<1>6. ASSUME b <= One PROVE S <= Scale
  <2>1. CASE b = One
    <3>1. Float(One * (1 * Scale), One) = 1 * Scale
      <4>1. 1 * Scale < w * Precise
        <5>1. 1 * Scale = Scale /\ One * Scale >= Scale /\ One * Scale \in Nat
          BY Parameters
        <5>2. top \in Nat /\ w * Precise \in Nat
          BY Parameters
        <5> HIDE DEF top
        <5> QED
          BY <1>0, <1>1, <5>1, <5>2, Parameters
      <4>2. 1 \in Nat /\ 1 <= Precise
        BY Parameters
      <4> QED
        BY <4>1, <4>2, FloatExact, Parameters
    <3>2. 1 * Scale = Scale
      BY Parameters
    <3> QED
      BY <2>1, <3>1, <3>2, Parameters DEF Slippage
  <2>2. CASE b < One
    <3>1. Precise * n + n <= Precise * (One * Scale)
      <4>1. n = b * Scale /\ n <= One * Scale - Scale /\ One * Scale \in Nat
        BY <2>2, Parameters
      <4> DEFINE m == One * Scale
      <4> HIDE DEF n, m
      <4>2. Precise * n <= Precise * (m - Scale)
        BY <1>1, <4>1, Parameters DEF m
      <4>3. Precise * (m - Scale) = Precise * m - Precise * Scale
        BY <4>1, Parameters DEF m
      <4>4. m <= Precise * Scale
        BY Parameters DEF m
      <4>5. /\ n <= m /\ m \in Nat /\ Precise * n \in Nat
            /\ Precise * m \in Nat /\ Precise * Scale \in Nat
        BY <1>1, <4>1, Parameters DEF m
      <4> QED
        BY <4>2, <4>3, <4>4, <4>5, <1>1 DEF m
    <3> HIDE DEF S, n
    <3>2. Precise * (S * One) <= Precise * (One * Scale)
      BY <1>1, <1>4, <3>1, Parameters
    <3>3. S * One <= One * Scale /\ One * Scale = Scale * One
      <4>1. \A x, y \in Nat : Precise * x <= Precise * y => x <= y
        BY Parameters
      <4>2. S * One \in Nat /\ One * Scale \in Nat
        BY <1>4, Parameters
      <4> QED
        BY <3>2, <4>1, <4>2, Parameters
    <3>4. \A x, y \in Nat : x * One <= y * One => x <= y
      BY Parameters
    <3>5. Scale \in Nat
      BY Parameters
    <3> QED
      BY <1>4, <3>3, <3>4, <3>5
  <2> QED
    BY <1>6, <2>1, <2>2, Parameters
<1>7. ASSUME b = 0 PROVE S = 0
  <2>1. Float(One * (0 * Scale), One) = 0 * Scale
    <3>1. 0 * Scale < w * Precise
      BY Parameters
    <3> QED
      BY <3>1, FloatExact, Parameters
  <2>2. 0 * Scale = 0 /\ One * 0 = 0
    BY Parameters
  <2> QED
    BY <1>7, <2>1, <2>2 DEF Slippage
<1> HIDE DEF S
<1>8. S <= 2 * (b * Scale)
  BY <1>5
<1> QED
  BY <1>4, <1>6, <1>7, <1>8 DEF S

(* Each rounding of Slipped.                                               *)
LEMMA SlippedBounds ==
    ASSUME NEW b \in Nat, InRange(b), NEW up \in BOOLEAN, up \/ b <= One, NEW a \in 0 .. U64Max
    PROVE  LET S == Slippage(b)
               R == OneAdjusted(b, up)
               F == Factor(b, up)
               A == Float(a, 1)
               X == Slipped(a, b, up)
           IN  /\ S \in Nat /\ R \in Nat /\ F \in Nat /\ A \in Nat /\ X \in Nat
               /\ R = IF up THEN Scale + S ELSE Scale - S
               /\ Precise * F <= Precise * R + R
               /\ Precise * F >= Precise * R - R
               /\ Precise * A <= Precise * a + a
               /\ Precise * A >= Precise * a - a
               /\ Precise * X <= Precise * (A * F) + A * F
               /\ Precise * X >= Precise * (A * F) - A * F
               /\ a <= Precise => A = a
               /\ b = 0 => F = Scale
               /\ b = 0 /\ a <= Precise => X = a * Scale
<1> DEFINE S == Slippage(b)
           R == OneAdjusted(b, up)
           F == Factor(b, up)
           A == Float(a, 1)
           X == Slipped(a, b, up)
           n == b * Scale
           top == 8 * U64Max * Scale * (One + b)
<1>0. PICK w \in Ulps : top < w * Precise
  BY DEF InRange
<1>1. /\ n \in Nat /\ n <= top /\ One * Scale <= top /\ U64Max * Scale <= top /\ top \in Nat
      /\ 4 * a * (Scale + 2 * n) <= top
  BY RangeFacts, Parameters
<1>2. a \in Nat /\ a <= U64Max
  BY Parameters
<1>3. /\ S \in Nat /\ S <= 2 * n
      /\ b <= One => S <= Scale
      /\ b = 0 => S = 0
  BY SlippageBounds
<1>4. R \in Nat /\ R <= Scale + 2 * n /\ R = IF up THEN Scale + S ELSE Scale - S
  <2>1. R = IF up THEN Scale + S ELSE Scale - S
    BY DEF OneAdjusted
  <2> HIDE DEF R, S, n
  <2> QED
    BY <1>1, <1>3, <2>1, Parameters
<1>5. w * Precise \in Nat /\ \A x \in Nat : 1 * w * Precise = w * Precise
  BY Parameters
<1>6. ASSUME NEW x \in Nat, x <= top
      PROVE  /\ Float(x, 1) \in Nat
             /\ Precise * Float(x, 1) <= Precise * x + x
             /\ Precise * Float(x, 1) >= Precise * x - x
             /\ Float(x, 1) <= 2 * x
  <2>1. x < 1 * w * Precise
    BY <1>0, <1>6, Ranges
  <2>2. /\ Float(x, 1) \in Nat
        /\ Precise * (Float(x, 1) * 1) <= Precise * x + x
        /\ Precise * (Float(x, 1) * 1) >= Precise * x - x
    BY <1>6, <2>1, FloatError
  <2>3. Float(x, 1) * 1 = Float(x, 1)
    BY <2>2
  <2>4. Float(x, 1) <= 2 * x
    <3> DEFINE f == Float(x, 1)
    <3>1. f \in Nat /\ Precise * f <= Precise * x + x
      BY <2>2, <2>3
    <3>2. x <= Precise * x /\ Precise * x \in Nat
      BY <1>6, Parameters
    <3> HIDE DEF f
    <3>3. Precise * f <= Precise * (2 * x)
      BY <1>6, <3>1, <3>2, Parameters
    <3>4. \A i, j \in Nat : Precise * i <= Precise * j => i <= j
      BY Parameters
    <3>5. 2 * x \in Nat
      BY <1>6
    <3>6. f <= 2 * x
      BY <3>1, <3>3, <3>4, <3>5
    <3> QED
      BY <3>6 DEF f
  <2> QED
    BY <2>2, <2>3, <2>4
<1>7. a <= top
  <2>1. U64Max <= U64Max * Scale /\ U64Max * Scale \in Nat
    BY Parameters
  <2> HIDE DEF top
  <2> QED
    BY <1>1, <1>2, <2>1, Parameters
<1>8. /\ A \in Nat /\ A <= 2 * a
      /\ Precise * A <= Precise * a + a
      /\ Precise * A >= Precise * a - a
  BY <1>2, <1>6, <1>7
<1>9. R <= top
  <2>1. top >= 8 * n + 8 * Scale
    <3>1. top = 8 * (U64Max * (Scale * (One + b)))
      BY Parameters
    <3>2. Scale * (One + b) = Scale * One + n /\ Scale * One >= Scale /\ Scale * One \in Nat
      BY Parameters
    <3>3. \A x \in Nat : U64Max * x >= x /\ U64Max * x \in Nat
      BY Parameters
    <3> DEFINE c == Scale * (One + b)
    <3>4. c \in Nat /\ c >= Scale + n
      BY <1>1, <3>2, Parameters
    <3> HIDE DEF c, n
    <3> QED
      BY <1>1, <3>1, <3>3, <3>4, Parameters DEF c
  <2> HIDE DEF R, n, top
  <2> QED
    BY <1>1, <1>4, <2>1, Parameters
<1>10. /\ F \in Nat /\ F <= 2 * R
       /\ Precise * F <= Precise * R + R
       /\ Precise * F >= Precise * R - R
  <2>1. F = Float(R, 1)
    BY DEF Factor
  <2> HIDE DEF F, R, top
  <2> QED
    BY <1>4, <1>6, <1>9, <2>1
<1>11. A * F \in Nat /\ A * F <= top
  <2> DEFINE y == Scale + 2 * n
  <2>1. y \in Nat /\ F <= 2 * y
    <3> HIDE DEF F, R, n
    <3> QED
      BY <1>1, <1>4, <1>10, Parameters
  <2> HIDE DEF A, F, y
  <2>2. A * F <= (2 * a) * F
    BY <1>2, <1>8, <1>10
  <2>3. (2 * a) * F <= (2 * a) * (2 * y)
    BY <1>2, <1>10, <2>1
  <2>4. (2 * a) * (2 * y) = 4 * a * y
    BY <1>2, <2>1
  <2>5. A * F \in Nat /\ (2 * a) * F \in Nat /\ 4 * a * y \in Nat
    BY <1>2, <1>8, <1>10, <2>1
  <2>6. 4 * a * y <= top
    BY <1>1 DEF y
  <2> HIDE DEF top
  <2> QED
    BY <1>1, <2>2, <2>3, <2>4, <2>5, <2>6
<1>12. X = Float(A * F, 1)
  BY SlippedIsRounded
<1>13. /\ X \in Nat
       /\ Precise * X <= Precise * (A * F) + A * F
       /\ Precise * X >= Precise * (A * F) - A * F
  <2> HIDE DEF X, A, F, top
  <2> QED
    BY <1>6, <1>11, <1>12
<1>14. ASSUME NEW m \in Nat, m <= Precise, NEW s \in Ulps, m * s <= top
       PROVE  Float(m * s, 1) = m * s
  <2>1. m * s \in Nat
    BY Parameters
  <2>2. m * s < w * Precise
    <3> HIDE DEF top
    <3> QED
      BY <1>0, <1>1, <1>5, <1>14, <2>1
  <2>3. Float(1 * (m * s), 1) = m * s
    BY <1>14, <2>2, FloatExact
  <2> QED
    BY <2>1, <2>3
<1>15. ASSUME a <= Precise PROVE A = a
  <2>1. 1 \in Ulps
    BY UnitUlp
  <2>2. a * 1 = a
    BY <1>2
  <2> QED
    BY <1>2, <1>7, <1>14, <1>15, <2>1, <2>2
<1>16. ASSUME b = 0 PROVE F = Scale
  <2>1. R = Scale
    BY <1>3, <1>4, <1>16, Parameters
  <2>2. 1 * Scale = Scale /\ 1 \in Nat /\ 1 <= Precise
    BY Parameters
  <2>3. Float(1 * Scale, 1) = 1 * Scale
    BY <1>9, <1>14, <2>1, <2>2, Parameters
  <2> QED
    BY <2>1, <2>2, <2>3 DEF Factor
<1>17. ASSUME b = 0, a <= Precise PROVE X = a * Scale
  <2>1. A * F = a * Scale
    BY <1>15, <1>16, <1>17
  <2>2. a * Scale <= top
    BY <1>11, <2>1
  <2> QED
    BY <1>2, <1>12, <1>14, <1>17, <2>1, <2>2, Parameters
<1> HIDE DEF S, R, F, A, X
<1> QED
  BY <1>3, <1>4, <1>8, <1>10, <1>13, <1>15, <1>16, <1>17 DEF S, R, F, A, X

(* Some slippage is not swallowed by the roundings that follow.            *)
LEMMA SlippageCounts ==
    ASSUME NEW b \in Nat, InRange(b), b > 0
    PROVE  Precise * Slippage(b) >= 8 * Scale
<1> DEFINE P == Precise
           S == Slippage(b)
<1>1. S \in Nat
  BY SlippageBounds
<1>2. P * (S * One) >= P * (b * Scale) - b * Scale
  BY SlippageBounds
<1>3. /\ P \in Nat \ {0} /\ One \in Nat \ {0} /\ Scale \in Nat \ {0}
      /\ 16 * One <= P
  BY Parameters
<1> HIDE DEF P, S
<1>4. P * S >= 8 * Scale
  <2> DEFINE n == b * Scale
  <2>1. n \in Nat /\ n >= Scale
    BY <1>3
  <2> HIDE DEF n
  <2>2. P * n - n >= P * Scale - Scale
    <3>1. P * n - n = (P - 1) * n /\ P * Scale - Scale = (P - 1) * Scale /\ P - 1 \in Nat
      BY <1>3, <2>1
    <3>2. (P - 1) * n >= (P - 1) * Scale
      BY <1>3, <2>1
    <3> QED
      BY <3>1, <3>2
  <2>3. P * Scale >= 16 * (One * Scale)
    BY <1>3
  <2>4. One * Scale >= Scale /\ One * Scale \in Nat /\ P * Scale \in Nat
    BY <1>3
  <2>5. P * (S * One) >= 8 * (One * Scale)
    <3>1. P * (S * One) >= P * n - n
      BY <1>2 DEF n
    <3>2. P * n \in Nat /\ P * (S * One) \in Nat
      BY <1>1, <1>3, <2>1
    <3> QED
      BY <1>3, <2>1, <2>2, <2>3, <2>4, <3>1, <3>2
  <2>6. P * (S * One) = One * (P * S) /\ 8 * (One * Scale) = One * (8 * Scale)
    BY <1>1, <1>3
  <2>7. \A x, y \in Nat : One * x >= One * y => x >= y
    BY <1>3
  <2>8. P * S \in Nat /\ 8 * Scale \in Nat
    BY <1>1, <1>3
  <2> QED
    BY <2>5, <2>6, <2>7, <2>8
<1> QED
  BY <1>4 DEF P, S

(* Rounded up: some slippage is more than the roundings take away.         *)
LEMMA SlippedUp ==
    ASSUME NEW b \in Nat, InRange(b), NEW a \in 0 .. U64Max, b > 0 \/ a <= Precise
    PROVE  Slipped(a, b, TRUE) \in Nat /\ Slipped(a, b, TRUE) >= a * Scale
<1> DEFINE P == Precise
           S == Slippage(b)
           R == OneAdjusted(b, TRUE)
           F == Factor(b, TRUE)
           A == Float(a, 1)
           X == Slipped(a, b, TRUE)
<1>1. /\ S \in Nat /\ R \in Nat /\ F \in Nat /\ A \in Nat /\ X \in Nat
      /\ R = Scale + S
      /\ P * F >= P * R - R
      /\ P * A >= P * a - a
      /\ P * X >= P * (A * F) - A * F
      /\ b = 0 /\ a <= P => X = a * Scale
  BY SlippedBounds
<1>3. /\ P \in Nat \ {0} /\ One \in Nat \ {0} /\ Scale \in Nat \ {0}
      /\ 16 * One <= P /\ a \in Nat
  BY Parameters
<1> HIDE DEF P, S, R, F, A, X
<1>4. ASSUME b = 0 PROVE X >= a * Scale
  <2>1. a <= P
    BY <1>4 DEF P
  <2>2. a * Scale \in Nat
    BY <1>3
  <2> QED
    BY <1>1, <1>4, <2>1, <2>2
<1>5. ASSUME b > 0 PROVE X >= a * Scale
  <2>1. P * S >= 8 * Scale
    BY <1>5, SlippageCounts DEF P, S
  <2>2. P >= 16
    BY <1>3
  <2>3. P * R >= P * Scale + 8 * Scale
    <3>1. P * R = P * Scale + P * S
      BY <1>1, <1>3
    <3>2. P * Scale \in Nat /\ P * S \in Nat
      BY <1>1, <1>3
    <3> QED
      BY <2>1, <3>1, <3>2, <1>3
  <2>4. P * F >= P * Scale + 6 * Scale
    <3>1. P * F >= P * Scale + 8 * Scale - 2 * Scale
      BY <1>1, <1>3, <2>2, <2>3, Grow
    <3>2. P * F \in Nat /\ P * Scale \in Nat
      BY <1>1, <1>3
    <3> QED
      BY <1>3, <3>1, <3>2
  <2> DEFINE aF == a * F
             AF == A * F
             aC == a * Scale
  <2>5. aF \in Nat /\ AF \in Nat /\ aC \in Nat
    BY <1>1, <1>3
  <2>6. P * aF >= P * aC + 6 * aC
    <3>1. a * (P * F) >= a * (P * Scale + 6 * Scale)
      BY <1>1, <1>3, <2>4
    <3>2. a * (P * F) = P * aF /\ a * (P * Scale + 6 * Scale) = P * aC + 6 * aC
      BY <1>1, <1>3
    <3> QED
      BY <3>1, <3>2
  <2>7. P * AF >= P * aF - aF
    <3>1. (P * A) * F >= (P * a - a) * F
      BY <1>1, <1>3
    <3>2. (P * A) * F = P * AF /\ (P * a - a) * F = P * aF - aF
      BY <1>1, <1>3
    <3> QED
      BY <3>1, <3>2
  <2> HIDE DEF aF, AF, aC
  <2>8. P * AF >= P * aC + 4 * aC
    <3>1. P * AF >= P * aC + 6 * aC - 2 * aC
      BY <1>3, <2>2, <2>5, <2>6, <2>7, Grow
    <3>2. P * AF \in Nat /\ P * aC \in Nat
      BY <1>3, <2>5
    <3> QED
      BY <2>5, <3>1, <3>2
  <2>9. P * X >= P * aC + 4 * aC - 2 * aC
    <3>1. P * X >= P * AF - AF
      BY <1>1 DEF AF
    <3> QED
      BY <1>1, <1>3, <2>2, <2>5, <2>8, <3>1, Grow
  <2>10. X >= aC
    <3>1. P * X >= P * aC
      <4>1. P * X \in Nat /\ P * aC \in Nat
        BY <1>1, <1>3, <2>5
      <4> QED
        BY <2>5, <2>9, <4>1
    <3>2. \A x, y \in Nat : P * x >= P * y => x >= y
      BY <1>3
    <3> QED
      BY <1>1, <2>5, <3>1, <3>2
  <2> QED
    BY <2>10 DEF aC
<1>6. X >= a * Scale
  BY <1>4, <1>5
<1> QED
  BY <1>1, <1>6 DEF X

(* Rounded down: likewise.                                                 *)
LEMMA SlippedDown ==
    ASSUME NEW b \in Nat, InRange(b), b <= One, NEW a \in 0 .. U64Max, b > 0 \/ a <= Precise
    PROVE  Slipped(a, b, FALSE) \in Nat /\ Slipped(a, b, FALSE) <= a * Scale
<1> DEFINE P == Precise
           S == Slippage(b)
           R == OneAdjusted(b, FALSE)
           F == Factor(b, FALSE)
           A == Float(a, 1)
           X == Slipped(a, b, FALSE)
<1>1. /\ S \in Nat /\ R \in Nat /\ F \in Nat /\ A \in Nat /\ X \in Nat
      /\ R = Scale - S
      /\ P * F <= P * R + R
      /\ P * A <= P * a + a
      /\ P * X <= P * (A * F) + A * F
      /\ b = 0 /\ a <= P => X = a * Scale
  BY SlippedBounds
<1>3. /\ P \in Nat \ {0} /\ One \in Nat \ {0} /\ Scale \in Nat \ {0}
      /\ 16 * One <= P /\ a \in Nat
  BY Parameters
<1> HIDE DEF P, S, R, F, A, X
<1>4. ASSUME b = 0 PROVE X <= a * Scale
  <2>1. a <= P
    BY <1>4 DEF P
  <2>2. a * Scale \in Nat
    BY <1>3
  <2> QED
    BY <1>1, <1>4, <2>1, <2>2
<1>5. ASSUME b > 0 PROVE X <= a * Scale
  <2>1. P * S >= 8 * Scale
    BY <1>5, SlippageCounts DEF P, S
  <2>3. P * R <= P * Scale - 8 * Scale
    <3>1. P * R = P * Scale - P * S
      BY <1>1, <1>3
    <3>2. P * Scale \in Nat /\ P * S \in Nat
      BY <1>1, <1>3
    <3> QED
      BY <2>1, <3>1, <3>2, <1>3
  <2>4. P * F <= P * Scale - 7 * Scale
    <3>1. P * F <= P * Scale - 8 * Scale + Scale
      BY <1>1, <1>3, <2>3, Shrink
    <3>2. P * F \in Nat /\ P * Scale \in Nat
      BY <1>1, <1>3
    <3> QED
      BY <1>3, <3>1, <3>2
  <2> DEFINE aF == a * F
             AF == A * F
             aC == a * Scale
  <2>5. aF \in Nat /\ AF \in Nat /\ aC \in Nat
    BY <1>1, <1>3
  <2>6. P * aF <= P * aC - 7 * aC
    <3>1. a * (P * F) <= a * (P * Scale - 7 * Scale)
      BY <1>1, <1>3, <2>4
    <3>2. a * (P * F) = P * aF /\ a * (P * Scale - 7 * Scale) = P * aC - 7 * aC
      BY <1>1, <1>3
    <3> QED
      BY <3>1, <3>2
  <2>7. P * AF <= P * aF + aF
    <3>1. (P * A) * F <= (P * a + a) * F
      BY <1>1, <1>3
    <3>2. (P * A) * F = P * AF /\ (P * a + a) * F = P * aF + aF
      BY <1>1, <1>3
    <3> QED
      BY <3>1, <3>2
  <2> HIDE DEF aF, AF, aC
  <2>8. P * AF <= P * aC - 6 * aC
    <3>1. P * AF <= P * aC - 7 * aC + aC
      BY <1>3, <2>5, <2>6, <2>7, Shrink
    <3>2. P * AF \in Nat /\ P * aC \in Nat
      BY <1>3, <2>5
    <3> QED
      BY <2>5, <3>1, <3>2
  <2>9. P * X <= P * aC - 6 * aC + aC
    <3>1. P * X <= P * AF + AF
      BY <1>1 DEF AF
    <3> QED
      BY <1>1, <1>3, <2>5, <2>8, <3>1, Shrink
  <2>10. X <= aC
    <3>1. P * X <= P * aC
      <4>1. P * X \in Nat /\ P * aC \in Nat
        BY <1>1, <1>3, <2>5
      <4> QED
        BY <2>5, <2>9, <4>1
    <3>2. \A x, y \in Nat : P * x <= P * y => x <= y
      BY <1>3
    <3> QED
      BY <1>1, <2>5, <3>1, <3>2
  <2> QED
    BY <2>10 DEF aC
<1>6. X <= a * Scale
  BY <1>4, <1>5
<1> QED
  BY <1>1, <1>6 DEF X

-----------------------------------------------------------------------------
(***************************************************************************)
(* Well within the precision they do not reach the next integer but one.   *)
(***************************************************************************)
(* Three roundings of a product well within the precision, in integers.    *)
LEMMA NearBy ==
    ASSUME NEW P \in Nat, P >= 16, NEW C \in Nat \ {0}, NEW a \in Nat,
           NEW V \in Nat, NEW W \in Nat, NEW n \in Nat, NEW r \in Nat, NEW f \in Nat, NEW x \in Nat,
           V <= W, n <= W, 4 * (a * W) <= P * C,
           P * r <= P * V + n, P * r >= P * V - n,
           P * f <= P * r + r, P * f >= P * r - r,
           P * x <= P * (a * f) + a * f, P * x >= P * (a * f) - a * f
    PROVE  x < a * V + C /\ x > a * V - C
<1>0. \A i, j \in Int : P * i <= P * j => i <= j
  OBVIOUS
<1>1. ASSUME NEW i \in Nat, NEW j \in Nat, NEW k \in Nat, k <= j, P * i <= P * j + k
      PROVE  16 * i <= 17 * j
  <2>1. 16 * (P * i) <= 16 * (P * j) + 16 * j
    BY <1>1
  <2>2. 16 * j <= P * j
    OBVIOUS
  <2>3. 16 * (P * i) = P * (16 * i) /\ 17 * (P * j) = P * (17 * j) /\ P * j \in Nat /\ P * i \in Nat
    OBVIOUS
  <2>4. P * (16 * i) <= P * (17 * j)
    BY <2>1, <2>2, <2>3
  <2> QED
    BY <1>0, <2>4
<1>2. 16 * r <= 17 * W
  <2>1. P * V <= P * W /\ P * V \in Nat /\ P * W \in Nat /\ P * r \in Nat
    OBVIOUS
  <2>2. P * r <= P * W + n
    BY <2>1
  <2> QED
    BY <1>1, <2>2
<1>3. 16 * f <= 17 * r
  BY <1>1
<1>4. 256 * (f + r + n) <= 817 * W
  BY <1>2, <1>3
<1> DEFINE D == a * (f + r + n)
<1>5. D \in Nat /\ D = a * f + a * r + a * n /\ a * f \in Nat /\ a * r \in Nat /\ a * n \in Nat
  OBVIOUS
<1>6. D < P * C
  <2>1. a * (256 * (f + r + n)) <= a * (817 * W)
    BY <1>4
  <2>2. a * (256 * (f + r + n)) = 256 * D /\ a * (817 * W) = 817 * (a * W) /\ a * W \in Nat
    OBVIOUS
  <2>3. P * C \in Nat /\ P * C > 0
    OBVIOUS
  <2> HIDE DEF D
  <2> QED
    BY <1>5, <2>1, <2>2, <2>3
<1> HIDE DEF D
<1>7. P * x <= P * (a * V) + D /\ P * x >= P * (a * V) - D
  <2>1. a * (P * f) <= a * (P * r + r) /\ a * (P * f) >= a * (P * r - r)
    OBVIOUS
  <2>2. a * (P * r) <= a * (P * V + n) /\ a * (P * r) >= a * (P * V - n)
    OBVIOUS
  <2>3. /\ a * (P * f) = P * (a * f)
        /\ a * (P * r + r) = P * (a * r) + a * r
        /\ a * (P * r - r) = P * (a * r) - a * r
    OBVIOUS
  <2>4. /\ a * (P * r) = P * (a * r)
        /\ a * (P * V + n) = P * (a * V) + a * n
        /\ a * (P * V - n) = P * (a * V) - a * n
    OBVIOUS
  <2>5. P * (a * V) \in Nat /\ P * (a * r) \in Nat /\ P * (a * f) \in Nat /\ P * x \in Nat
    OBVIOUS
  <2> QED
    BY <1>5, <2>1, <2>2, <2>3, <2>4, <2>5
<1>8. P * x < P * (a * V + C) /\ P * x > P * (a * V - C)
  <2>1. P * (a * V + C) = P * (a * V) + P * C /\ P * (a * V - C) = P * (a * V) - P * C
    OBVIOUS
  <2>2. P * (a * V) \in Nat /\ P * C \in Nat /\ P * x \in Nat
    OBVIOUS
  <2> QED
    BY <1>5, <1>6, <1>7, <2>1, <2>2
<1>9. \A i, j \in Int : P * i < P * j => i < j
  OBVIOUS
<1>10. a * V \in Nat
  OBVIOUS
<1> QED
  BY <1>8, <1>9, <1>10

(* The product is off by less than one basis point of an integer.          *)
LEMMA SlippedNear ==
    ASSUME NEW b \in Nat, InRange(b), NEW up \in BOOLEAN, up \/ b <= One, NEW a \in 0 .. U64Max,
           4 * a * (One + b) <= Precise
    PROVE  LET Y == IF up THEN a * (One + b) ELSE a * (One - b)
           IN  /\ Slipped(a, b, up) \in Nat
               /\ One * Slipped(a, b, up) < Y * Scale + Scale
               /\ One * Slipped(a, b, up) > Y * Scale - Scale
<1> DEFINE P == Precise
           S == Slippage(b)
           R == OneAdjusted(b, up)
           F == Factor(b, up)
           A == Float(a, 1)
           X == Slipped(a, b, up)
           k == IF up THEN One + b ELSE One - b
           n == b * Scale
           V == k * Scale
           W == (One + b) * Scale
<1>1. /\ P \in Nat /\ P >= 16 /\ One \in Nat \ {0} /\ Scale \in Nat \ {0} /\ a \in Nat
      /\ 4 * a * (One + b) <= P
  BY Parameters
<1>2. a <= P
  <2>1. 4 * a * (One + b) = 4 * (a * (One + b))
    BY <1>1
  <2>2. a * (One + b) >= a /\ a * (One + b) \in Nat
    BY <1>1
  <2> HIDE DEF P
  <2> QED
    BY <1>1, <2>1, <2>2
<1>3. /\ S \in Nat /\ R \in Nat /\ F \in Nat /\ X \in Nat
      /\ R = IF up THEN Scale + S ELSE Scale - S
      /\ P * F <= P * R + R
      /\ P * F >= P * R - R
      /\ P * X <= P * (A * F) + A * F
      /\ P * X >= P * (A * F) - A * F
      /\ A = a
  BY <1>2, SlippedBounds
<1>4. /\ P * (S * One) <= P * n + n
      /\ P * (S * One) >= P * n - n
  BY SlippageBounds
<1> HIDE DEF P, S, R, F, A, X
<1>5. n \in Nat /\ V \in Nat /\ W \in Nat /\ V <= W /\ n <= W /\ k \in Nat
  <2>1. k \in Nat /\ k <= One + b
    BY <1>1
  <2>2. b * Scale \in Nat /\ k * Scale \in Nat /\ (One + b) * Scale \in Nat
    BY <1>1, <2>1
  <2>3. b * Scale <= (One + b) * Scale /\ k * Scale <= (One + b) * Scale
    BY <1>1, <2>1
  <2> HIDE DEF k
  <2> QED
    BY <2>1, <2>2, <2>3
<1>6. 4 * (a * W) <= P * Scale
  <2>1. (4 * a * (One + b)) * Scale <= P * Scale
    BY <1>1
  <2>2. (4 * a * (One + b)) * Scale = 4 * (a * W)
    BY <1>1
  <2> QED
    BY <2>1, <2>2
<1> DEFINE r == R * One
           f == F * One
           x == X * One
<1>7. r \in Nat /\ f \in Nat /\ x \in Nat
  BY <1>1, <1>3
<1>8. P * r <= P * V + n /\ P * r >= P * V - n
  <2>1. P * (S * One) \in Nat /\ P * n \in Nat /\ P * (Scale * One) \in Nat
    BY <1>1, <1>3, <1>5
  <2>2. CASE up
    <3>1. P * r = P * (Scale * One) + P * (S * One)
      BY <1>1, <1>3, <2>2
    <3>2. P * V = P * (Scale * One) + P * n
      BY <1>1, <2>2
    <3> HIDE DEF r, V, n
    <3> QED
      BY <1>4, <1>5, <2>1, <3>1, <3>2
  <2>3. CASE ~up
    <3>1. P * r = P * (Scale * One) - P * (S * One)
      BY <1>1, <1>3, <2>3
    <3>2. P * V = P * (Scale * One) - P * n
      BY <1>1, <2>3
    <3> HIDE DEF r, V, n
    <3> QED
      BY <1>4, <1>5, <2>1, <3>1, <3>2
  <2> QED
    BY <2>2, <2>3
<1>9. P * f <= P * r + r /\ P * f >= P * r - r
  <2>1. (P * F) * One <= (P * R + R) * One /\ (P * F) * One >= (P * R - R) * One
    BY <1>1, <1>3
  <2>2. /\ (P * F) * One = P * f
        /\ (P * R + R) * One = P * r + r
        /\ (P * R - R) * One = P * r - r
    BY <1>1, <1>3
  <2> QED
    BY <2>1, <2>2
<1>10. P * x <= P * (a * f) + a * f /\ P * x >= P * (a * f) - a * f
  <2>1. /\ (P * X) * One <= (P * (a * F) + a * F) * One
        /\ (P * X) * One >= (P * (a * F) - a * F) * One
    BY <1>1, <1>3
  <2>2. /\ (P * X) * One = P * x
        /\ (P * (a * F) + a * F) * One = P * (a * f) + a * f
        /\ (P * (a * F) - a * F) * One = P * (a * f) - a * f
    BY <1>1, <1>3
  <2> QED
    BY <2>1, <2>2
<1>11. x < a * V + Scale /\ x > a * V - Scale
  <2> HIDE DEF x, f, r, V, W, n
  <2> QED
    BY <1>1, <1>5, <1>6, <1>7, <1>8, <1>9, <1>10, NearBy
<1>12. x = One * X /\ a * V = (a * k) * Scale
  BY <1>1, <1>3, <1>5
<1>13. a * k = IF up THEN a * (One + b) ELSE a * (One - b)
  OBVIOUS
<1> HIDE DEF x, V, k
<1> QED
  BY <1>3, <1>11, <1>12, <1>13 DEF X

(* Quotients of numbers that are nearly the same.                          *)
LEMMA NearFloors ==
    ASSUME NEW N \in Nat \ {0}, NEW C \in Nat \ {0}, NEW X \in Nat, NEW Y \in Nat,
           N * X < Y * C + C, N * X > Y * C - C
    PROVE  X \div C <= Y \div N /\ X \div C + 1 >= Y \div N
<1> DEFINE q == X \div C
           e == Y \div N
<1>1. /\ q \in Nat /\ C * q <= X /\ X < C * q + C
      /\ e \in Nat /\ N * e <= Y /\ Y < N * e + N
  <2>1. /\ X \div C \in Nat /\ X % C \in 0 .. C - 1 /\ X = C * (X \div C) + (X % C)
        /\ Y \div N \in Nat /\ Y % N \in 0 .. N - 1 /\ Y = N * (Y \div N) + (Y % N)
    BY DivFacts
  <2>2. C * (X \div C) \in Nat /\ N * (Y \div N) \in Nat
    BY <2>1
  <2> QED
    BY <2>1, <2>2
<1> HIDE DEF q, e
<1>2. \A i, j \in Int : C * i < C * j => i < j
  OBVIOUS
<1>3. \A i, j \in Int : N * i < N * j => i < j
  OBVIOUS
<1>4. q <= e
  <2>1. N * (C * q) <= N * X
    BY <1>1
  <2>2. N * (C * q) = C * (N * q) /\ Y * C + C = C * (Y + 1) /\ N * X \in Nat /\ C * (N * q) \in Nat
    BY <1>1
  <2>3. C * (N * q) < C * (Y + 1)
    BY <1>1, <2>1, <2>2
  <2>4. N * q < Y + 1
    BY <1>1, <1>2, <2>3
  <2>5. N * q < N * (e + 1)
    <3>1. N * (e + 1) = N * e + N /\ N * e \in Nat /\ N * q \in Nat
      BY <1>1
    <3> QED
      BY <1>1, <2>4, <3>1
  <2> QED
    BY <1>1, <1>3, <2>5
<1>5. q + 1 >= e
  <2>1. N * X < N * (C * q + C)
    BY <1>1
  <2>2. N * (C * q + C) = C * (N * (q + 1)) /\ Y * C - C = C * (Y - 1) /\ N * X \in Nat
    BY <1>1
  <2>3. C * (Y - 1) < C * (N * (q + 1))
    BY <1>1, <2>1, <2>2
  <2>4. Y - 1 < N * (q + 1)
    BY <1>1, <1>2, <2>3
  <2>5. N * (e - 1) < N * (q + 1)
    <3>1. N * (e - 1) = N * e - N /\ N * e \in Nat /\ N * (q + 1) \in Nat
      BY <1>1
    <3> QED
      BY <1>1, <2>4, <3>1
  <2> QED
    BY <1>1, <1>3, <2>5
<1> QED
  BY <1>4, <1>5 DEF q, e

(* And of those, rounded up.                                               *)
LEMMA NearCeilings ==
    ASSUME NEW N \in Nat \ {0}, NEW C \in Nat \ {0}, NEW X \in Nat, NEW Y \in Nat,
           N * X < Y * C + C, N * X > Y * C - C
    PROVE  CeilDiv(X, C) >= CeilDiv(Y, N) /\ CeilDiv(X, C) <= CeilDiv(Y, N) + 1
<1> DEFINE q == CeilDiv(X, C)
           e == CeilDiv(Y, N)
<1>1. /\ q \in Nat /\ q * C >= X /\ q * C < X + C
      /\ e \in Nat /\ e * N >= Y /\ e * N < Y + N
  BY CeilDivFacts
<1> HIDE DEF q, e
<1>2. \A i, j \in Int : C * i < C * j => i < j
  OBVIOUS
<1>3. \A i, j \in Int : N * i < N * j => i < j
  OBVIOUS
<1>4. q >= e
  <2>1. N * (q * C) >= N * X
    BY <1>1
  <2>2. N * (q * C) = C * (N * q) /\ Y * C - C = C * (Y - 1) /\ N * X \in Nat
    BY <1>1
  <2>3. C * (Y - 1) < C * (N * q)
    BY <1>1, <2>1, <2>2
  <2>4. Y - 1 < N * q
    BY <1>1, <1>2, <2>3
  <2>5. N * (e - 1) < N * q
    <3>1. N * (e - 1) = e * N - N /\ e * N \in Nat /\ N * q \in Nat
      BY <1>1
    <3> QED
      BY <1>1, <2>4, <3>1
  <2> QED
    BY <1>1, <1>3, <2>5
<1>5. q <= e + 1
  <2>1. C * (q - 1) < X
    <3>1. C * (q - 1) = q * C - C /\ q * C \in Nat
      BY <1>1
    <3> QED
      BY <1>1, <3>1
  <2>2. N * (C * (q - 1)) < N * X
    BY <1>1, <2>1
  <2>3. N * (C * (q - 1)) = C * (N * (q - 1)) /\ Y * C + C = C * (Y + 1) /\ N * X \in Nat
    BY <1>1
  <2>4. C * (N * (q - 1)) < C * (Y + 1)
    BY <1>1, <2>2, <2>3
  <2>5. N * (q - 1) < Y + 1
    BY <1>1, <1>2, <2>4
  <2>6. N * (q - 1) < N * (e + 1)
    <3>1. N * (e + 1) = e * N + N /\ e * N \in Nat /\ N * (q - 1) \in Int
      BY <1>1
    <3> QED
      BY <1>1, <2>5, <3>1
  <2> QED
    BY <1>1, <1>3, <2>6
<1> QED
  BY <1>4, <1>5 DEF q, e

LEMMA ThresholdUp ==
    ASSUME NEW b \in Nat, InRange(b), NEW a \in 0 .. U64Max
    PROVE  LET th == amount_with_slippage(a, b, TRUE)
           IN  /\ th \in 0 .. U64Max
               /\ b > 0 \/ a <= Precise => th >= a
               /\ 4 * a * (One + b) <= Precise => th - WithSlippage(a, b, TRUE) \in 0 .. 1
<1> DEFINE X == Slipped(a, b, TRUE)
           q == CeilDiv(X, Scale)
           th == amount_with_slippage(a, b, TRUE)
<1>1. a \in Nat /\ a <= U64Max /\ U64Max \in Nat /\ Scale \in Nat \ {0} /\ One \in Nat \ {0}
  BY Parameters
<1>2. X \in Nat
  BY SlippedBounds
<1>3. q \in Nat /\ q * Scale >= X
  <2> HIDE DEF X
  <2> QED
    BY <1>1, <1>2, CeilDivFacts
<1>4. th = IF q <= U64Max THEN q ELSE U64Max
  BY DEF amount_with_slippage, Lesser
<1> HIDE DEF th, q
<1>5. th \in 0 .. U64Max
  BY <1>1, <1>3, <1>4
<1>6. ASSUME b > 0 \/ a <= Precise PROVE th >= a
  <2>1. X >= a * Scale
    BY <1>6, SlippedUp
  <2> HIDE DEF X
  <2>2. q * Scale >= a * Scale
    BY <1>1, <1>2, <1>3, <2>1
  <2>3. \A i, j \in Nat : i * Scale >= j * Scale => i >= j
    BY <1>1
  <2> QED
    BY <1>1, <1>3, <1>4, <2>2, <2>3
<1>7. ASSUME 4 * a * (One + b) <= Precise PROVE th - WithSlippage(a, b, TRUE) \in 0 .. 1
  <2> DEFINE Y == a * (One + b)
             e == CeilDiv(Y, One)
  <2>1. Y \in Nat /\ 4 * Y <= Precise
    <3>1. 4 * a * (One + b) = 4 * (a * (One + b)) /\ a * (One + b) \in Nat
      BY <1>1
    <3> QED
      BY <1>7, <3>1
  <2>2. One * X < Y * Scale + Scale /\ One * X > Y * Scale - Scale
    BY <1>7, SlippedNear
  <2> HIDE DEF X, Y
  <2>3. q >= e /\ q <= e + 1
    BY <1>1, <1>2, <2>1, <2>2, NearCeilings DEF q
  <2>4. e \in Nat /\ e * One < Y + One
    BY <1>1, <2>1, CeilDivFacts
  <2>5. e <= U64Max
    <3> HIDE DEF e
    <3>1. Y <= U64Max /\ U64Max >= 1
      BY <2>1, Parameters
    <3>2. U64Max * One >= U64Max
      BY <1>1
    <3>3. (e - 1) * One < U64Max * One
      <4>1. (e - 1) * One = e * One - One /\ e * One \in Nat /\ U64Max * One \in Nat
        BY <1>1, <2>4
      <4> QED
        BY <1>1, <2>1, <2>4, <3>1, <3>2, <4>1
    <3>4. \A i, j \in Int : i * One < j * One => i < j
      BY <1>1
    <3> QED
      BY <1>1, <2>4, <3>3, <3>4
  <2>6. WithSlippage(a, b, TRUE) = e
    BY DEF WithSlippage, Y
  <2> HIDE DEF e
  <2>7. th - e \in 0 .. 1
    BY <1>1, <1>3, <1>4, <2>3, <2>4, <2>5
  <2> QED
    BY <2>6, <2>7
<1> QED
  BY <1>5, <1>6, <1>7 DEF th

LEMMA ThresholdDown ==
    ASSUME NEW b \in Nat, InRange(b), NEW a \in 0 .. U64Max
    PROVE  LET th == amount_with_slippage(a, b, FALSE)
           IN  /\ th \in 0 .. U64Max
               /\ b > 0 \/ a <= Precise => th <= a
               /\ 4 * a * (One + b) <= Precise => th - WithSlippage(a, b, FALSE) \in -1 .. 0
<1> DEFINE X == Slipped(a, b, FALSE)
           q == X \div Scale
           th == amount_with_slippage(a, b, FALSE)
<1>1. a \in Nat /\ a <= U64Max /\ U64Max \in Nat /\ Scale \in Nat \ {0} /\ One \in Nat \ {0}
  BY Parameters
<1>2. CASE b > One
  <2>1. th = 0 /\ WithSlippage(a, b, FALSE) = 0
    BY <1>2 DEF amount_with_slippage, WithSlippage
  <2> HIDE DEF th
  <2>2. th \in 0 .. U64Max /\ th <= a /\ th - 0 \in -1 .. 0
    BY <1>1, <2>1
  <2> QED
    BY <2>1, <2>2 DEF th
<1>3. CASE b <= One
  <2>1. X \in Nat
    BY <1>3, SlippedBounds
  <2>2. q \in Nat /\ Scale * q <= X
    <3>1. q \in Nat /\ X % Scale \in 0 .. Scale - 1 /\ X = Scale * q + (X % Scale)
      <4> HIDE DEF X
      <4> QED
        BY <1>1, <2>1, DivFacts
    <3> HIDE DEF q, X
    <3>2. Scale * q \in Nat
      BY <1>1, <3>1
    <3> QED
      BY <1>1, <2>1, <3>1, <3>2
  <2>3. th = IF q <= U64Max THEN q ELSE U64Max
    <3>1. ~(b > One)
      BY <1>1, <1>3
    <3> QED
      BY <3>1, Zenon DEF amount_with_slippage, Lesser
  <2> HIDE DEF th, q
  <2>4. th \in 0 .. U64Max /\ th <= q
    BY <1>1, <2>2, <2>3
  <2>5. ASSUME b > 0 \/ a <= Precise PROVE th <= a
    <3>1. X <= a * Scale
      BY <1>3, <2>5, SlippedDown
    <3> HIDE DEF X
    <3>2. q * Scale <= a * Scale
      <4>1. q * Scale = Scale * q /\ q * Scale \in Nat /\ a * Scale \in Nat
        BY <1>1, <2>2
      <4> QED
        BY <2>1, <2>2, <3>1, <4>1
    <3>3. \A i, j \in Nat : i * Scale <= j * Scale => i <= j
      BY <1>1
    <3> QED
      BY <1>1, <2>2, <2>4, <3>2, <3>3
  <2>6. ASSUME 4 * a * (One + b) <= Precise PROVE th - WithSlippage(a, b, FALSE) \in -1 .. 0
    <3> DEFINE Y == a * (One - b)
               e == Y \div One
    <3>1. Y \in Nat /\ Y <= a * One
      <4>1. One - b \in Nat /\ One - b <= One
        BY <1>1, <1>3
      <4> QED
        BY <1>1, <4>1
    <3>2. One * X < Y * Scale + Scale /\ One * X > Y * Scale - Scale
      BY <1>3, <2>6, SlippedNear
    <3> HIDE DEF X, Y
    <3>3. q <= e /\ q + 1 >= e
      BY <1>1, <2>1, <3>1, <3>2, NearFloors DEF q
    <3>4. e \in Nat /\ e <= a
      <4>1. e \in Nat /\ Y % One \in 0 .. One - 1 /\ Y = One * e + (Y % One)
        BY <1>1, <3>1, DivFacts
      <4> HIDE DEF e
      <4>2. One * e <= One * a
        <5>1. One * e \in Nat /\ One * a = a * One /\ One * a \in Nat
          BY <1>1, <4>1
        <5> QED
          BY <1>1, <3>1, <4>1, <5>1
      <4>3. \A i, j \in Nat : One * i <= One * j => i <= j
        BY <1>1
      <4> QED
        BY <1>1, <4>1, <4>2, <4>3
    <3>5. WithSlippage(a, b, FALSE) = e
      BY <1>1, <1>3 DEF WithSlippage, Y
    <3> HIDE DEF e
    <3>6. th - e \in -1 .. 0
      BY <1>1, <2>2, <2>3, <3>3, <3>4
    <3> QED
      BY <3>5, <3>6
  <2> QED
    BY <2>4, <2>5, <2>6 DEF th
<1>4. b > One \/ b <= One
  BY <1>1
<1> QED
  BY <1>2, <1>3, <1>4

-----------------------------------------------------------------------------
(***************************************************************************)
(* The thresholds and the types of what is answered.                       *)
(***************************************************************************)
LEMMA TradeTypes ==
    ASSUME NEW t \in Trades
    PROVE  /\ t.base_in \in BOOLEAN
           /\ t.amount \in 0 .. U64Max
           /\ t.bps \in Nat /\ InRange(t.bps)
           /\ t.in_fee \in TransferFee /\ t.out_fee \in TransferFee
  BY QuoteAssumption DEF InRange

(* An answer was computed from amounts that are u64 numbers.               *)
LEMMA ComputedAmounts ==
    ASSUME NEW t \in Trades, NEW swap \in Swaps, Computed(t, swap)
    PROVE  LET other == OtherAmount(t, swap)
           IN  /\ other \in 0 .. U64Max
               /\ quoted.trade = t
               /\ quoted.in_amount = IF t.base_in THEN t.amount ELSE other
               /\ quoted.out_amount = IF t.base_in THEN other ELSE t.amount
               /\ quoted.threshold = amount_with_slippage(other, t.bps, ~t.base_in)
<1> DEFINE other == OtherAmount(t, swap)
<1>1. swap.other \in Nat /\ swap.other <= U64Max /\ other # Panic
  BY QuoteAssumption, QuoteMathAssumption DEF Computed, ResultPanics
<1>2. other \in 0 .. U64Max
  <2>1. CASE t.base_in
    <3>1. other = get_amount_after_transfer_fee(swap.other, t.out_fee, TRUE)
      BY <2>1, TradeTypes DEF OtherAmount
    <3>2. other \in 0 .. swap.other
      BY <1>1, <3>1, ArrivingBounds, TradeTypes
    <3> HIDE DEF other
    <3> QED
      BY <1>1, <3>2, QuoteMathAssumption
  <2>2. CASE ~t.base_in
    <3>1. other = get_amount_after_transfer_fee(swap.other, t.in_fee, FALSE)
      BY <2>2, TradeTypes DEF OtherAmount
    <3> QED
      BY <1>1, <3>1, SendingBounds, TradeTypes
  <2> QED
    BY <2>1, <2>2
<1> QED
  BY <1>2 DEF Computed, QuoteResponse

(* The threshold of a quote is one that the lemmas above bound.            *)
LEMMA ComputedThreshold ==
    ASSUME NEW t \in Trades, NEW swap \in Swaps, Computed(t, swap)
    PROVE  LET other == OtherAmount(t, swap)
               exact == WithSlippage(other, t.bps, ~t.base_in)
           IN  /\ quoted.threshold \in 0 .. U64Max
               /\ t.bps > 0 \/ other <= Precise =>
                    IF t.base_in THEN quoted.threshold <= other
                    ELSE quoted.threshold >= other
               /\ 4 * other * (One + t.bps) <= Precise =>
                    quoted.threshold - exact \in IF t.base_in THEN -1 .. 0 ELSE 0 .. 1
<1> DEFINE other == OtherAmount(t, swap)
<1>1. /\ other \in 0 .. U64Max
      /\ quoted.threshold = amount_with_slippage(other, t.bps, ~t.base_in)
  BY ComputedAmounts
<1> HIDE DEF other
<1>2. CASE t.base_in
  <2>1. ~t.base_in = FALSE
    BY <1>2
  <2>2. /\ quoted.threshold \in 0 .. U64Max
        /\ t.bps > 0 \/ other <= Precise => quoted.threshold <= other
        /\ 4 * other * (One + t.bps) <= Precise =>
             quoted.threshold - WithSlippage(other, t.bps, FALSE) \in -1 .. 0
    BY <1>1, <2>1, TradeTypes, ThresholdDown
  <2> QED
    BY <1>2, <2>1, <2>2 DEF other
<1>3. CASE ~t.base_in
  <2>1. ~t.base_in = TRUE
    BY <1>3
  <2>2. /\ quoted.threshold \in 0 .. U64Max
        /\ t.bps > 0 \/ other <= Precise => quoted.threshold >= other
        /\ 4 * other * (One + t.bps) <= Precise =>
             quoted.threshold - WithSlippage(other, t.bps, TRUE) \in 0 .. 1
    BY <1>1, <2>1, TradeTypes, ThresholdUp
  <2> QED
    BY <1>3, <2>1, <2>2 DEF other
<1> QED
  BY <1>2, <1>3

(* No threshold is stricter than its quote, and it is exact, or lenient by *)
(* one, well within the precision of the floats: for any precision, and    *)
(* any slippage.                                                           *)
THEOREM ThresholdsHonourSlippage == QuoteSpec => []SlippageHonoured
<1>1. QuotedInv => SlippageHonoured
  <2> SUFFICES ASSUME QuotedInv, status = "ok" PROVE SlippageHonoured
    BY DEF SlippageHonoured
  <2>1. PICK t \in Trades, swap \in Swaps : Computed(t, swap)
    BY DEF QuotedInv
  <2> DEFINE other == OtherAmount(t, swap)
  <2>2. /\ quoted.trade = t
        /\ (IF t.base_in THEN quoted.out_amount ELSE quoted.in_amount) = other
    <3>1. /\ quoted.trade = t
          /\ quoted.in_amount = IF t.base_in THEN t.amount ELSE other
          /\ quoted.out_amount = IF t.base_in THEN other ELSE t.amount
      BY <2>1, ComputedAmounts
    <3> HIDE DEF other
    <3> QED
      BY <3>1
  <2>3. LET exact == WithSlippage(other, t.bps, ~t.base_in)
        IN  /\ t.bps > 0 \/ other <= Precise =>
                 IF t.base_in THEN quoted.threshold <= other
                 ELSE quoted.threshold >= other
            /\ 4 * other * (One + t.bps) <= Precise =>
                 quoted.threshold - exact \in IF t.base_in THEN -1 .. 0 ELSE 0 .. 1
    BY <2>1, ComputedThreshold
  <2> HIDE DEF other
  <2> QED
    BY <2>2, <2>3 DEF SlippageHonoured
<1> QED
  BY <1>1, QuotedInvariant, PTL

QuoteStatuses ==
    {"none", "ok", "bad_request", "client_error", "pair_not_tradeable", "accounts_error",
     "decode_error", "curve_error", "panic"}
HandlerTypes ==
    /\ stage \in {"idle", "epoch", "pool", "compute", "answered"} \cup DOMAIN NextStage
    /\ asked \subseteq Pools
    /\ partial \in BOOLEAN
    /\ status \in QuoteStatuses
    /\ missing \subseteq Accounts

LEMMA HandlerKeepsTypes ==
    ASSUME HandlerTypes, Handler
    PROVE  HandlerTypes'
<1> USE StageSteps DEF HandlerTypes, Reading, QuoteStatuses, Reply
<1>1. ASSUME NEW pools \in SUBSET Pools, Ask(pools) PROVE HandlerTypes'
  BY <1>1 DEF Ask
<1>2. CASE EpochInfo \/ Done \/ Compute
  BY <1>2 DEF EpochInfo, Done, Compute
<1>3. ASSUME NEW p \in Pools, ReadPool(p) PROVE HandlerTypes'
  BY <1>3 DEF ReadPool
<1>4. ASSUME NEW p \in Pools, ReadAccount(p) PROVE HandlerTypes'
  <2>1. stage \in Reading /\ UNCHANGED <<asked, partial>>
    BY <1>4 DEF ReadAccount
  <2>2. CASE KeyRead(p) \in stored
    BY <1>4, <2>1, <2>2 DEF ReadAccount
  <2>3. CASE KeyRead(p) \notin stored
    <3>1. KeyRead(p) \in Accounts
      BY <2>1, KeysRead DEF Accounts
    <3>2. stage' = "answered" /\ status' = "accounts_error" /\ missing' = {KeyRead(p)}
      BY <1>4, <2>3 DEF ReadAccount
    <3> QED
      BY <2>1, <3>1, <3>2
  <2> QED
    BY <2>2, <2>3
<1>5. {} \in SUBSET Pools /\ \A p \in Pools : {p} \in SUBSET Pools
  OBVIOUS
<1> QED
  BY <1>1, <1>2, <1>3, <1>4, <1>5 DEF Handler

(* What the handler holds has its type; every amount answered is a u64.    *)
THEOREM QuoteTypeCorrect == QuoteSpec => []QuoteTypeOK
<1>1. QuoteInit => HandlerTypes
  BY DEF QuoteInit, HandlerTypes, QuoteStatuses
<1>2. HandlerTypes /\ [QuoteNext]_allVars => HandlerTypes'
  <2>1. ASSUME HandlerTypes, UNCHANGED quoteVars PROVE HandlerTypes'
    BY <2>1 DEF quoteVars, HandlerTypes
  <2> QED
    BY <2>1, HandlerKeepsTypes DEF QuoteNext, allVars
<1>3. QuotedInv /\ HandlerTypes => QuoteTypeOK
  <2> SUFFICES ASSUME QuotedInv, status = "ok"
               PROVE  {quoted.in_amount, quoted.out_amount, quoted.threshold} \subseteq 0 .. U64Max
    BY DEF QuoteTypeOK, HandlerTypes, QuoteStatuses
  <2>1. PICK t \in Trades, swap \in Swaps : Computed(t, swap)
    BY DEF QuotedInv
  <2> DEFINE other == OtherAmount(t, swap)
  <2>2. /\ other \in 0 .. U64Max
        /\ t.amount \in 0 .. U64Max
        /\ quoted.in_amount = IF t.base_in THEN t.amount ELSE other
        /\ quoted.out_amount = IF t.base_in THEN other ELSE t.amount
        /\ quoted.threshold \in 0 .. U64Max
    BY <2>1, ComputedAmounts, ComputedThreshold, TradeTypes
  <2> HIDE DEF other
  <2> QED
    BY <2>2
<1> QED
  BY <1>1, <1>2, <1>3, QuotedInvariant, PTL DEF QuoteSpec
=============================================================================
