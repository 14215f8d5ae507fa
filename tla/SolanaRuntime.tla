--------------------------- MODULE SolanaRuntime ----------------------------
(***************************************************************************)
(* What the cluster does with the instructions of a swap transaction: the  *)
(* system, token and associated-token programs on the three token accounts *)
(* a swap touches, and the gamma program as an exchange with a bound.  Not *)
(* code of the repository: modelled as src/gfx_swap/swap.rs relies on it.  *)
(*                                                                         *)
(* A ledger is [wallet, tokens, unsynced]: the user's lamports, what each  *)
(* token account holds (Absent: it does not exist), and the lamports sent  *)
(* to the input account that sync_native has not counted yet.              *)
(***************************************************************************)
EXTENDS Integers, Sequences, FiniteSets, SequencesExt

CONSTANTS
    Rent,       \* lamports a token account holds while it exists
    CreateCost, \* compute units of creating one, next to 1 of a simple instruction
    SwapUnits   \* compute units a swap may take: it depends on the pool

ASSUME RuntimeAssumption ==
    /\ Rent \in Nat
    /\ CreateCost \in Nat \ {0}
    /\ SwapUnits \subseteq Nat

Absent == -1

(* Ledgers between transactions: every lamport sent has been counted.      *)
Ledger == [wallet   : Nat,
           tokens   : [input       : Nat \cup {Absent},
                       output      : Nat \cup {Absent},
                       destination : Nat \cup {Absent}],
           unsynced : {0}]

Budget(op, arg) == [op |-> op, arg |-> arg]          \* "limit", "price"
CreateAta(a)    == [op |-> "create", account |-> a]  \* idempotent
Transfer(n)     == [op |-> "transfer", amount |-> n] \* wallet to input account
SyncNative      == [op |-> "sync"]
Tip(n)          == [op |-> "tip", amount |-> n]
CloseAccount(a) == [op |-> "close", account |-> a]   \* a native-SOL account

IsBudget(ix) == ix.op \in {"limit", "price"}

(* What the instruction asks for, before any effect.  A market is          *)
(* [draws, gives, units]: what a swap takes, gives and consumes in it.     *)
Accepted(ix, ledger, market) ==
    CASE ix.op = "create" ->
            ledger.tokens[ix.account] = Absent => ledger.wallet >= Rent
      [] ix.op = "transfer" ->
            ledger.wallet >= ix.amount
      [] ix.op = "tip" ->
            ledger.wallet >= ix.amount
      [] ix.op = "sync" ->
            ledger.tokens["input"] # Absent
      [] ix.op = "close" ->
            ledger.tokens[ix.account] # Absent
      [] ix.op = "swap" ->
            /\ ledger.tokens["input"] >= market.draws
            /\ ledger.tokens[ix.target] # Absent
            /\ IF ix.base_in THEN market.gives >= ix.bound ELSE market.draws <= ix.bound
      [] OTHER -> TRUE

Effect(ix, ledger, market) ==
    CASE ix.op = "create" /\ ledger.tokens[ix.account] = Absent ->
            [ledger EXCEPT !.wallet = @ - Rent, !.tokens[ix.account] = 0]
      [] ix.op = "transfer" ->
            [ledger EXCEPT !.wallet = @ - ix.amount, !.unsynced = @ + ix.amount]
      [] ix.op = "tip" ->
            [ledger EXCEPT !.wallet = @ - ix.amount]
      [] ix.op = "sync" ->
            [ledger EXCEPT !.tokens["input"] = @ + ledger.unsynced, !.unsynced = 0]
      [] ix.op = "close" ->
            [ledger EXCEPT !.wallet = @ + ledger.tokens[ix.account] + Rent
                                        + (IF ix.account = "input" THEN ledger.unsynced ELSE 0),
                           !.tokens[ix.account] = Absent,
                           !.unsynced = IF ix.account = "input" THEN 0 ELSE @]
      [] ix.op = "swap" ->
            [ledger EXCEPT !.tokens["input"] = @ - market.draws,
                           !.tokens[ix.target] = @ + market.gives]
      [] OTHER -> ledger

(* How many ticks a swap crosses and which accounts the program has to     *)
(* update is up to the pool, and so is what it consumes.                   *)
Cost(ix, ledger, market) ==
    CASE ix.op = "swap" -> market.units
      [] ix.op = "create" /\ ledger.tokens[ix.account] = Absent -> CreateCost
      [] OTHER -> 1

(* Run the instructions in order; the first one refused ends the run, with *)
(* the units consumed up to and including it.                              *)
Start(ledger) == [ok |-> TRUE, units |-> 0, ledger |-> ledger]

Step(run, ix, market) ==
    IF ~run.ok THEN run
    ELSE [ok     |-> Accepted(ix, run.ledger, market),
          units  |-> run.units + Cost(ix, run.ledger, market),
          ledger |-> IF Accepted(ix, run.ledger, market)
                       THEN Effect(ix, run.ledger, market)
                       ELSE run.ledger]

RunFrom(run, instructions, market) ==
    FoldLeft(LAMBDA before, ix : Step(before, ix, market), run, instructions)

Execute(instructions, ledger, market) == RunFrom(Start(ledger), instructions, market)

NonBudget(instructions) ==
    Cardinality({i \in DOMAIN instructions : ~IsBudget(instructions[i])})
=============================================================================
