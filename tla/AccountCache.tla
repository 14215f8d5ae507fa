---------------------------- MODULE AccountCache ----------------------------
(***************************************************************************)
(* What the store of accounts promises to the code that builds quotes and  *)
(* swaps (the AccountsGetter trait, src/accounts.rs), whichever updater    *)
(* fills it: an account holds some version the chain had, and an account   *)
(* that was stored once is never missing again.  Nothing is promised on    *)
(* freshness, on order (a value may go back to an older version) or on     *)
(* two accounts being of the same moment.                                  *)
(***************************************************************************)
EXTENDS Integers

CONSTANTS Accounts, MaxVersion

VARIABLES
    chain,  \* chain[k]: version of account k on the chain
    store   \* store[k]: version of account k held, or Missing

cacheVars == <<chain, store>>

Missing == -1

Init ==
    /\ chain = [k \in Accounts |-> 0]
    /\ store = [k \in Accounts |-> Missing]

(* The chain changes account k.                                            *)
Advance(k) ==
    /\ chain[k] < MaxVersion
    /\ chain' = [chain EXCEPT ![k] = @ + 1]
    /\ UNCHANGED store

(* Some writer stores a version of account k the chain has or had.         *)
Put(k) ==
    /\ \E v \in 0 .. chain[k] : store' = [store EXCEPT ![k] = v]
    /\ UNCHANGED chain

Next == \E k \in Accounts : Advance(k) \/ Put(k)

Spec == Init /\ [][Next]_cacheVars
=============================================================================
