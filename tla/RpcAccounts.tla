---------------------------- MODULE RpcAccounts -----------------------------
(***************************************************************************)
(* Account store of the RPC polling mode (src/accounts/rpc/stream.rs and   *)
(* src/accounts/rpc.rs with the MemStore of src/accounts.rs).              *)
(*                                                                         *)
(* Two actors write the store: the accounts service, through               *)
(* add_or_update_account and with data it fetched earlier, and the         *)
(* updater task, which over and over lists the keys, fetches all of them   *)
(* in chunks and writes the answers one by one.                            *)
(*                                                                         *)
(* The data of an account is its version, as in GrpcAccounts.  A chunk is  *)
(* one getMultipleAccounts request.  The chunks are answered at different  *)
(* moments, and by nodes that lag behind each other, as the requests carry *)
(* no min_context_slot: an answer may be any version between that of the   *)
(* node furthest behind and the newest.                                    *)
(*                                                                         *)
(* An operator named X_Slip, put before X, is X with a plausible slip: it  *)
(* shows what the properties would notice, and is used nowhere.            *)
(***************************************************************************)
EXTENDS Integers, FiniteSets

CONSTANTS
    Accounts,    \* the account keys that exist
    MaxVersion,  \* bound: versions of one account
    ChunkSize    \* accounts per request (100 in the code)

ASSUME RpcAssumption ==
    /\ IsFiniteSet(Accounts)
    /\ MaxVersion \in Nat
    /\ ChunkSize \in Nat \ {0}

VARIABLES
    chain,     \* chain[k]: version of k at commitment Confirmed
    floor,     \* floor[k]: version the node furthest behind has, or Missing
    closed,    \* the accounts that were closed
    store,     \* MemStore.accounts_map: version held for k, or Missing
    keys,      \* RpcAccounts.keys
    inflight,  \* the update add_or_update_account has yet to store: at most one
    pc,        \* where the updater task is
    batch,     \* keys_to_refresh
    answer,    \* answer[k]: version fetched, Missing for null, or Unread
    unwritten, \* the accounts of the batch the loop has yet to handle
    before,    \* history: floor when the keys of this cycle were listed
    late       \* history: stored by the service since then

chainVars   == <<chain, floor, closed>>
serviceVars == <<keys, inflight>>
cycleVars   == <<batch, answer, unwritten>>
vars == <<chain, floor, closed, store, keys, inflight, pc, batch, answer, unwritten,
          before, late>>

Missing  == -1
Unread   == -2
Versions == 0 .. MaxVersion
Update   == [key : Accounts, data : Versions]

(***************************************************************************)
(* What the store and the updater may hold.                                *)
(***************************************************************************)
TypeOK ==
    /\ chain \in [Accounts -> Versions]
    /\ floor \in [Accounts -> Versions \cup {Missing}]
    /\ closed \subseteq Accounts
    /\ store \in [Accounts -> Versions \cup {Missing}]
    /\ keys \subseteq Accounts
    /\ inflight \subseteq Update
    /\ pc \in {"list", "listing", "fetch", "write", "tick", "ended"}
    /\ batch \subseteq Accounts
    /\ answer \in [Accounts -> Versions \cup {Missing, Unread}]
    /\ unwritten \subseteq Accounts
    /\ before \in [Accounts -> Versions \cup {Missing}]
    /\ late \subseteq Accounts

Init ==
    /\ chain = [k \in Accounts |-> 0]
    /\ floor = [k \in Accounts |-> Missing]
    /\ closed = {}
    /\ store = [k \in Accounts |-> Missing]
    /\ keys = {}
    /\ inflight = {}
    /\ pc = "list"
    /\ batch = {}
    /\ answer = [k \in Accounts |-> Unread]
    /\ unwritten = {}
    /\ before = floor
    /\ late = {}

-----------------------------------------------------------------------------
(***************************************************************************)
(* The chain: an account changes or is closed.  The nodes follow it.       *)
(***************************************************************************)
ChainUpdate(k) ==
    /\ chain[k] < MaxVersion
    /\ k \notin closed
    /\ chain' = [chain EXCEPT ![k] = @ + 1]
    /\ UNCHANGED <<floor, closed, store, serviceVars, pc, cycleVars, before, late>>

CloseAccount(k) ==
    /\ k \notin closed
    /\ closed' = closed \cup {k}
    /\ UNCHANGED <<chain, floor, store, serviceVars, pc, cycleVars, before, late>>

NodesCatchUp(k) ==
    /\ floor[k] < chain[k]
    /\ floor' = [floor EXCEPT ![k] = @ + 1]
    /\ UNCHANGED <<chain, closed, store, serviceVars, pc, cycleVars, before, late>>

(***************************************************************************)
(* RpcAccounts::add_or_update_account, called for one account after the    *)
(* other: the key is inserted first (a no-op when it is known), then the   *)
(* data, a version some node had at some earlier moment, is stored.        *)
(***************************************************************************)
MemStoreAdd_IfAbsent(k, v) ==
    store' = IF store[k] = Missing THEN [store EXCEPT ![k] = v] ELSE store
MemStoreAdd(k, v) == store' = [store EXCEPT ![k] = v]

AddKey(k, v) ==
    /\ inflight = {}
    /\ v <= chain[k]
    /\ keys' = keys \cup {k}
    /\ inflight' = {[key |-> k, data |-> v]}
    /\ UNCHANGED <<chainVars, store, pc, cycleVars, before, late>>

AddStore ==
    \E u \in inflight :
        /\ MemStoreAdd(u.key, u.data)
        /\ late' = late \cup {u.key}
        /\ inflight' = {}
        /\ UNCHANGED <<chainVars, keys, pc, cycleVars, before>>

-----------------------------------------------------------------------------
(***************************************************************************)
(* The updater task.  What a cycle holds is dropped with it.  Iterating    *)
(* the key set is not atomic: a key inserted meanwhile may be seen or      *)
(* missed, independently of other new keys.                                *)
(***************************************************************************)
NoAnswers_Kept == answer
NoAnswers == [k \in Accounts |-> Unread]

DropCycle ==
    /\ batch' = {}
    /\ answer' = NoAnswers
    /\ unwritten' = {}
    /\ before' = [k \in Accounts |-> Missing]
    /\ late' = {}

StartListing ==
    /\ pc = "list"
    /\ batch' = keys
    /\ before' = floor
    /\ late' = {}
    /\ pc' = "listing"
    /\ UNCHANGED <<chainVars, store, serviceVars, answer, unwritten>>

ToWrite_AllKeys(listed) == keys
ToWrite(listed) == listed

FinishListing ==
    /\ pc = "listing"
    /\ \E seen \in SUBSET (keys \ batch) :
        /\ batch' = batch \cup seen
        /\ unwritten' = ToWrite(batch \cup seen)
    /\ pc' = "fetch"
    /\ UNCHANGED <<chainVars, store, serviceVars, answer, before, late>>

Pending == {k \in batch : answer[k] = Unread}

(* What the node that is asked may say of k: a version no older than that  *)
(* of the node furthest behind, null (Missing, one below the versions) if  *)
(* it has not seen the account yet, or that it was closed.                 *)
Answers(k) ==
    (floor[k] .. chain[k]) \cup (IF k \in closed THEN {Missing} ELSE {})

(* A node answers one of the requests in flight.                           *)
FetchChunk ==
    /\ pc = "fetch"
    /\ \E chunk \in SUBSET Pending :
        /\ chunk # {}
        /\ \/ Cardinality(chunk) = ChunkSize
           \/ chunk = Pending /\ Cardinality(chunk) < ChunkSize
        /\ \E said \in [chunk -> Versions \cup {Missing}] :
            /\ \A k \in chunk : said[k] \in Answers(k)
            /\ answer' = [k \in Accounts |->
                             IF k \in chunk THEN said[k] ELSE answer[k]]
    /\ UNCHANGED <<chainVars, store, serviceVars, pc, batch, unwritten, before,
                   late>>

FetchDone ==
    /\ pc = "fetch"
    /\ Pending = {}
    /\ pc' = "write"
    /\ UNCHANGED <<chainVars, store, serviceVars, cycleVars, before, late>>

(* One request fails: `?' drops what the others returned and ends the task *)
(* (an empty batch makes no request).                                      *)
FetchFail ==
    /\ pc = "fetch"
    /\ Pending # {}
    /\ pc' = "ended"
    /\ DropCycle
    /\ UNCHANGED <<chainVars, store, serviceVars>>

(* One turn of the loop over the answers: null is skipped.                 *)
IsNull_Never(k) == FALSE
IsNull(k) == answer[k] = Missing

WriteOne(k) ==
    /\ pc = "write"
    /\ k \in unwritten
    /\ unwritten' = unwritten \ {k}
    /\ IF IsNull(k)
         THEN UNCHANGED store
         ELSE MemStoreAdd(k, answer[k])
    /\ UNCHANGED <<chainVars, serviceVars, pc, batch, answer, before, late>>

WriteDone ==
    /\ pc = "write"
    /\ unwritten = {}
    /\ pc' = "tick"
    /\ UNCHANGED <<chainVars, store, serviceVars, cycleVars, before, late>>

Tick ==
    /\ pc = "tick"
    /\ pc' = "list"
    /\ DropCycle
    /\ UNCHANGED <<chainVars, store, serviceVars>>

-----------------------------------------------------------------------------
Next ==
    \/ \E k \in Accounts : ChainUpdate(k) \/ CloseAccount(k) \/ NodesCatchUp(k)
    \/ \E k \in Accounts, v \in Versions : AddKey(k, v)
    \/ AddStore
    \/ StartListing
    \/ FinishListing
    \/ FetchChunk
    \/ FetchDone
    \/ FetchFail
    \/ \E k \in Accounts : WriteOne(k)
    \/ WriteDone
    \/ Tick

Spec == Init /\ [][Next]_vars

(***************************************************************************)
(* The runtime runs the ready tasks, a request is answered or fails, the   *)
(* interval ticks, the nodes follow the chain.  Nothing forces the chain   *)
(* or the service to move.                                                 *)
(***************************************************************************)
Fairness ==
    /\ \A k \in Accounts : WF_vars(NodesCatchUp(k))
    /\ WF_vars(AddStore)
    /\ WF_vars(StartListing)
    /\ WF_vars(FinishListing)
    /\ WF_vars(FetchChunk \/ FetchFail)
    /\ WF_vars(FetchDone)
    /\ WF_vars(\E k \in Accounts : WriteOne(k))
    /\ WF_vars(WriteDone)
    /\ WF_vars(Tick)

FairSpec == Spec /\ Fairness

-----------------------------------------------------------------------------
(***************************************************************************)
(* Properties.                                                             *)
(***************************************************************************)

(* A cycle that is complete leaves no account of its batch older than what *)
(* every node had when the keys were listed, whatever was inserted,        *)
(* changed or answered meanwhile.  Only the service can undo it, with data *)
(* it fetched before.  (Not more: no request carries min_context_slot, so  *)
(* a full cycle may leave an account older than the chain was.)            *)
CycleRefreshes ==
    pc = "tick" => \A k \in batch \ (closed \cup late) : store[k] >= before[k]

(* Two can move an account back: the service, with what it fetched before  *)
(* (AddStore), and the updater, with what a node that lags has answered;   *)
(* but the updater not behind what every node had when the keys were       *)
(* listed, however long the requests took: nothing of an earlier cycle is  *)
(* ever written.                                                           *)
SetBackWithinLag ==
    \A k \in Accounts :
        store'[k] < store[k] => inflight' # inflight \/ store'[k] >= before[k]
NeverSetBackFurther == [][SetBackWithinLag]_vars

(* As long as requests succeed, every key that is listed is brought to the *)
(* state of the chain again and again, until its account is closed: a lag  *)
(* of the nodes delays that, but no key is left out for good.              *)
ListedAccountsConverge ==
    \A k \in Accounts :
        []<>(k \notin keys \/ k \in closed \/ pc = "ended" \/ store[k] = chain[k])

(* The store is a cache of the chain in the sense of AccountCache.         *)
Cache == INSTANCE AccountCache
ImplementsCache == Cache!Spec

(* "rpc-polling mode", with a refresh frequency (README.md:8): the         *)
(* accounts are polled as long as the server runs.                         *)
KeepsPolling ==
    \A k \in Accounts :
        []<>(k \notin keys \/ k \in closed \/ store[k] = chain[k])
=============================================================================
