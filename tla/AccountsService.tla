-------------------------- MODULE AccountsService ---------------------------
(***************************************************************************)
(* How pools get into the store: the task that reports pools               *)
(* (grpc_amm_pools_task or rpc_amm_pools_task), the bounded channel it     *)
(* sends them through, and the accounts service, which lists all pools     *)
(* once at startup and then handles what the channel brings                *)
(* (src/accounts/service.rs, src/accounts/grpc/stream.rs,                  *)
(* src/accounts/rpc/stream.rs, src/accounts/rpc.rs).                       *)
(*                                                                         *)
(* Only the presence of an account in the store matters here: how its      *)
(* value follows the chain is the matter of GrpcAccounts and RpcAccounts.  *)
(* A pool needs two mints and an observation account.  The mints exist     *)
(* long before; the observation account is created with the pool.          *)
(*                                                                         *)
(* RPC requests may be answered by nodes that lag behind each other (the   *)
(* code sets no min_context_slot): a pool that is not settled, and its     *)
(* observation account, are null for some requests and there for others.   *)
(*                                                                         *)
(* An operator named X_Slip, put before X, is X with a plausible slip: it  *)
(* shows what the properties would notice, and is used nowhere.            *)
(***************************************************************************)
EXTENDS Naturals, Sequences

CONSTANTS
    Pools,          \* the pools of the AMM config
    Mints,          \* Mints[p]: the two mints of pool p
    Config,         \* the account of the AMM config
    ConfigSettled,  \* whether every RPC node has the config account
    ChannelSize     \* capacity of the mpsc channel (1000 in the code)

Observation(p) == <<"observation", p>>

(* PoolSlice::decode and get_keys_for_pool_exclusive.                      *)
KeysForPool(p) == Mints[p] \cup {Observation(p)}

Accounts == Pools \cup {Config} \cup UNION {KeysForPool(p) : p \in Pools}

(* No address is that of two kinds of account at once.                     *)
ASSUME ServiceAssumption ==
    /\ ChannelSize \in Nat \ {0}
    /\ ConfigSettled \in BOOLEAN
    /\ Config \notin Pools
    /\ \A p \in Pools : KeysForPool(p) \cap (Pools \cup {Config}) = {}

VARIABLES
    mode,       \* "grpc" or "rpc": which task reports pools
    onChain,    \* the pools that exist
    settled,    \* the pools every RPC node has
    reporter,   \* where the task that reports pools is
    buffer,     \* changed pools the open gRPC stream has yet to deliver
    sending,    \* pools the reporter is about to send
    channel,    \* the mpsc channel
    phase,      \* where the service is in its life
    todo,       \* bootstrap: pools fetched and not yet handled
    step,       \* where process_amm_pool is
    cur,        \* the pool it handles: at most one
    left,       \* accounts it has yet to store
    processed,  \* processed_pools
    stored,     \* the accounts in the store
    nulls,      \* history: the accounts answered by null
    missed      \* history, gRPC: pools whose last report came to nothing

chainVars    == <<onChain, settled>>
reporterVars == <<reporter, buffer, sending>>
processVars  == <<step, cur, left, processed, stored, nulls>>
serviceVars  == <<phase, todo, processVars>>
vars == <<mode, chainVars, reporterVars, channel, serviceVars, missed>>

(***************************************************************************)
(* What the variables may hold.  The channel never holds more than its     *)
(* capacity.                                                               *)
(***************************************************************************)
TypeOK ==
    /\ mode \in {"grpc", "rpc"}
    /\ onChain \subseteq Pools
    /\ settled \subseteq onChain
    /\ reporter \in {"connect", "stream", "send", "pause", "tick", "poll", "dead"}
    /\ buffer \subseteq onChain
    /\ sending \subseteq onChain
    /\ channel \in Seq(Pools)
    /\ Len(channel) <= ChannelSize
    /\ phase \in {"list", "fetch", "bootstrap", "serve", "failed", "ended"}
    /\ todo \subseteq onChain
    /\ step \in {"idle", "rpc", "pool", "keys"}
    /\ cur \subseteq Pools
    /\ left \subseteq Accounts
    /\ processed \subseteq Pools
    /\ stored \subseteq Accounts
    /\ nulls \subseteq Accounts
    /\ missed \subseteq Pools

Init ==
    /\ mode \in {"grpc", "rpc"}
    /\ onChain \in SUBSET Pools
    /\ settled = onChain
    /\ reporter = IF mode = "grpc" THEN "connect" ELSE "tick"
    /\ buffer = {}
    /\ sending = {}
    /\ channel = <<>>
    /\ phase = "list"
    /\ todo = {}
    /\ step = "idle"
    /\ cur = {}
    /\ left = {}
    /\ processed = {}
    /\ stored = {}
    /\ nulls = {}
    /\ missed = {}

Running == phase # "failed"

(* A report of pool p comes to nothing: in gRPC mode nobody asks again.    *)
Miss(p) == missed' = IF mode = "grpc" THEN missed \cup {p} ELSE missed

-----------------------------------------------------------------------------
(***************************************************************************)
(* The chain.                                                              *)
(***************************************************************************)
StreamOpen == mode = "grpc" /\ reporter \in {"stream", "send"}

(* Pool p is created or changed (by a swap, say).                          *)
PoolChanges(p) ==
    /\ onChain' = onChain \cup {p}
    /\ IF StreamOpen
         THEN buffer' = buffer \cup {p} /\ missed' = missed \ {p}
         ELSE buffer' = buffer /\ Miss(p)
    /\ UNCHANGED <<mode, settled, reporter, sending, channel, serviceVars>>

NodesCatchUp ==
    /\ settled # onChain
    /\ settled' = onChain
    /\ UNCHANGED <<mode, onChain, reporterVars, channel, serviceVars, missed>>

-----------------------------------------------------------------------------
(***************************************************************************)
(* grpc_amm_pools_task.                                                    *)
(***************************************************************************)
StreamOpens ==
    /\ Running
    /\ reporter = "connect"
    /\ reporter' = "stream"
    /\ UNCHANGED <<mode, chainVars, buffer, sending, channel, serviceVars, missed>>

(* The `?' on the connection or the unwrap of the subscription ends the    *)
(* task, and with it the sending end of the channel.                       *)
ConnectFails ==
    /\ Running
    /\ reporter = "connect"
    /\ reporter' = "dead"
    /\ UNCHANGED <<mode, chainVars, buffer, sending, channel, serviceVars, missed>>

StreamDelivers(p) ==
    /\ Running
    /\ reporter = "stream"
    /\ p \in buffer
    /\ buffer' = buffer \ {p}
    /\ sending' = {p}
    /\ reporter' = "send"
    /\ UNCHANGED <<mode, chainVars, channel, serviceVars, missed>>

(* The stream ends or fails; what it had not delivered is lost.            *)
StreamBreaks ==
    /\ Running
    /\ reporter = "stream"
    /\ buffer' = {}
    /\ missed' = missed \cup buffer
    /\ reporter' = "pause"
    /\ UNCHANGED <<mode, chainVars, sending, channel, serviceVars>>

PauseEnds ==
    /\ Running
    /\ reporter = "pause"
    /\ reporter' = "connect"
    /\ UNCHANGED <<mode, chainVars, buffer, sending, channel, serviceVars, missed>>

(***************************************************************************)
(* rpc_amm_pools_task: list the pools, fetch them, send those that are     *)
(* there; a request that fails is made up for by the next tick.            *)
(***************************************************************************)
PollTick ==
    /\ Running
    /\ reporter = "tick"
    /\ reporter' = "poll"
    /\ UNCHANGED <<mode, chainVars, buffer, sending, channel, serviceVars, missed>>

Polled(pools) == settled \subseteq pools /\ pools \subseteq onChain

PollAnswers ==
    /\ Running
    /\ reporter = "poll"
    /\ \E pools \in SUBSET onChain : Polled(pools) /\ sending' = pools
    /\ reporter' = IF sending' = {} THEN "tick" ELSE "send"
    /\ UNCHANGED <<mode, chainVars, buffer, channel, serviceVars, missed>>

PollFails ==
    /\ Running
    /\ reporter = "poll"
    /\ reporter' = "tick"
    /\ UNCHANGED <<mode, chainVars, buffer, sending, channel, serviceVars, missed>>

(* Both tasks wait for room in the channel.                                *)
HasRoom_OffByOne == Len(channel) <= ChannelSize
HasRoom == Len(channel) < ChannelSize

Send(p) ==
    /\ Running
    /\ reporter = "send"
    /\ p \in sending
    /\ HasRoom
    /\ channel' = Append(channel, p)
    /\ sending' = sending \ {p}
    /\ reporter' = IF sending' # {} THEN "send"
                   ELSE IF mode = "grpc" THEN "stream" ELSE "tick"
    /\ UNCHANGED <<mode, chainVars, buffer, serviceVars, missed>>

-----------------------------------------------------------------------------
(***************************************************************************)
(* process_amm_pool, for the bootstrap and for the channel alike.          *)
(***************************************************************************)
IsProcessed_Never(p) == FALSE
IsProcessed(p) == p \in processed

(* PoolSlice::decode does not fail: both reporters only bring accounts     *)
(* with the discriminator of a pool, which are long enough.                *)
StartPool(p) ==
    IF IsProcessed(p)
      THEN UNCHANGED <<step, cur>>
      ELSE step' = "rpc" /\ cur' = {p}

(* The accounts of the pool are fetched: the pool counts as processed from *)
(* here on, whether its observation account was there or null.             *)
KeysAnswered(p) ==
    /\ step = "rpc"
    /\ p \in cur
    /\ \E null \in SUBSET (IF p \in settled THEN {} ELSE {Observation(p)}) :
        /\ left' = KeysForPool(p) \ null
        /\ nulls' = nulls \cup null
    /\ processed' = processed \cup {p}
    /\ step' = "pool"
    /\ UNCHANGED <<mode, chainVars, reporterVars, channel, phase, todo, cur,
                   stored, missed>>

(* The request fails: the pool is dropped, until it is reported again.     *)
KeysFail_Processed(p) ==
    /\ step = "rpc"
    /\ p \in cur
    /\ processed' = processed \cup {p}
    /\ step' = "idle"
    /\ cur' = {}
    /\ Miss(p)
    /\ UNCHANGED <<mode, chainVars, reporterVars, channel, phase, todo, left,
                   stored, nulls>>
KeysFail(p) ==
    /\ step = "rpc"
    /\ p \in cur
    /\ step' = "idle"
    /\ cur' = {}
    /\ Miss(p)
    /\ UNCHANGED <<mode, chainVars, reporterVars, channel, phase, todo, left,
                   processed, stored, nulls>>

StorePool(p) ==
    /\ step = "pool"
    /\ p \in cur
    /\ stored' = stored \cup {p}
    /\ missed' = missed \ {p}
    /\ step' = "keys"
    /\ UNCHANGED <<mode, chainVars, reporterVars, channel, phase, todo, cur,
                   left, processed, nulls>>

StoreKey(k) ==
    /\ step = "keys"
    /\ k \in left
    /\ stored' = stored \cup {k}
    /\ left' = left \ {k}
    /\ UNCHANGED <<mode, chainVars, reporterVars, channel, phase, todo, step,
                   cur, processed, nulls, missed>>

EndPool ==
    /\ step = "keys"
    /\ left = {}
    /\ step' = "idle"
    /\ cur' = {}
    /\ UNCHANGED <<mode, chainVars, reporterVars, channel, phase, todo, left,
                   processed, stored, nulls, missed>>

-----------------------------------------------------------------------------
(***************************************************************************)
(* bootstrap_accounts_service and the task it leaves behind.               *)
(***************************************************************************)
ListPools ==
    /\ phase = "list"
    /\ \E pools \in SUBSET onChain : Polled(pools) /\ todo' = pools
    /\ phase' = "fetch"
    /\ UNCHANGED <<mode, chainVars, reporterVars, channel, processVars, missed>>

(* The pools are fetched together with the config, which is popped off the *)
(* answers and stored first.  Null pools are skipped; a null config is     *)
(* logged, and nothing asks for it again.                                  *)
FetchPools ==
    /\ phase = "fetch"
    /\ \E there \in SUBSET todo :
        /\ todo \cap settled \subseteq there
        /\ todo' = there
        /\ missed' = IF mode = "grpc" THEN missed \cup (todo \ there) ELSE missed
    /\ \/ stored' = stored \cup {Config} /\ UNCHANGED nulls
       \/ ~ConfigSettled /\ nulls' = nulls \cup {Config} /\ UNCHANGED stored
    /\ phase' = "bootstrap"
    /\ UNCHANGED <<mode, chainVars, reporterVars, channel, step, cur, left,
                   processed>>

(* `?' on either request: main returns the error and the process exits.    *)
BootstrapFails ==
    /\ phase \in {"list", "fetch"}
    /\ phase' = "failed"
    /\ UNCHANGED <<mode, chainVars, reporterVars, channel, todo, processVars, missed>>

BootstrapPool(p) ==
    /\ phase = "bootstrap"
    /\ step = "idle"
    /\ p \in todo
    /\ todo' = todo \ {p}
    /\ StartPool(p)
    /\ UNCHANGED <<mode, chainVars, reporterVars, channel, phase, left, processed,
                   stored, nulls, missed>>

BootstrapEnds ==
    /\ phase = "bootstrap"
    /\ step = "idle"
    /\ todo = {}
    /\ phase' = "serve"
    /\ UNCHANGED <<mode, chainVars, reporterVars, channel, todo, processVars, missed>>

Receive_NoAwait ==
    /\ phase = "serve"
    /\ channel # <<>>
    /\ StartPool(Head(channel))
    /\ channel' = Tail(channel)
    /\ UNCHANGED <<mode, chainVars, reporterVars, phase, todo, left, processed,
                   stored, nulls, missed>>
Receive ==
    /\ phase = "serve"
    /\ step = "idle"
    /\ channel # <<>>
    /\ StartPool(Head(channel))
    /\ channel' = Tail(channel)
    /\ UNCHANGED <<mode, chainVars, reporterVars, phase, todo, left, processed,
                   stored, nulls, missed>>

(* The channel is drained and its sender gone: the service task is over.   *)
ChannelClosed ==
    /\ phase = "serve"
    /\ step = "idle"
    /\ channel = <<>>
    /\ reporter = "dead"
    /\ phase' = "ended"
    /\ UNCHANGED <<mode, chainVars, reporterVars, channel, todo, processVars, missed>>

-----------------------------------------------------------------------------
Next ==
    \/ \E p \in Pools :
        \/ PoolChanges(p)
        \/ StreamDelivers(p)
        \/ Send(p)
        \/ KeysAnswered(p)
        \/ KeysFail(p)
        \/ StorePool(p)
        \/ BootstrapPool(p)
    \/ NodesCatchUp
    \/ StreamOpens
    \/ ConnectFails
    \/ StreamBreaks
    \/ PauseEnds
    \/ PollTick
    \/ PollAnswers
    \/ PollFails
    \/ \E k \in Accounts : StoreKey(k)
    \/ EndPool
    \/ ListPools
    \/ FetchPools
    \/ BootstrapFails
    \/ BootstrapEnds
    \/ Receive
    \/ ChannelClosed

Spec == Init /\ [][Next]_vars

(***************************************************************************)
(* Tasks that can run do, requests are answered sooner or later and not    *)
(* all of them by an error, an open stream delivers.  Connections may fail *)
(* or break at any time, and nothing makes a pool change again.            *)
(***************************************************************************)
Fairness ==
    /\ WF_vars(NodesCatchUp)
    /\ WF_vars(StreamOpens \/ ConnectFails)
    /\ WF_vars(PauseEnds)
    /\ WF_vars(PollTick)
    /\ SF_vars(PollAnswers)
    /\ WF_vars(ListPools \/ FetchPools \/ BootstrapFails)
    /\ WF_vars(\E p \in Pools : BootstrapPool(p) \/ StorePool(p))
    /\ WF_vars(\E k \in Accounts : StoreKey(k))
    /\ WF_vars(EndPool \/ BootstrapEnds \/ Receive)
    /\ WF_vars(\E p \in Pools : Send(p))
    /\ \A p \in Pools :
        /\ SF_vars(StreamDelivers(p))
        /\ SF_vars(KeysAnswered(p))

FairSpec == Spec /\ Fairness

-----------------------------------------------------------------------------
(***************************************************************************)
(* Properties.                                                             *)
(***************************************************************************)

(* A pool in the store can be quoted: the accounts it needs are there too. *)
(* The exceptions are the pool the service is storing right now, and an    *)
(* observation account that was null when it was fetched.                  *)
StoredPoolsComplete ==
    \A p \in Pools \cap stored :
        KeysForPool(p) \subseteq
            stored \cup nulls \cup (IF p \in cur THEN left ELSE {})

(* A pool is marked processed only if it is stored (or about to be): a     *)
(* pool that was dropped can still be taken up by a later report.          *)
ProcessedPoolsStored ==
    \A p \in processed : p \in stored \/ (step = "pool" /\ p \in cur)

(* What the service is about to store.                                     *)
ToStore == (IF step \in {"rpc", "pool"} THEN cur ELSE {}) \cup left

(* A pool is reported by the bootstrap, by every poll and by every change, *)
(* and yet the service overwrites an account that is in the store, and may *)
(* be newer there, only where another pool that was processed has the same *)
(* account: a mint they share is fetched and stored again with each of     *)
(* them (service.rs:103-126), the pool itself and its observation never.   *)
RewritesSharedOnly ==
    \A k \in ToStore \cap stored :
        \E p \in processed \ cur : k \in KeysForPool(p)

(* Every pool that exists gets into the store.  It may not if the server   *)
(* does not come up, if the gRPC task has died, or if its last report came *)
(* to nothing: the stream was not open, broke, or the request failed.  In  *)
(* RPC mode no report is ever lost for good.                               *)
PoolsGetStored ==
    \A p \in Pools :
        p \in onChain ~>
            p \in stored \/ p \in missed \/ reporter = "dead" \/ phase = "failed"

(* "this should be unreachable" (service.rs:117): no account of a pool is  *)
(* ever answered by null.                                                  *)
NullUnreachable == nulls \subseteq {Config}
=============================================================================
