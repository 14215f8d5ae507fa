---------------------------- MODULE GrpcAccounts ----------------------------
(***************************************************************************)
(* Account store of the gRPC mode (src/accounts/grpc/stream.rs with the    *)
(* MemStore of src/accounts.rs).                                           *)
(*                                                                         *)
(* Three kinds of concurrent actors write or steer the store:              *)
(*   - the accounts service calls add_or_update_account, one call at a     *)
(*     time, with data it fetched earlier over RPC;                        *)
(*   - the updater's main task watches the list of keys and replaces the   *)
(*     running subscription by one for the longer list;                    *)
(*   - the subscription tasks the main task spawns write what their        *)
(*     stream delivers straight into the MemStore.                         *)
(*                                                                         *)
(* An operator named X_Slip, put before X, is X with a plausible slip: it  *)
(* shows what the properties would notice, and is used nowhere.            *)
(*                                                                         *)
(* The data of an account is its version: a natural that the chain only    *)
(* increases.  A stream is abstracted to one cursor per account: the       *)
(* version delivered last.  Updates of one account arrive in order,        *)
(* updates of two accounts in any order, and a fresh subscription starts   *)
(* with no snapshot: it delivers only what changes after it was opened.    *)
(***************************************************************************)
EXTENDS Integers

CONSTANTS
    Accounts,    \* the account keys that exist
    MaxVersion,  \* bound: versions of one account
    MaxTasks     \* bound: subscription tasks spawned (one per key suffices)

ASSUME GrpcAssumption == MaxVersion \in Nat /\ MaxTasks \in Nat \ {0}

VARIABLES
    chain,       \* chain[k]: version of k at commitment Confirmed
    store,       \* MemStore.accounts_map: version held for k, or Missing
    keys,        \* GrpcAccounts.keys
    watched,     \* value of the accounts_notifier watch channel
    unseen,      \* the watch holds a value its receiver has not marked seen
    inflight,    \* the update add_or_update_account has yet to store: at most one
    pc,          \* where the main task awaits
    current,     \* current_task (0: none yet)
    spawned,     \* subscription tasks spawned so far; the newest one's id
    hasStarted,  \* permit stored in the newest task's has_started
    stream,      \* stream[t]: state of task t
    filter,      \* filter[t]: the accounts task t subscribes to
    aborted,     \* aborted[t]: abort() was called on t's handle
    cursor,      \* cursor[t][k]: version of k task t's last stream is at
    writer       \* history: the task whose open stream wrote k last, else 0

chainVars   == <<chain>>
serviceVars == <<keys, watched, inflight>>
mainVars    == <<pc, current, spawned, filter, aborted>>
vars == <<chain, store, keys, watched, unseen, inflight, pc, current, spawned,
          hasStarted, stream, filter, aborted, cursor, writer>>

Missing  == -1
Versions == 0 .. MaxVersion
Tasks    == 1 .. MaxTasks
Update   == [key : Accounts, data : Versions]

(***************************************************************************)
(* What the store and the tasks may hold.                                  *)
(***************************************************************************)
TypeOK ==
    /\ chain \in [Accounts -> Versions]
    /\ store \in [Accounts -> Versions \cup {Missing}]
    /\ keys \subseteq Accounts
    /\ watched \subseteq Accounts
    /\ unseen \in BOOLEAN
    /\ inflight \subseteq Update
    /\ pc \in {"first", "idle", "settling", "starting"}
    /\ current \in 0 .. MaxTasks
    /\ spawned \in 0 .. MaxTasks
    /\ hasStarted \in BOOLEAN
    /\ stream \in [Tasks -> {"unused", "connecting", "streaming", "stopped"}]
    /\ filter \in [Tasks -> SUBSET Accounts]
    /\ aborted \in [Tasks -> BOOLEAN]
    /\ cursor \in [Tasks -> [Accounts -> Versions \cup {Missing}]]
    /\ writer \in [Accounts -> Tasks \cup {0}]

Init ==
    /\ chain = [k \in Accounts |-> 0]
    /\ store = [k \in Accounts |-> Missing]
    /\ keys = {}
    /\ watched = {}
    /\ unseen = FALSE
    /\ inflight = {}
    /\ pc = "first"
    /\ current = 0
    /\ spawned = 0
    /\ hasStarted = FALSE
    /\ stream = [t \in Tasks |-> "unused"]
    /\ filter = [t \in Tasks |-> {}]
    /\ aborted = [t \in Tasks |-> FALSE]
    /\ cursor = [t \in Tasks |-> [k \in Accounts |-> Missing]]
    /\ writer = [k \in Accounts |-> 0]

-----------------------------------------------------------------------------
(***************************************************************************)
(* The chain: some transaction changes account k.                          *)
(***************************************************************************)
ChainUpdate(k) ==
    /\ chain[k] < MaxVersion
    /\ chain' = [chain EXCEPT ![k] = @ + 1]
    /\ UNCHANGED <<store, serviceVars, unseen, mainVars, hasStarted, stream,
                   cursor, writer>>

(***************************************************************************)
(* GrpcAccounts::add_or_update_account.  Only the first update of a key    *)
(* has an effect: the key joins the list, the list is sent to the main     *)
(* task, and then the data is stored.  The data v was read from the chain  *)
(* at some earlier moment.  Other tasks run between the send and the       *)
(* store.                                                                  *)
(***************************************************************************)
UpdatedAccounts_BeforeInsert(k) == keys
UpdatedAccounts(k) == keys \cup {k}

AddKey(k, v) ==
    /\ inflight = {}
    /\ v <= chain[k]
    /\ k \notin keys
    /\ keys' = keys \cup {k}
    /\ watched' = UpdatedAccounts(k)
    /\ unseen' = TRUE
    /\ inflight' = {[key |-> k, data |-> v]}
    /\ UNCHANGED <<chain, store, mainVars, hasStarted, stream, cursor, writer>>

AddKnownKey(k, v) ==
    /\ inflight = {}
    /\ v <= chain[k]
    /\ k \in keys
    /\ UNCHANGED vars

(* MemStore::add_or_update_account: an insert, whoever calls it.           *)
MemStoreAdd_IfAbsent(k, v) ==
    store' = IF store[k] = Missing THEN [store EXCEPT ![k] = v] ELSE store
MemStoreAdd(k, v) == store' = [store EXCEPT ![k] = v]

AddStore ==
    \E u \in inflight :
        /\ MemStoreAdd(u.key, u.data)
        /\ writer' = [writer EXCEPT ![u.key] = 0]
        /\ inflight' = {}
        /\ UNCHANGED <<chain, keys, watched, unseen, mainVars, hasStarted,
                       stream, cursor>>

-----------------------------------------------------------------------------
(***************************************************************************)
(* The updater's main task.                                                *)
(***************************************************************************)
NewNotify_Shared == UNCHANGED hasStarted
NewNotify == hasStarted' = FALSE

Spawn(accounts) ==
    /\ spawned < MaxTasks
    /\ spawned' = spawned + 1
    /\ stream' = [stream EXCEPT ![spawned + 1] = "connecting"]
    /\ filter' = [filter EXCEPT ![spawned + 1] = accounts]
    /\ NewNotify

(* The first list: its task becomes current at once, nobody waits for it.  *)
StartFirst ==
    /\ pc = "first"
    /\ unseen
    /\ unseen' = FALSE
    /\ Spawn(watched)
    /\ current' = spawned + 1
    /\ pc' = "idle"
    /\ UNCHANGED <<chainVars, store, serviceVars, aborted, cursor, writer>>

(* changed() returns and marks the value seen; a delay of a second follows. *)
NoticeChange ==
    /\ pc = "idle"
    /\ unseen
    /\ unseen' = FALSE
    /\ pc' = "settling"
    /\ UNCHANGED <<chainVars, store, serviceVars, current, spawned, filter,
                   aborted, hasStarted, stream, cursor, writer>>

(* The delay is over: borrow_and_update takes the list as it is by now.    *)
SpawnNew ==
    /\ pc = "settling"
    /\ unseen' = FALSE
    /\ Spawn(watched)
    /\ pc' = "starting"
    /\ UNCHANGED <<chainVars, store, serviceVars, current, aborted, cursor,
                   writer>>

(* Dropping a handle would only detach its task.                           *)
Abort_Drop(t) == UNCHANGED aborted
Abort(t) == aborted' = [aborted EXCEPT ![t] = TRUE]

(* has_started was notified in time: the new task replaces the current one. *)
StartConfirmed_MarksSeen ==
    /\ pc = "starting"
    /\ hasStarted
    /\ Abort(current)
    /\ current' = spawned
    /\ hasStarted' = FALSE
    /\ unseen' = FALSE
    /\ pc' = "idle"
    /\ UNCHANGED <<chainVars, store, serviceVars, spawned, filter, stream,
                   cursor, writer>>
StartConfirmed ==
    /\ pc = "starting"
    /\ hasStarted
    /\ Abort(current)
    /\ current' = spawned
    /\ hasStarted' = FALSE
    /\ pc' = "idle"
    /\ UNCHANGED <<chainVars, store, serviceVars, unseen, spawned, filter,
                   stream, cursor, writer>>

(* Sixty seconds without a message: the new task is given up, and with it  *)
(* the longer list, until another key is added.                            *)
StartTimeout ==
    /\ pc = "starting"
    /\ ~hasStarted
    /\ Abort(spawned)
    /\ pc' = "idle"
    /\ UNCHANGED <<chainVars, store, serviceVars, unseen, current, spawned,
                   filter, hasStarted, stream, cursor, writer>>

-----------------------------------------------------------------------------
(***************************************************************************)
(* Subscription task t (grpc_accounts_updater_task_inner).  A task whose   *)
(* handle was aborted stops where it next yields: until then it goes on as *)
(* if nothing had happened.                                                *)
(***************************************************************************)
Subscribe(t) ==
    /\ stream[t] = "connecting"
    /\ filter[t] # {}
    /\ stream' = [stream EXCEPT ![t] = "streaming"]
    /\ cursor' = [cursor EXCEPT ![t] = chain]
    /\ UNCHANGED <<chainVars, store, serviceVars, unseen, mainVars, hasStarted,
                   writer>>

(* create_grpc_connection or subscribe_once fails: `?' ends the task.      *)
ConnectFail(t) ==
    /\ stream[t] = "connecting"
    /\ stream' = [stream EXCEPT ![t] = "stopped"]
    /\ UNCHANGED <<chainVars, store, serviceVars, unseen, mainVars, hasStarted,
                   cursor, writer>>

(* A message with an update of account k.                                  *)
Pending_OffByOne(t, k) == cursor[t][k] <= chain[k]
Pending(t, k) == cursor[t][k] < chain[k]

Deliver(t, k) ==
    /\ stream[t] = "streaming"
    /\ k \in filter[t]
    /\ Pending(t, k)
    /\ cursor' = [cursor EXCEPT ![t][k] = @ + 1]
    /\ MemStoreAdd(k, cursor[t][k] + 1)
    /\ writer' = [writer EXCEPT ![k] = t]
    /\ hasStarted' = (hasStarted \/ t = spawned)
    /\ UNCHANGED <<chainVars, serviceVars, unseen, mainVars, stream>>

(* Any other message also counts as a sign that the stream has started.    *)
Ping(t) ==
    /\ stream[t] = "streaming"
    /\ hasStarted' = (hasStarted \/ t = spawned)
    /\ UNCHANGED <<chainVars, store, serviceVars, unseen, mainVars, stream,
                   cursor, writer>>

NoLongerWriter(t) == [k \in Accounts |-> IF writer[k] = t THEN 0 ELSE writer[k]]

(* The stream ends or fails: what it had not delivered is lost, and the    *)
(* loop connects again.                                                    *)
Disconnect(t) ==
    /\ stream[t] = "streaming"
    /\ stream' = [stream EXCEPT ![t] = "connecting"]
    /\ writer' = NoLongerWriter(t)
    /\ UNCHANGED <<chainVars, store, serviceVars, unseen, mainVars, hasStarted,
                   cursor>>

AbortLands(t) ==
    /\ aborted[t]
    /\ stream[t] \in {"connecting", "streaming"}
    /\ stream' = [stream EXCEPT ![t] = "stopped"]
    /\ writer' = NoLongerWriter(t)
    /\ UNCHANGED <<chainVars, store, serviceVars, unseen, mainVars, hasStarted,
                   cursor>>

-----------------------------------------------------------------------------
MainTask == StartFirst \/ NoticeChange \/ SpawnNew \/ StartConfirmed \/ StartTimeout

Next ==
    \/ \E k \in Accounts : ChainUpdate(k)
    \/ \E k \in Accounts, v \in Versions : AddKey(k, v) \/ AddKnownKey(k, v)
    \/ AddStore
    \/ StartFirst
    \/ NoticeChange
    \/ SpawnNew
    \/ StartConfirmed
    \/ StartTimeout
    \/ \E t \in Tasks :
        \/ Subscribe(t)
        \/ ConnectFail(t)
        \/ \E k \in Accounts : Deliver(t, k)
        \/ Ping(t)
        \/ Disconnect(t)
        \/ AbortLands(t)

Spec == Init /\ [][Next]_vars

(***************************************************************************)
(* The tokio runtime runs every ready task, the timers fire, and an open   *)
(* stream delivers; connections may fail or break whenever they like, and  *)
(* nothing forces the chain to change or the service to add keys.          *)
(***************************************************************************)
Fairness ==
    /\ WF_vars(AddStore)
    /\ WF_vars(MainTask)
    /\ \A t \in Tasks :
        /\ SF_vars(Subscribe(t))
        /\ WF_vars(AbortLands(t))
        /\ \A k \in Accounts : WF_vars(Deliver(t, k))

FairSpec == Spec /\ Fairness

-----------------------------------------------------------------------------
(***************************************************************************)
(* Properties.                                                             *)
(***************************************************************************)

(* A subscription that could write the store is owned: it is the main      *)
(* task's current_task, the candidate has_started is awaited for, or its   *)
(* handle was aborted.  Every way out of the 60 s wait keeps one of the    *)
(* two handles and aborts the other one.                                   *)
NoLeakedSubscription ==
    \A t \in Tasks :
        stream[t] \in {"connecting", "streaming"} /\ ~aborted[t] =>
            \/ t = current
            \/ pc = "starting" /\ t = spawned

(* No key is forgotten between watch::send and borrow_and_update: when the *)
(* main task waits in changed() and nothing wakes it, the newest task it   *)
(* spawned subscribes to every key, whenever the keys were added.          *)
NoLostNotification ==
    pc = "idle" /\ ~unseen => filter[spawned] = keys

(* While the stream that wrote an account last is open, the store holds    *)
(* exactly what this stream delivered last: the value moves backwards only *)
(* when the writer changes, that is in a handover between two streams, by  *)
(* the late first write of add_or_update_account or after a reconnect.     *)
StoreFollowsWriter ==
    \A k \in Accounts : writer[k] # 0 =>
        /\ stream[writer[k]] = "streaming"
        /\ k \in filter[writer[k]]
        /\ store[k] = cursor[writer[k]][k]

Opened(t) == \A k \in Accounts : cursor[t][k] # Missing

Served(k) ==
    /\ current # 0
    /\ k \in filter[current]
    /\ stream[current] = "streaming"
    /\ ~aborted[current]

(* The stream of the current task, once open, has ended.                   *)
Broken == current # 0 /\ stream[current] # "streaming" /\ Opened(current)

(* Replacing the current task never costs a served account its updates by  *)
(* itself: an account streamed by the current task is streamed by the      *)
(* current task after any step, unless the stream of the task that is      *)
(* current now, once open, has broken.                                     *)
KeepsServing == \A k \in Accounts : Served(k) => Served(k)' \/ Broken'

ServedKeysSurvive == [][KeepsServing]_vars

(* A key that was added comes to be streamed by the current task, unless   *)
(* the code has lost it in one of the two ways nothing makes up for: the   *)
(* connection of the current task failed, and nobody watches that task; or *)
(* a candidate was given up after 60 s, and with it the longer list, which *)
(* is sent again only with the next new key.  A first task nobody waited   *)
(* for serves the key too, or its connection failed.                       *)
AddedKeyServed ==
    \A k \in Accounts :
        k \in keys ~>
            \/ Served(k)
            \/ current # 0 /\ k \in filter[current] /\ stream[current] = "stopped"
            \/ \E t \in Tasks : t > current /\ aborted[t] /\ k \in filter[t]

(* Once the last write of an account comes from a stream that stays open,  *)
(* the store keeps coming back to the state of the chain.                  *)
StreamedAccountConverges ==
    \A t \in Tasks, k \in Accounts :
        <>[](writer[k] = t) => []<>(store[k] = chain[k])

(* The store is a cache of the chain in the sense of AccountCache.         *)
Cache == INSTANCE AccountCache
ImplementsCache == Cache!Spec

(* What the comment in the stream loop says: "disconnected. retry the main *)
(* loop and connect again" (stream.rs:236).  A task that lost its stream   *)
(* streams again, unless its handle was aborted.                           *)
Reconnects ==
    \A t \in Tasks :
        stream[t] = "connecting" /\ Opened(t) ~>
            stream[t] = "streaming" \/ aborted[t]
=============================================================================
