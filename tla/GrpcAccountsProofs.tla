------------------------- MODULE GrpcAccountsProofs -------------------------
(***************************************************************************)
(* Proofs about GrpcAccounts, for any set of accounts and any bounds.      *)
(***************************************************************************)
EXTENDS GrpcAccounts, TLAPS

USE DEF UpdatedAccounts, MemStoreAdd, NewNotify, Abort, Pending

-----------------------------------------------------------------------------
(***************************************************************************)
(* Type correctness.                                                       *)
(***************************************************************************)
LEMMA InitTypeOK == Init => TypeOK
<1> SUFFICES ASSUME Init PROVE TypeOK
  OBVIOUS
<1> USE GrpcAssumption DEF Init, Versions, Tasks, Missing
<1>1. /\ chain \in [Accounts -> Versions]
      /\ store \in [Accounts -> Versions \cup {Missing}]
      /\ cursor \in [Tasks -> [Accounts -> Versions \cup {Missing}]]
  OBVIOUS
<1>2. /\ filter \in [Tasks -> SUBSET Accounts]
      /\ aborted \in [Tasks -> BOOLEAN]
      /\ writer \in [Accounts -> Tasks \cup {0}]
  OBVIOUS
<1>3. stream \in [Tasks -> {"unused", "connecting", "streaming", "stopped"}]
  OBVIOUS
<1>4. current \in 0 .. MaxTasks /\ spawned \in 0 .. MaxTasks
  OBVIOUS
<1> QED
  BY <1>1, <1>2, <1>3, <1>4, Zenon DEF TypeOK

LEMMA NextTypeOK == TypeOK /\ [Next]_vars => TypeOK'
<1> SUFFICES ASSUME TypeOK, [Next]_vars PROVE TypeOK'
  OBVIOUS
<1> USE GrpcAssumption DEF TypeOK, Versions, Tasks, Missing
<1>1. ASSUME NEW k \in Accounts, ChainUpdate(k) PROVE TypeOK'
  BY <1>1 DEF ChainUpdate, serviceVars, mainVars
<1>2. ASSUME NEW k \in Accounts, NEW v \in Versions, AddKey(k, v) PROVE TypeOK'
  BY <1>2 DEF AddKey, mainVars, Update
<1>3. CASE AddStore
  BY <1>3 DEF AddStore, mainVars, Update
<1>4. CASE StartFirst
  <2>1. Spawn(watched) /\ spawned \in 0 .. MaxTasks - 1
    BY <1>4 DEF StartFirst, Spawn
  <2>2. /\ stream' \in [Tasks -> {"unused", "connecting", "streaming", "stopped"}]
        /\ filter' \in [Tasks -> SUBSET Accounts]
        /\ spawned' \in 0 .. MaxTasks
    BY <2>1 DEF Spawn
  <2> QED
    BY <1>4, <2>1, <2>2 DEF StartFirst, Spawn, chainVars, serviceVars
<1>5. CASE NoticeChange
  BY <1>5 DEF NoticeChange, chainVars, serviceVars
<1>6. CASE SpawnNew
  <2>1. Spawn(watched) /\ spawned \in 0 .. MaxTasks - 1
    BY <1>6 DEF SpawnNew, Spawn
  <2>2. /\ stream' \in [Tasks -> {"unused", "connecting", "streaming", "stopped"}]
        /\ filter' \in [Tasks -> SUBSET Accounts]
        /\ spawned' \in 0 .. MaxTasks
    BY <2>1 DEF Spawn
  <2> QED
    BY <1>6, <2>1, <2>2 DEF SpawnNew, Spawn, chainVars, serviceVars
<1>7. CASE StartConfirmed
  BY <1>7 DEF StartConfirmed, chainVars, serviceVars
<1>8. CASE StartTimeout
  BY <1>8 DEF StartTimeout, chainVars, serviceVars
<1>9. ASSUME NEW t \in Tasks, Subscribe(t) PROVE TypeOK'
  BY <1>9 DEF Subscribe, chainVars, serviceVars, mainVars
<1>10. ASSUME NEW t \in Tasks, ConnectFail(t) PROVE TypeOK'
  BY <1>10 DEF ConnectFail, chainVars, serviceVars, mainVars
<1>11. ASSUME NEW t \in Tasks, NEW k \in Accounts, Deliver(t, k) PROVE TypeOK'
  <2>1. cursor[t] \in [Accounts -> Versions \cup {Missing}]
    OBVIOUS
  <2>2. cursor[t][k] + 1 \in Versions
    <3>1. /\ cursor[t][k] \in Versions \cup {Missing}
          /\ chain[k] \in Versions
      BY <2>1
    <3>2. cursor[t][k] < chain[k]
      BY <1>11 DEF Deliver
    <3> QED
      BY <3>1, <3>2
  <2>3. cursor' \in [Tasks -> [Accounts -> Versions \cup {Missing}]]
    BY <1>11, <2>1, <2>2 DEF Deliver
  <2>4. /\ store' \in [Accounts -> Versions \cup {Missing}]
        /\ writer' \in [Accounts -> Tasks \cup {0}]
    BY <1>11, <2>2 DEF Deliver
  <2>5. hasStarted' \in BOOLEAN
    BY <1>11 DEF Deliver
  <2>6. UNCHANGED <<chain, keys, watched, inflight, unseen, pc, current, spawned,
                    filter, aborted, stream>>
    BY <1>11 DEF Deliver, chainVars, serviceVars, mainVars
  <2> QED
    BY <2>3, <2>4, <2>5, <2>6
<1>12. ASSUME NEW t \in Tasks, Ping(t) PROVE TypeOK'
  BY <1>12 DEF Ping, chainVars, serviceVars, mainVars
<1>13. ASSUME NEW t \in Tasks, Disconnect(t) PROVE TypeOK'
  BY <1>13 DEF Disconnect, NoLongerWriter, chainVars, serviceVars, mainVars
<1>14. ASSUME NEW t \in Tasks, AbortLands(t) PROVE TypeOK'
  BY <1>14 DEF AbortLands, NoLongerWriter, chainVars, serviceVars, mainVars
<1>15. CASE UNCHANGED vars
  BY <1>15 DEF vars
<1> QED
  BY <1>1, <1>2, <1>3, <1>4, <1>5, <1>6, <1>7, <1>8, <1>9, <1>10, <1>11,
     <1>12, <1>13, <1>14, <1>15 DEF Next, AddKnownKey

(* Every variable keeps its type, whatever the streams deliver or break.   *)
THEOREM TypeCorrect == Spec => []TypeOK
  BY InitTypeOK, NextTypeOK, PTL DEF Spec

-----------------------------------------------------------------------------
(***************************************************************************)
(* The inductive invariant.                                                *)
(***************************************************************************)

(* The watch channel carries the list of keys as it is.                    *)
KeysSent == watched = keys

(* The main task runs one subscription, the newest or an older one, from   *)
(* the moment it got its first list; a candidate is newer than the         *)
(* current task.                                                           *)
MainTaskInv ==
    /\ pc = "first" => current = 0 /\ spawned = 0
    /\ pc # "first" => current >= 1 /\ current <= spawned
    /\ pc = "starting" => current < spawned

(* Neither the current task nor a candidate was aborted.                   *)
HandlesInv ==
    /\ \A t \in Tasks : t > spawned => ~aborted[t]
    /\ current # 0 => ~aborted[current]
    /\ pc = "starting" => ~aborted[spawned]

(* Every task spawned later subscribes to more.                            *)
FiltersGrow ==
    /\ \A t \in Tasks : filter[t] \subseteq keys
    /\ \A t \in Tasks : t <= spawned => filter[t] \subseteq filter[spawned]
    /\ pc \in {"idle", "starting"} /\ ~unseen => filter[spawned] = keys

(* Only spawned tasks run, an open stream has a cursor, and the permit of  *)
(* has_started was left by a stream of the newest task.                    *)
StreamsInv ==
    /\ \A t \in Tasks : t > spawned => stream[t] = "unused"
    /\ \A t \in Tasks : stream[t] = "streaming" => Opened(t)
    /\ hasStarted => spawned # 0 /\ Opened(spawned)

(* Nothing that is stored, delivered or under way is newer than the chain. *)
NotFromTheFuture ==
    /\ \A t \in Tasks, k \in Accounts : cursor[t][k] <= chain[k]
    /\ \A u \in inflight : u.data <= chain[u.key]

Inv ==
    /\ TypeOK
    /\ KeysSent
    /\ MainTaskInv
    /\ HandlesInv
    /\ FiltersGrow
    /\ StreamsInv
    /\ NotFromTheFuture
    /\ NoLeakedSubscription
    /\ StoreFollowsWriter

LEMMA InitInv == Init => Inv
<1> SUFFICES ASSUME Init PROVE Inv
  OBVIOUS
<1>1. TypeOK
  BY InitTypeOK
<1>2. KeysSent /\ MainTaskInv /\ HandlesInv /\ NoLeakedSubscription
  BY DEF Init, KeysSent, MainTaskInv, HandlesInv, NoLeakedSubscription
<1>3. FiltersGrow
  BY DEF Init, FiltersGrow
<1>4. StreamsInv
  BY DEF Init, StreamsInv
<1>5. NotFromTheFuture
  BY DEF Init, NotFromTheFuture, Missing
<1>6. StoreFollowsWriter
  BY DEF Init, StoreFollowsWriter
<1> QED
  BY <1>1, <1>2, <1>3, <1>4, <1>5, <1>6 DEF Inv

(* The steps of the streams and of the chain leave the service and the     *)
(* main task alone.                                                        *)
LEMMA StreamSteps ==
  ASSUME \/ \E k \in Accounts : ChainUpdate(k)
         \/ AddStore
         \/ \E t \in Tasks : \/ Subscribe(t) \/ ConnectFail(t)
                             \/ \E k \in Accounts : Deliver(t, k)
                             \/ Ping(t) \/ Disconnect(t) \/ AbortLands(t)
         \/ UNCHANGED vars
  PROVE  UNCHANGED <<keys, watched, unseen, mainVars>>
<1>1. CASE \E k \in Accounts : ChainUpdate(k)
  BY <1>1 DEF ChainUpdate, serviceVars
<1>2. CASE AddStore
  BY <1>2 DEF AddStore
<1>3. ASSUME NEW t \in Tasks, Subscribe(t) \/ ConnectFail(t) \/ Ping(t)
      PROVE  UNCHANGED <<keys, watched, unseen, mainVars>>
  BY <1>3 DEF Subscribe, ConnectFail, Ping, serviceVars
<1>4. ASSUME NEW t \in Tasks, \E k \in Accounts : Deliver(t, k)
      PROVE  UNCHANGED <<keys, watched, unseen, mainVars>>
  BY <1>4 DEF Deliver, serviceVars
<1>5. ASSUME NEW t \in Tasks, Disconnect(t) \/ AbortLands(t)
      PROVE  UNCHANGED <<keys, watched, unseen, mainVars>>
  BY <1>5 DEF Disconnect, AbortLands, serviceVars
<1>6. CASE UNCHANGED vars
  BY <1>6 DEF vars, mainVars
<1> QED
  BY <1>1, <1>2, <1>3, <1>4, <1>5, <1>6

LEMMA NextMainTask ==
  TypeOK /\ KeysSent /\ MainTaskInv /\ [Next]_vars => KeysSent' /\ MainTaskInv'
<1> SUFFICES ASSUME TypeOK, KeysSent, MainTaskInv, [Next]_vars
             PROVE  KeysSent' /\ MainTaskInv'
  OBVIOUS
<1> USE DEF KeysSent, MainTaskInv
<1>1. ASSUME NEW k \in Accounts, NEW v \in Versions, AddKey(k, v)
      PROVE  KeysSent' /\ MainTaskInv'
  BY <1>1 DEF AddKey, mainVars
<1>2. CASE StartFirst
  BY <1>2 DEF StartFirst, Spawn, serviceVars, TypeOK
<1>3. CASE NoticeChange
  BY <1>3 DEF NoticeChange, serviceVars
<1>4. CASE SpawnNew
  BY <1>4 DEF SpawnNew, Spawn, serviceVars, TypeOK
<1>5. CASE StartConfirmed
  BY <1>5 DEF StartConfirmed, serviceVars, TypeOK
<1>6. CASE StartTimeout
  BY <1>6 DEF StartTimeout, serviceVars
<1>7. CASE UNCHANGED <<keys, watched, unseen, mainVars>>
  BY <1>7 DEF mainVars
<1> QED
  BY <1>1, <1>2, <1>3, <1>4, <1>5, <1>6, <1>7, StreamSteps
     DEF Next, AddKnownKey

LEMMA NextHandlesInv ==
  TypeOK /\ MainTaskInv /\ HandlesInv /\ [Next]_vars => HandlesInv'
<1> SUFFICES ASSUME TypeOK, MainTaskInv, HandlesInv, [Next]_vars
             PROVE  HandlesInv'
  OBVIOUS
<1> USE GrpcAssumption DEF HandlesInv, MainTaskInv, TypeOK, Tasks
<1>1. ASSUME NEW k \in Accounts, NEW v \in Versions, AddKey(k, v)
      PROVE  HandlesInv'
  BY <1>1 DEF AddKey, mainVars
<1>2. CASE StartFirst
  BY <1>2 DEF StartFirst, Spawn
<1>3. CASE NoticeChange
  BY <1>3 DEF NoticeChange
<1>4. CASE SpawnNew
  BY <1>4 DEF SpawnNew, Spawn
<1>5. CASE StartConfirmed
  BY <1>5 DEF StartConfirmed
<1>6. CASE StartTimeout
  BY <1>6 DEF StartTimeout
<1>7. CASE UNCHANGED <<keys, watched, unseen, mainVars>>
  BY <1>7 DEF mainVars
<1> QED
  BY <1>1, <1>2, <1>3, <1>4, <1>5, <1>6, <1>7, StreamSteps
     DEF Next, AddKnownKey

LEMMA NextFiltersGrow ==
  TypeOK /\ KeysSent /\ MainTaskInv /\ FiltersGrow /\ [Next]_vars => FiltersGrow'
<1> SUFFICES ASSUME TypeOK, KeysSent, MainTaskInv, FiltersGrow, [Next]_vars
             PROVE  FiltersGrow'
  OBVIOUS
<1> USE DEF FiltersGrow
<1>1. ASSUME NEW k \in Accounts, NEW v \in Versions, AddKey(k, v)
      PROVE  FiltersGrow'
  BY <1>1 DEF AddKey, mainVars
<1>2. ASSUME Spawn(watched), UNCHANGED keys PROVE FiltersGrow'
  <2>1. /\ spawned + 1 \in Tasks
        /\ spawned' = spawned + 1
        /\ filter' = [filter EXCEPT ![spawned + 1] = keys]
    BY <1>2, GrpcAssumption DEF Spawn, KeysSent, Tasks, TypeOK
  <2>2. filter'[spawned'] = keys
    BY <2>1 DEF TypeOK
  <2>3. ASSUME NEW t \in Tasks PROVE filter'[t] \subseteq keys
    <3>1. filter[t] \subseteq keys
      OBVIOUS
    <3> QED
      BY <2>1, <3>1 DEF TypeOK
  <2>4. keys' = keys
    BY <1>2
  <2> QED
    BY <2>2, <2>3, <2>4, Zenon
<1>3. CASE StartFirst
  BY <1>2, <1>3 DEF StartFirst, serviceVars
<1>4. CASE NoticeChange
  BY <1>4 DEF NoticeChange, serviceVars
<1>5. CASE SpawnNew
  BY <1>2, <1>5 DEF SpawnNew, serviceVars
<1>6. CASE StartConfirmed
  BY <1>6 DEF StartConfirmed, serviceVars
<1>7. CASE StartTimeout
  BY <1>7 DEF StartTimeout, serviceVars
<1>8. CASE UNCHANGED <<keys, watched, unseen, mainVars>>
  BY <1>8 DEF mainVars
<1> QED
  BY <1>1, <1>3, <1>4, <1>5, <1>6, <1>7, <1>8, StreamSteps DEF Next, AddKnownKey

LEMMA NextStreamsInv ==
  TypeOK /\ MainTaskInv /\ StreamsInv /\ [Next]_vars => StreamsInv'
<1> SUFFICES ASSUME TypeOK, MainTaskInv, StreamsInv, [Next]_vars
             PROVE  StreamsInv'
  OBVIOUS
<1> USE GrpcAssumption DEF StreamsInv, Opened, Tasks
<1>1. ASSUME UNCHANGED <<spawned, stream, cursor>>, hasStarted' => hasStarted
      PROVE  StreamsInv'
  BY <1>1 DEF TypeOK
<1>2. ASSUME NEW k \in Accounts, ChainUpdate(k) PROVE StreamsInv'
  BY <1>1, <1>2 DEF ChainUpdate, mainVars
<1>3. ASSUME NEW k \in Accounts, NEW v \in Versions, AddKey(k, v)
      PROVE  StreamsInv'
  BY <1>1, <1>3 DEF AddKey, mainVars
<1>4. CASE AddStore
  BY <1>1, <1>4 DEF AddStore, mainVars
<1>5. ASSUME Spawn(watched), UNCHANGED cursor PROVE StreamsInv'
  <2>1. /\ spawned + 1 \in Tasks
        /\ spawned' = spawned + 1
        /\ stream' = [stream EXCEPT ![spawned + 1] = "connecting"]
        /\ ~hasStarted'
    BY <1>5 DEF Spawn, TypeOK
  <2>2. ASSUME NEW t \in Tasks
        PROVE  /\ t > spawned' => stream'[t] = "unused"
               /\ stream'[t] = "streaming" => stream[t] = "streaming"
    BY <2>1 DEF TypeOK
  <2> QED
    BY <1>5, <2>1, <2>2
<1>6. CASE StartFirst
  BY <1>5, <1>6 DEF StartFirst
<1>7. CASE NoticeChange
  BY <1>1, <1>7 DEF NoticeChange
<1>8. CASE SpawnNew
  BY <1>5, <1>8 DEF SpawnNew
<1>9. CASE StartConfirmed
  BY <1>1, <1>9 DEF StartConfirmed
<1>10. CASE StartTimeout
  BY <1>1, <1>10 DEF StartTimeout
<1>11. ASSUME NEW t \in Tasks, Subscribe(t) PROVE StreamsInv'
  <2>1. /\ stream' = [stream EXCEPT ![t] = "streaming"]
        /\ cursor' = [cursor EXCEPT ![t] = chain]
        /\ UNCHANGED <<spawned, hasStarted>>
        /\ stream[t] = "connecting"
    BY <1>11 DEF Subscribe, mainVars
  <2>2. \A k \in Accounts : chain[k] # Missing
    BY DEF TypeOK, Versions, Missing
  <2>3. \A k \in Accounts : cursor'[t][k] = chain[k]
    BY <2>1 DEF TypeOK
  <2>4. ASSUME NEW s \in Tasks, s # t
        PROVE  stream'[s] = stream[s] /\ cursor'[s] = cursor[s]
    BY <2>1, <2>4 DEF TypeOK
  <2>5. Opened(t)'
    BY <2>2, <2>3
  <2>6. ASSUME NEW s \in Tasks, Opened(s) PROVE Opened(s)'
    BY <2>4, <2>5, <2>6
  <2>7. \A s \in Tasks : stream'[s] = "streaming" => Opened(s)'
    BY <2>4, <2>5, <2>6
  <2>8. \A s \in Tasks : s > spawned' => stream'[s] = "unused"
    BY <2>1, <2>4
  <2>9. hasStarted' => spawned' # 0 /\ Opened(spawned)'
    BY <2>1, <2>6 DEF TypeOK
  <2> QED
    BY <2>7, <2>8, <2>9
<1>12. ASSUME NEW t \in Tasks,
              stream[t] # "unused", 
              \E s \in {"connecting", "stopped"} : stream' = [stream EXCEPT ![t] = s],
              UNCHANGED <<spawned, hasStarted, cursor>>
       PROVE  StreamsInv'
  BY <1>12 DEF TypeOK
<1>13. ASSUME NEW t \in Tasks, ConnectFail(t) PROVE StreamsInv'
  BY <1>12, <1>13 DEF ConnectFail, mainVars
<1>14. ASSUME NEW t \in Tasks, NEW k \in Accounts, Deliver(t, k) PROVE StreamsInv'
  <2>1. /\ stream[t] = "streaming"
        /\ cursor' = [cursor EXCEPT ![t][k] = @ + 1]
        /\ hasStarted' = (hasStarted \/ t = spawned)
        /\ UNCHANGED <<spawned, stream>>
    BY <1>14 DEF Deliver, mainVars
  <2>2. ASSUME NEW s \in Tasks, Opened(s) PROVE Opened(s)'
    <3>1. ASSUME NEW j \in Accounts PROVE cursor'[s][j] # Missing
      <4>1. cursor[s][j] \in Versions \cup {Missing} /\ cursor[s][j] # Missing
        BY <2>2 DEF TypeOK
      <4>2. cursor'[s][j] \in {cursor[s][j], cursor[s][j] + 1}
        BY <2>1 DEF TypeOK
      <4> QED
        BY <4>1, <4>2 DEF Versions, Missing
    <3> QED
      BY <3>1
  <2>3. Opened(t)
    BY <2>1
  <2> QED
    BY <2>1, <2>2, <2>3 DEF TypeOK
<1>15. ASSUME NEW t \in Tasks, Ping(t) PROVE StreamsInv'
  BY <1>15 DEF Ping, mainVars, TypeOK
<1>16. ASSUME NEW t \in Tasks, Disconnect(t) \/ AbortLands(t) PROVE StreamsInv'
  BY <1>12, <1>16 DEF Disconnect, AbortLands, mainVars
<1>17. CASE UNCHANGED vars
  BY <1>1, <1>17 DEF vars
<1> QED
  BY <1>2, <1>3, <1>4, <1>6, <1>7, <1>8, <1>9, <1>10, <1>11, <1>13, <1>14,
     <1>15, <1>16, <1>17 DEF Next, AddKnownKey

LEMMA NextNotFromTheFuture ==
  TypeOK /\ NotFromTheFuture /\ [Next]_vars => NotFromTheFuture'
<1> SUFFICES ASSUME TypeOK, NotFromTheFuture, [Next]_vars
             PROVE  NotFromTheFuture'
  OBVIOUS
<1> USE DEF NotFromTheFuture
<1>1. ASSUME UNCHANGED <<chain, cursor>>, inflight' \subseteq inflight
      PROVE  NotFromTheFuture'
  BY <1>1
<1>2. ASSUME NEW k \in Accounts, ChainUpdate(k) PROVE NotFromTheFuture'
  <2>1. \A j \in Accounts : chain[j] \in Int /\ chain'[j] >= chain[j]
    BY <1>2 DEF ChainUpdate, TypeOK, Versions
  <2>2. \A t \in Tasks, j \in Accounts : cursor[t][j] \in Int
    BY DEF TypeOK, Versions, Missing
  <2>3. \A u \in inflight : u.key \in Accounts /\ u.data \in Int
    BY DEF TypeOK, Update, Versions
  <2>4. UNCHANGED <<cursor, inflight>>
    BY <1>2 DEF ChainUpdate, serviceVars
  <2>5. chain' \in [Accounts -> Int]
    BY <1>2 DEF ChainUpdate, TypeOK, Versions
  <2> QED
    BY <2>1, <2>2, <2>3, <2>4, <2>5
<1>3. ASSUME NEW k \in Accounts, NEW v \in Versions, AddKey(k, v)
      PROVE  NotFromTheFuture'
  BY <1>3 DEF AddKey
<1>4. CASE AddStore
  BY <1>1, <1>4 DEF AddStore
<1>5. CASE MainTask
  BY <1>1, <1>5 DEF MainTask, StartFirst, NoticeChange, SpawnNew, StartConfirmed,
     StartTimeout, chainVars, serviceVars
<1>6. ASSUME NEW t \in Tasks, Subscribe(t) PROVE NotFromTheFuture'
  <2>1. /\ cursor' = [cursor EXCEPT ![t] = chain]
        /\ UNCHANGED <<chain, inflight>>
    BY <1>6 DEF Subscribe, chainVars, serviceVars
  <2>2. ASSUME NEW s \in Tasks, NEW j \in Accounts PROVE cursor'[s][j] <= chain[j]
    <3>1. chain[j] \in Int
      BY DEF TypeOK, Versions
    <3>2. cursor'[s][j] = IF s = t THEN chain[j] ELSE cursor[s][j]
      BY <2>1 DEF TypeOK
    <3> QED
      BY <3>1, <3>2
  <2> QED
    BY <2>1, <2>2
<1>7. ASSUME NEW t \in Tasks, NEW k \in Accounts, Deliver(t, k)
      PROVE  NotFromTheFuture'
  <2>1. /\ cursor[t][k] < chain[k]
        /\ cursor' = [cursor EXCEPT ![t][k] = @ + 1]
        /\ UNCHANGED <<chain, inflight>>
    BY <1>7 DEF Deliver, chainVars, serviceVars
  <2>2. ASSUME NEW s \in Tasks, NEW j \in Accounts PROVE cursor'[s][j] <= chain[j]
    <3>1. chain[j] \in Int /\ cursor[s][j] \in Int
      BY DEF TypeOK, Versions, Missing
    <3>2. cursor'[s][j] = IF s = t /\ j = k THEN cursor[s][j] + 1 ELSE cursor[s][j]
      BY <2>1 DEF TypeOK
    <3> QED
      BY <2>1, <3>1, <3>2
  <2> QED
    BY <2>1, <2>2
<1>8. ASSUME NEW t \in Tasks,
             ConnectFail(t) \/ Ping(t) \/ Disconnect(t) \/ AbortLands(t)
      PROVE  NotFromTheFuture'
  BY <1>1, <1>8 DEF ConnectFail, Ping, Disconnect, AbortLands, chainVars, serviceVars
<1>9. CASE UNCHANGED vars
  BY <1>1, <1>9 DEF vars
<1> QED
  BY <1>2, <1>3, <1>4, <1>5, <1>6, <1>7, <1>8, <1>9 DEF Next, MainTask, AddKnownKey

LEMMA NextNoLeakedSubscription ==
  TypeOK /\ MainTaskInv /\ NoLeakedSubscription /\ [Next]_vars
    => NoLeakedSubscription'
<1> SUFFICES ASSUME TypeOK, MainTaskInv, NoLeakedSubscription, [Next]_vars
             PROVE  NoLeakedSubscription'
  OBVIOUS
<1> USE GrpcAssumption DEF NoLeakedSubscription, Tasks
<1> DEFINE Running(t) == stream[t] \in {"connecting", "streaming"}
<1>1. ASSUME UNCHANGED <<pc, current, spawned, aborted>>,
             \A t \in Tasks : Running(t)' => Running(t)
      PROVE  NoLeakedSubscription'
  BY <1>1
<1>2. ASSUME Spawn(watched), UNCHANGED aborted,
             \/ pc' = "starting" /\ current' = current /\ pc # "starting"
             \/ current' = spawned' /\ current = 0 /\ pc # "starting"
      PROVE  NoLeakedSubscription'
  <2>1. /\ spawned' = spawned + 1
        /\ stream' = [stream EXCEPT ![spawned + 1] = "connecting"]
    BY <1>2 DEF Spawn
  <2>2. \A t \in Tasks : t # spawned' => stream'[t] = stream[t]
    BY <2>1 DEF TypeOK
  <2> QED
    BY <1>2, <2>1, <2>2
<1>3. CASE StartFirst
  BY <1>2, <1>3 DEF StartFirst, Spawn, MainTaskInv
<1>4. CASE NoticeChange
  BY <1>4 DEF NoticeChange
<1>5. CASE SpawnNew
  BY <1>2, <1>5 DEF SpawnNew
<1>6. CASE StartConfirmed
  BY <1>6 DEF StartConfirmed, MainTaskInv, TypeOK
<1>7. CASE StartTimeout
  BY <1>7 DEF StartTimeout, MainTaskInv, TypeOK
<1>8. ASSUME NEW k \in Accounts, ChainUpdate(k) PROVE NoLeakedSubscription'
  BY <1>1, <1>8 DEF ChainUpdate, mainVars
<1>9. ASSUME NEW k \in Accounts, NEW v \in Versions, AddKey(k, v)
      PROVE  NoLeakedSubscription'
  BY <1>1, <1>9 DEF AddKey, mainVars
<1>10. CASE AddStore
  BY <1>1, <1>10 DEF AddStore, mainVars
<1>11. ASSUME NEW t \in Tasks,
              \/ Subscribe(t) \/ ConnectFail(t) \/ Ping(t) \/ Disconnect(t)
              \/ AbortLands(t)
       PROVE  NoLeakedSubscription'
  BY <1>1, <1>11 DEF Subscribe, ConnectFail, Ping, Disconnect, AbortLands,
     mainVars, TypeOK
<1>12. ASSUME NEW t \in Tasks, NEW k \in Accounts, Deliver(t, k)
       PROVE  NoLeakedSubscription'
  BY <1>1, <1>12 DEF Deliver, mainVars
<1>13. CASE UNCHANGED vars
  BY <1>1, <1>13 DEF vars
<1> QED
  BY <1>3, <1>4, <1>5, <1>6, <1>7, <1>8, <1>9, <1>10, <1>11, <1>12, <1>13
     DEF Next, AddKnownKey

LEMMA NextStoreFollowsWriter ==
  TypeOK /\ MainTaskInv /\ StreamsInv /\ StoreFollowsWriter /\ [Next]_vars
    => StoreFollowsWriter'
<1> SUFFICES ASSUME TypeOK, MainTaskInv, StreamsInv, StoreFollowsWriter, [Next]_vars
             PROVE  StoreFollowsWriter'
  OBVIOUS
<1> USE DEF StoreFollowsWriter
<1>0. \A k \in Accounts : writer[k] # 0 => writer[k] \in Tasks
  BY DEF TypeOK
<1>1. ASSUME UNCHANGED <<writer, stream, filter, store, cursor>>
      PROVE  StoreFollowsWriter'
  BY <1>1
<1>2. ASSUME NEW k \in Accounts, ChainUpdate(k) PROVE StoreFollowsWriter'
  BY <1>1, <1>2 DEF ChainUpdate, mainVars
<1>3. ASSUME NEW k \in Accounts, NEW v \in Versions, AddKey(k, v)
      PROVE  StoreFollowsWriter'
  BY <1>1, <1>3 DEF AddKey, mainVars
<1>4. CASE AddStore
  <2>1. PICK u \in inflight : /\ store' = [store EXCEPT ![u.key] = u.data]
                              /\ writer' = [writer EXCEPT ![u.key] = 0]
                              /\ UNCHANGED <<stream, filter, cursor>>
    BY <1>4 DEF AddStore, mainVars
  <2>2. \A k \in Accounts : writer'[k] # 0 =>
          writer'[k] = writer[k] /\ store'[k] = store[k]
    BY <2>1 DEF TypeOK
  <2> QED
    BY <2>1, <2>2
<1>5. ASSUME Spawn(watched), UNCHANGED <<writer, store, cursor>>
      PROVE  StoreFollowsWriter'
  <2>1. /\ spawned + 1 \in Tasks
        /\ stream[spawned + 1] = "unused"
        /\ stream' = [stream EXCEPT ![spawned + 1] = "connecting"]
        /\ filter' = [filter EXCEPT ![spawned + 1] = watched]
    BY <1>5, GrpcAssumption DEF Spawn, StreamsInv, TypeOK, Tasks
  <2>2. \A k \in Accounts : writer[k] # spawned + 1
    BY <1>0, <2>1 DEF Tasks
  <2>3. \A t \in Tasks : t # spawned + 1 =>
          stream'[t] = stream[t] /\ filter'[t] = filter[t]
    BY <2>1 DEF TypeOK
  <2> QED
    BY <1>0, <1>5, <2>2, <2>3
<1>6. CASE StartFirst
  BY <1>5, <1>6 DEF StartFirst
<1>7. CASE SpawnNew
  BY <1>5, <1>7 DEF SpawnNew
<1>8. CASE NoticeChange \/ StartConfirmed \/ StartTimeout
  BY <1>1, <1>8 DEF NoticeChange, StartConfirmed, StartTimeout
<1>9. ASSUME NEW t \in Tasks, Subscribe(t) PROVE StoreFollowsWriter'
  <2>1. /\ stream[t] = "connecting"
        /\ stream' = [stream EXCEPT ![t] = "streaming"]
        /\ cursor' = [cursor EXCEPT ![t] = chain]
        /\ UNCHANGED <<writer, filter, store>>
    BY <1>9 DEF Subscribe, mainVars
  <2>2. \A k \in Accounts : writer[k] # 0 => writer[k] # t
    BY <2>1
  <2>3. \A s \in Tasks : s # t => stream'[s] = stream[s] /\ cursor'[s] = cursor[s]
    BY <2>1 DEF TypeOK
  <2> QED
    BY <1>0, <2>1, <2>2, <2>3
<1>10. ASSUME NEW t \in Tasks, ConnectFail(t) PROVE StoreFollowsWriter'
  <2>1. /\ stream[t] = "connecting"
        /\ stream' = [stream EXCEPT ![t] = "stopped"]
        /\ UNCHANGED <<writer, filter, store, cursor>>
    BY <1>10 DEF ConnectFail, mainVars
  <2> QED
    BY <1>0, <2>1 DEF TypeOK
<1>11. ASSUME NEW t \in Tasks, NEW k \in Accounts, Deliver(t, k)
       PROVE  StoreFollowsWriter'
  <2>1. /\ stream[t] = "streaming"
        /\ k \in filter[t]
        /\ cursor' = [cursor EXCEPT ![t][k] = @ + 1]
        /\ store' = [store EXCEPT ![k] = cursor[t][k] + 1]
        /\ writer' = [writer EXCEPT ![k] = t]
        /\ UNCHANGED <<stream, filter>>
    BY <1>11 DEF Deliver, mainVars
  <2>2. writer'[k] = t /\ store'[k] = cursor'[t][k]
    BY <2>1 DEF TypeOK
  <2>3. ASSUME NEW j \in Accounts, j # k, writer'[j] # 0
        PROVE  /\ stream'[writer'[j]] = "streaming"
               /\ j \in filter'[writer'[j]]
               /\ store'[j] = cursor'[writer'[j]][j]
    <3>1. writer'[j] = writer[j] /\ store'[j] = store[j] /\ writer[j] \in Tasks
      BY <1>0, <2>1, <2>3 DEF TypeOK
    <3>2. cursor'[writer[j]][j] = cursor[writer[j]][j]
      BY <2>1, <2>3, <3>1 DEF TypeOK
    <3> QED
      BY <2>1, <2>3, <3>1, <3>2
  <2> QED
    BY <2>1, <2>2, <2>3
<1>12. ASSUME NEW t \in Tasks, Ping(t) PROVE StoreFollowsWriter'
  BY <1>1, <1>12 DEF Ping, mainVars
<1>13. ASSUME NEW t \in Tasks, Disconnect(t) \/ AbortLands(t)
       PROVE  StoreFollowsWriter'
  <2>1. /\ writer' = NoLongerWriter(t)
        /\ UNCHANGED <<filter, store, cursor>>
        /\ \A s \in Tasks : s # t => stream'[s] = stream[s]
    BY <1>13 DEF Disconnect, AbortLands, mainVars, TypeOK
  <2>2. \A k \in Accounts : writer'[k] # 0 => writer'[k] = writer[k] /\ writer[k] # t
    BY <2>1 DEF NoLongerWriter, TypeOK, Tasks
  <2> QED
    BY <1>0, <2>1, <2>2
<1>14. CASE UNCHANGED vars
  BY <1>1, <1>14 DEF vars
<1> QED
  BY <1>2, <1>3, <1>4, <1>6, <1>7, <1>8, <1>9, <1>10, <1>11, <1>12, <1>13, <1>14
     DEF Next, AddKnownKey

(* The invariant all the results below follow from.                        *)
THEOREM Invariance == Spec => []Inv
<1>1. Inv /\ [Next]_vars => Inv'
  BY NextTypeOK, NextMainTask, NextHandlesInv, NextFiltersGrow,
     NextStreamsInv, NextNotFromTheFuture, NextNoLeakedSubscription,
     NextStoreFollowsWriter
     DEF Inv
<1> QED
  BY InitInv, <1>1, PTL DEF Spec

-----------------------------------------------------------------------------
(***************************************************************************)
(* Safety.                                                                 *)
(***************************************************************************)

(* Main task, timeouts and aborts never leave a subscription without an    *)
(* owner, however many keys are added and however the streams fail.        *)
THEOREM NoSubscriptionLeaks == Spec => []NoLeakedSubscription
  BY Invariance, PTL DEF Inv

(* No key added while the main task sleeps, waits for a candidate or gives *)
(* one up is left out of the list it last subscribed to once it is idle.   *)
THEOREM NoNotificationLost == Spec => []NoLostNotification
<1>1. Inv => NoLostNotification
  BY DEF Inv, FiltersGrow, NoLostNotification
<1> QED
  BY Invariance, <1>1, PTL

(* What the last writer's open stream delivered last is what is stored.    *)
THEOREM StoreIsWritersView == Spec => []StoreFollowsWriter
  BY Invariance, PTL DEF Inv

LEMMA NextKeepsServing == Inv /\ [Next]_vars => KeepsServing
<1> SUFFICES ASSUME Inv, [Next]_vars, NEW k \in Accounts, Served(k)
             PROVE  Served(k)' \/ Broken'
  BY DEF KeepsServing
<1>1. /\ TypeOK /\ MainTaskInv /\ HandlesInv /\ FiltersGrow /\ StreamsInv
      /\ current \in Tasks /\ current # 0 /\ pc # "first"
      /\ k \in filter[current] /\ stream[current] = "streaming" /\ ~aborted[current]
      /\ Opened(current)
  <2>1. TypeOK /\ MainTaskInv /\ HandlesInv /\ FiltersGrow /\ StreamsInv
    BY DEF Inv
  <2>2. /\ current # 0 /\ k \in filter[current]
        /\ stream[current] = "streaming" /\ ~aborted[current]
    BY DEF Served
  <2> QED
    BY <2>1, <2>2, GrpcAssumption DEF TypeOK, Tasks, MainTaskInv, StreamsInv
<1>2. ASSUME UNCHANGED <<current, filter, aborted>>,
             stream'[current] = stream[current]
      PROVE  Served(k)'
  BY <1>1, <1>2 DEF Served
<1>3. ASSUME UNCHANGED <<current, cursor>>, stream'[current] # "streaming"
      PROVE  Broken'
  BY <1>1, <1>3 DEF Broken, Opened
<1>4. ASSUME NEW j \in Accounts, ChainUpdate(j) PROVE Served(k)'
  BY <1>2, <1>4 DEF ChainUpdate, mainVars
<1>5. ASSUME NEW j \in Accounts, NEW v \in Versions, AddKey(j, v)
      PROVE  Served(k)'
  BY <1>2, <1>5 DEF AddKey, mainVars
<1>6. CASE AddStore
  BY <1>2, <1>6 DEF AddStore, mainVars
<1>7. CASE StartFirst
  BY <1>1, <1>7 DEF StartFirst
<1>8. CASE NoticeChange
  BY <1>2, <1>8 DEF NoticeChange
<1>9. CASE SpawnNew
  <2>1. current # spawned + 1
    BY <1>1 DEF MainTaskInv, TypeOK
  <2>2. /\ stream' = [stream EXCEPT ![spawned + 1] = "connecting"]
        /\ filter' = [filter EXCEPT ![spawned + 1] = watched]
        /\ UNCHANGED <<current, aborted>>
    BY <1>9 DEF SpawnNew, Spawn
  <2>3. stream'[current] = stream[current] /\ filter'[current] = filter[current]
    BY <1>1, <2>1, <2>2 DEF TypeOK
  <2> QED
    BY <1>1, <2>2, <2>3 DEF Served
<1>10. CASE StartConfirmed
  <2>1. /\ current' = spawned
        /\ aborted' = [aborted EXCEPT ![current] = TRUE]
        /\ UNCHANGED <<filter, stream, cursor>>
        /\ current < spawned
        /\ hasStarted
        /\ ~aborted[spawned]
    BY <1>1, <1>10 DEF StartConfirmed, MainTaskInv, HandlesInv
  <2>2. /\ spawned \in Tasks
        /\ ~aborted'[spawned]
        /\ k \in filter[spawned]
    BY <1>1, <2>1 DEF FiltersGrow, TypeOK, Tasks
  <2>3. Opened(spawned)
    BY <1>1, <2>1 DEF StreamsInv
  <2>4. CASE stream[spawned] = "streaming"
    BY <2>1, <2>2, <2>4 DEF Served, Tasks
  <2>5. CASE stream[spawned] # "streaming"
    BY <2>1, <2>2, <2>3, <2>5 DEF Broken, Opened, Tasks
  <2> QED
    BY <2>4, <2>5
<1>11. CASE StartTimeout
  <2>1. /\ current # spawned
        /\ aborted' = [aborted EXCEPT ![spawned] = TRUE]
        /\ UNCHANGED <<current, filter, stream>>
    BY <1>1, <1>11 DEF StartTimeout, MainTaskInv, TypeOK
  <2> QED
    BY <1>1, <2>1 DEF Served, TypeOK
<1>12. ASSUME NEW t \in Tasks, Subscribe(t) \/ ConnectFail(t) PROVE Served(k)'
  BY <1>1, <1>2, <1>12 DEF Subscribe, ConnectFail, mainVars, TypeOK
<1>13. ASSUME NEW t \in Tasks, Ping(t) \/ \E j \in Accounts : Deliver(t, j)
       PROVE  Served(k)'
  BY <1>2, <1>13 DEF Ping, Deliver, mainVars
<1>14. ASSUME NEW t \in Tasks, Disconnect(t) PROVE Served(k)' \/ Broken'
  <2>1. /\ stream' = [stream EXCEPT ![t] = "connecting"]
        /\ UNCHANGED <<current, filter, aborted, cursor>>
    BY <1>14 DEF Disconnect, mainVars
  <2> QED
    BY <1>1, <1>2, <1>3, <2>1 DEF TypeOK
<1>15. ASSUME NEW t \in Tasks, AbortLands(t) PROVE Served(k)'
  <2>1. /\ stream' = [stream EXCEPT ![t] = "stopped"]
        /\ UNCHANGED <<current, filter, aborted>>
        /\ t # current
    BY <1>1, <1>15 DEF AbortLands, mainVars
  <2> QED
    BY <1>1, <1>2, <2>1 DEF TypeOK
<1>16. CASE UNCHANGED vars
  BY <1>2, <1>16 DEF vars
<1> QED
  BY <1>4, <1>5, <1>6, <1>7, <1>8, <1>9, <1>10, <1>11, <1>12, <1>13, <1>14,
     <1>15, <1>16 DEF Next, AddKnownKey

(* A handover never costs a served account its updates by itself.          *)
THEOREM HandoverKeepsKeys == Spec => ServedKeysSurvive
  BY Invariance, NextKeepsServing, PTL DEF Spec, ServedKeysSurvive

-----------------------------------------------------------------------------
(***************************************************************************)
(* Refinement: chain and store behave as AccountCache allows.              *)
(***************************************************************************)
LEMMA InitCache == Init => Cache!Init
  BY DEF Init, Cache!Init, Missing, Cache!Missing

LEMMA NextCache == Inv /\ [Next]_vars => [Cache!Next]_(Cache!cacheVars)
<1> SUFFICES ASSUME Inv, [Next]_vars
             PROVE  [Cache!Next]_(Cache!cacheVars)
  OBVIOUS
<1> USE DEF Cache!Next, Cache!cacheVars
<1>1. TypeOK /\ NotFromTheFuture /\ StreamsInv
  BY DEF Inv
<1>2. ASSUME NEW k \in Accounts, ChainUpdate(k) PROVE Cache!Next
  BY <1>2 DEF ChainUpdate, Cache!Advance
<1>3. CASE AddStore
  <2>1. PICK u \in inflight : store' = [store EXCEPT ![u.key] = u.data]
    BY <1>3 DEF AddStore
  <2>2. u.key \in Accounts /\ u.data \in 0 .. chain[u.key]
    BY <1>1 DEF TypeOK, Update, NotFromTheFuture, Versions
  <2>3. Cache!Put(u.key)
    BY <1>3, <2>1, <2>2 DEF AddStore, Cache!Put
  <2> QED
    BY <2>2, <2>3
<1>4. ASSUME NEW t \in Tasks, NEW k \in Accounts, Deliver(t, k) PROVE Cache!Next
  <2>1. cursor[t][k] \in Versions /\ chain[k] \in Versions
    <3>1. Opened(t)
      BY <1>1, <1>4 DEF Deliver, StreamsInv
    <3> QED
      BY <1>1, <3>1 DEF Opened, TypeOK
  <2>2. cursor[t][k] + 1 \in 0 .. chain[k]
    BY <1>4, <2>1 DEF Deliver, Versions
  <2>3. Cache!Put(k)
    BY <1>4, <2>2 DEF Deliver, Cache!Put, chainVars
  <2> QED
    BY <2>3
<1>5. CASE UNCHANGED <<chain, store>>
  BY <1>5
<1> QED
  BY <1>2, <1>3, <1>4, <1>5 DEF Next, AddKey, AddKnownKey, StartFirst, NoticeChange,
     SpawnNew, StartConfirmed, StartTimeout, Subscribe, ConnectFail, Ping,
     Disconnect, AbortLands, vars, chainVars

(* Whatever the streams and the service do, the store of the gRPC mode is  *)
(* the cache of chain states the quote and swap code counts on.            *)
THEOREM GrpcImplementsCache == Spec => ImplementsCache
  BY Invariance, InitCache, NextCache, PTL
     DEF Spec, ImplementsCache, Cache!Spec
=============================================================================
