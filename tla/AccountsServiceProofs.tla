----------------------- MODULE AccountsServiceProofs ------------------------
(***************************************************************************)
(* Proofs about AccountsService, for any set of pools, whatever mints they *)
(* share, and any channel capacity.                                        *)
(***************************************************************************)
EXTENDS AccountsService, TLAPS

USE DEF IsProcessed, StartPool, HasRoom, Miss, Polled

-----------------------------------------------------------------------------
(***************************************************************************)
(* Type correctness.                                                       *)
(***************************************************************************)
LEMMA InitTypeOK == Init => TypeOK
  BY ServiceAssumption DEF Init, TypeOK

LEMMA NextTypeOK == TypeOK /\ [Next]_vars => TypeOK'
<1> SUFFICES ASSUME TypeOK, [Next]_vars PROVE TypeOK'
  OBVIOUS
<1> USE ServiceAssumption DEF TypeOK, chainVars, reporterVars, serviceVars, processVars
<1>1. ASSUME NEW p \in Pools, PoolChanges(p) PROVE TypeOK'
  BY <1>1 DEF PoolChanges
<1>2. CASE NodesCatchUp
  BY <1>2 DEF NodesCatchUp
<1>3. CASE StreamOpens \/ ConnectFails \/ PauseEnds \/ PollTick \/ PollFails
  BY <1>3 DEF StreamOpens, ConnectFails, PauseEnds, PollTick, PollFails
<1>4. CASE StreamBreaks
  BY <1>4 DEF StreamBreaks
<1>5. ASSUME NEW p \in Pools, StreamDelivers(p) PROVE TypeOK'
  BY <1>5 DEF StreamDelivers
<1>6. CASE PollAnswers
  BY <1>6 DEF PollAnswers
<1>7. ASSUME NEW p \in Pools, Send(p) PROVE TypeOK'
  <2>1. channel' = Append(channel, p) /\ Len(channel) < ChannelSize
    BY <1>7 DEF Send
  <2>2. channel' \in Seq(Pools) /\ Len(channel') <= ChannelSize
    BY <2>1
  <2>3. reporter' \in {"send", "stream", "tick"} /\ sending' \subseteq sending
    BY <1>7 DEF Send
  <2> QED
    BY <1>7, <2>2, <2>3 DEF Send
<1>8. ASSUME NEW p \in Pools, KeysAnswered(p) PROVE TypeOK'
  BY <1>8 DEF KeysAnswered, Accounts, KeysForPool
<1>9. ASSUME NEW p \in Pools, KeysFail(p) PROVE TypeOK'
  BY <1>9 DEF KeysFail
<1>10. ASSUME NEW p \in Pools, StorePool(p) PROVE TypeOK'
  BY <1>10 DEF StorePool, Accounts
<1>11. ASSUME NEW k \in Accounts, StoreKey(k) PROVE TypeOK'
  BY <1>11 DEF StoreKey
<1>12. CASE EndPool
  BY <1>12 DEF EndPool
<1>13. CASE ListPools
  BY <1>13 DEF ListPools
<1>14. CASE FetchPools
  BY <1>14 DEF FetchPools, Accounts
<1>15. CASE BootstrapFails \/ BootstrapEnds \/ ChannelClosed
  BY <1>15 DEF BootstrapFails, BootstrapEnds, ChannelClosed
<1>16. ASSUME NEW p \in Pools, BootstrapPool(p) PROVE TypeOK'
  BY <1>16 DEF BootstrapPool
<1>17. CASE Receive
  <2>1. /\ Head(channel) \in Pools
        /\ channel' \in Seq(Pools)
        /\ Len(channel') <= ChannelSize
    BY <1>17 DEF Receive
  <2> QED
    BY <1>17, <2>1 DEF Receive
<1>18. CASE UNCHANGED vars
  BY <1>18 DEF vars
<1> QED
  BY <1>1, <1>2, <1>3, <1>4, <1>5, <1>6, <1>7, <1>8, <1>9, <1>10, <1>11, <1>12,
     <1>13, <1>14, <1>15, <1>16, <1>17, <1>18 DEF Next

(* Every variable keeps its type, and the channel its capacity.            *)
THEOREM TypeCorrect == Spec => []TypeOK
  BY InitTypeOK, NextTypeOK, PTL DEF Spec

-----------------------------------------------------------------------------
(***************************************************************************)
(* The inductive invariant follows the one pool process_amm_pool handles.  *)
(***************************************************************************)
ProcessInv ==
    /\ step = "idle" <=> cur = {}
    /\ \A p, q \in cur : p = q
    /\ step = "rpc" => cur \cap processed = {}
    /\ step = "pool" => cur \subseteq processed /\ cur \cap stored = {}
    /\ step = "keys" => cur \subseteq stored
    /\ step \in {"pool", "keys"} =>
        \A p \in cur : KeysForPool(p) \subseteq stored \cup nulls \cup left
    /\ left \cap Pools = {}
    /\ step \in {"idle", "rpc"} => left = {}
    /\ \A p \in cur : left \subseteq KeysForPool(p)

(* Where what is in the store came from.                                   *)
Origin ==
    \A k \in stored :
        \/ k \in Pools \cup {Config}
        \/ \E p \in processed : k \in KeysForPool(p) \ (IF p \in cur THEN left ELSE {})

StoredInv ==
    /\ stored \cap Pools \subseteq processed
    /\ ProcessedPoolsStored
    /\ StoredPoolsComplete

Inv == TypeOK /\ ProcessInv /\ StoredInv /\ Origin /\ RewritesSharedOnly

LEMMA InitInv == Init => Inv
<1> SUFFICES ASSUME Init PROVE Inv
  OBVIOUS
<1>1. ProcessInv /\ StoredInv
  BY DEF Init, ProcessInv, StoredInv, ProcessedPoolsStored, StoredPoolsComplete
<1>2. Origin /\ RewritesSharedOnly
  BY DEF Init, Origin, RewritesSharedOnly
<1> QED
  BY <1>1, <1>2, InitTypeOK DEF Inv

(* Only the service's own steps touch what the invariant is about.         *)
LEMMA OtherSteps ==
  ASSUME \/ \E p \in Pools : PoolChanges(p) \/ StreamDelivers(p) \/ Send(p)
         \/ NodesCatchUp \/ StreamOpens \/ ConnectFails \/ StreamBreaks
         \/ PauseEnds \/ PollTick \/ PollAnswers \/ PollFails
         \/ ListPools \/ BootstrapFails \/ BootstrapEnds
         \/ ChannelClosed
         \/ UNCHANGED vars
  PROVE  UNCHANGED <<step, cur, left, processed, stored, nulls>>
  BY DEF PoolChanges, StreamDelivers, Send, NodesCatchUp, StreamOpens, ConnectFails,
     StreamBreaks, PauseEnds, PollTick, PollAnswers, PollFails, ListPools,
     BootstrapFails, BootstrapEnds, ChannelClosed, vars, serviceVars,
     processVars

LEMMA NextInv == Inv /\ [Next]_vars => ProcessInv' /\ StoredInv'
<1> SUFFICES ASSUME Inv, [Next]_vars PROVE ProcessInv' /\ StoredInv'
  OBVIOUS
<1>0. TypeOK /\ ProcessInv /\ StoredInv
  BY DEF Inv
<1> USE DEF ProcessInv, StoredInv, ProcessedPoolsStored, StoredPoolsComplete
<1>1. ASSUME NEW p \in Pools, step = "idle", StartPool(p),
             UNCHANGED <<left, processed, stored, nulls>>
      PROVE  ProcessInv' /\ StoredInv'
  <2>1. CASE p \in processed
    BY <1>0, <1>1, <2>1
  <2>2. CASE p \notin processed
    <3>1. step' = "rpc" /\ cur' = {p} /\ cur = {}
      BY <1>0, <1>1, <2>2
    <3> QED
      BY <1>0, <1>1, <2>2, <3>1
  <2> QED
    BY <2>1, <2>2
<1>2. ASSUME NEW p \in Pools, BootstrapPool(p) PROVE ProcessInv' /\ StoredInv'
  BY <1>1, <1>2 DEF BootstrapPool
<1>3. CASE Receive
  <2>1. Head(channel) \in Pools
    BY <1>0, <1>3 DEF Receive, TypeOK
  <2> QED
    BY <1>1, <1>3, <2>1 DEF Receive
<1>4. ASSUME NEW p \in Pools, KeysAnswered(p) PROVE ProcessInv' /\ StoredInv'
  <2>1. PICK null \in SUBSET KeysForPool(p) :
          left' = KeysForPool(p) \ null /\ nulls' = nulls \cup null
    BY <1>4 DEF KeysAnswered, KeysForPool
  <2>2. /\ step = "rpc" /\ step' = "pool"
        /\ cur = {p} /\ cur' = {p}
        /\ processed' = processed \cup {p}
        /\ stored' = stored
        /\ p \notin stored
    BY <1>0, <1>4 DEF KeysAnswered
  <2>3. ProcessInv'
    BY <1>0, <2>1, <2>2, ServiceAssumption
  <2>4. StoredInv'
    BY <1>0, <2>1, <2>2
  <2> QED
    BY <2>3, <2>4
<1>5. ASSUME NEW p \in Pools, KeysFail(p) PROVE ProcessInv' /\ StoredInv'
  <2>1. /\ step = "rpc" /\ step' = "idle"
        /\ cur = {p} /\ cur' = {}
        /\ UNCHANGED <<left, processed, stored, nulls>>
        /\ p \notin stored
    BY <1>0, <1>5 DEF KeysFail
  <2> QED
    BY <1>0, <2>1
<1>6. ASSUME NEW p \in Pools, StorePool(p) PROVE ProcessInv' /\ StoredInv'
  <2>1. /\ step = "pool" /\ step' = "keys"
        /\ cur = {p} /\ cur' = {p}
        /\ stored' = stored \cup {p}
        /\ UNCHANGED <<left, processed, nulls>>
    BY <1>0, <1>6 DEF StorePool
  <2> QED
    BY <1>0, <2>1
<1>7. ASSUME NEW k \in Accounts, StoreKey(k) PROVE ProcessInv' /\ StoredInv'
  <2>1. /\ step = "keys" /\ k \in left /\ k \notin Pools
        /\ stored' = stored \cup {k}
        /\ left' = left \ {k}
        /\ UNCHANGED <<step, cur, processed, nulls>>
    BY <1>0, <1>7 DEF StoreKey
  <2> QED
    BY <1>0, <2>1
<1>8. CASE EndPool
  <2>1. /\ step = "keys" /\ step' = "idle" /\ left = {} /\ cur' = {}
        /\ UNCHANGED <<left, processed, stored, nulls>>
    BY <1>8 DEF EndPool
  <2> QED
    BY <1>0, <2>1
<1>9. CASE FetchPools
  <2>1. /\ UNCHANGED <<step, cur, left, processed>>
        /\ stored \subseteq stored' /\ stored' \subseteq stored \cup {Config}
        /\ nulls \subseteq nulls'
    BY <1>9 DEF FetchPools
  <2>2. cur \cap {Config} = {} /\ Pools \cap {Config} = {}
    BY <1>0, ServiceAssumption DEF TypeOK
  <2>3. Pools \cap stored' = Pools \cap stored /\ cur \cap stored' = cur \cap stored
    BY <2>1, <2>2
  <2>4. ProcessInv'
    BY <1>0, <2>1, <2>3
  <2>5. StoredInv'
    BY <1>0, <2>1, <2>3
  <2> QED
    BY <2>4, <2>5
<1>10. CASE UNCHANGED <<step, cur, left, processed, stored, nulls>>
  BY <1>0, <1>10
<1> QED
  BY <1>2, <1>3, <1>4, <1>5, <1>6, <1>7, <1>8, <1>9, <1>10, OtherSteps DEF Next

(* What is stored stays accounted for; only KeysAnswered gives the service *)
(* something new to store, and of that only what other pools brought can   *)
(* be there already.                                                       *)
LEMMA NextOrigin == Inv /\ [Next]_vars => Origin' /\ RewritesSharedOnly'
<1> SUFFICES ASSUME Inv, [Next]_vars PROVE Origin' /\ RewritesSharedOnly'
  OBVIOUS
<1>0. TypeOK /\ ProcessInv /\ StoredInv /\ Origin /\ RewritesSharedOnly
  BY DEF Inv
<1> USE DEF ProcessInv, Origin, RewritesSharedOnly, ToStore
<1>1. ASSUME NEW p \in Pools, step = "idle", StartPool(p),
             UNCHANGED <<left, processed, stored>>
      PROVE  Origin' /\ RewritesSharedOnly'
  <2>1. p \in stored => p \in processed
    BY <1>0 DEF StoredInv
  <2> QED
    BY <1>0, <1>1, <2>1
<1>2. ASSUME NEW p \in Pools, BootstrapPool(p) PROVE Origin' /\ RewritesSharedOnly'
  BY <1>1, <1>2 DEF BootstrapPool
<1>3. CASE Receive
  <2>1. Head(channel) \in Pools
    BY <1>0, <1>3 DEF Receive, TypeOK
  <2> QED
    BY <1>1, <1>3, <2>1 DEF Receive
<1>4. ASSUME NEW p \in Pools, KeysAnswered(p) PROVE Origin' /\ RewritesSharedOnly'
  <2>1. /\ step = "rpc" /\ step' = "pool"
        /\ cur = {p} /\ cur' = {p} /\ p \notin processed
        /\ left' \subseteq KeysForPool(p)
        /\ processed' = processed \cup {p}
        /\ stored' = stored
    BY <1>0, <1>4 DEF KeysAnswered
  <2>2. ASSUME NEW k \in stored, k \notin Pools \cup {Config}
        PROVE  \E q \in processed \ {p} : k \in KeysForPool(q)
    BY <1>0, <2>1, <2>2
  <2>3. Origin'
    BY <2>1, <2>2
  <2>4. left' \cap (Pools \cup {Config}) = {}
    BY <2>1, ServiceAssumption
  <2>5. p \notin stored
    BY <1>0, <2>1 DEF StoredInv
  <2>6. RewritesSharedOnly'
    BY <2>1, <2>2, <2>4, <2>5
  <2> QED
    BY <2>3, <2>6
<1>5. ASSUME NEW p \in Pools, KeysFail(p) PROVE Origin' /\ RewritesSharedOnly'
  <2>1. /\ step = "rpc" /\ step' = "idle"
        /\ cur = {p} /\ cur' = {} /\ left = {}
        /\ UNCHANGED <<left, processed, stored>>
    BY <1>0, <1>5 DEF KeysFail
  <2> QED
    BY <1>0, <2>1
<1>6. ASSUME NEW p \in Pools, StorePool(p) PROVE Origin' /\ RewritesSharedOnly'
  <2>1. /\ step = "pool" /\ step' = "keys"
        /\ stored' = stored \cup {p} /\ p \notin left
        /\ UNCHANGED <<cur, left, processed>>
    BY <1>0, <1>6 DEF StorePool
  <2> QED
    BY <1>0, <2>1
<1>7. ASSUME NEW k \in Accounts, StoreKey(k) PROVE Origin' /\ RewritesSharedOnly'
  <2>1. /\ step = "keys" /\ k \in left /\ left' = left \ {k}
        /\ stored' = stored \cup {k}
        /\ UNCHANGED <<step, cur, processed>>
    BY <1>7 DEF StoreKey
  <2>2. PICK p \in cur : k \in KeysForPool(p)
    BY <1>0, <2>1
  <2>3. \E q \in processed' :
          k \in KeysForPool(q) \ (IF q \in cur' THEN left' ELSE {})
    BY <1>0, <2>1, <2>2 DEF StoredInv, TypeOK
  <2>4. Origin'
    BY <1>0, <2>1, <2>3
  <2>5. RewritesSharedOnly'
    BY <1>0, <2>1
  <2> QED
    BY <2>4, <2>5
<1>8. CASE EndPool
  <2>1. /\ step = "keys" /\ step' = "idle" /\ left = {} /\ cur' = {}
        /\ UNCHANGED <<left, processed, stored>>
    BY <1>8 DEF EndPool
  <2> QED
    BY <1>0, <2>1
<1>9. CASE FetchPools
  <2>1. /\ UNCHANGED <<step, cur, left, processed>>
        /\ stored \subseteq stored' /\ stored' \subseteq stored \cup {Config}
    BY <1>9 DEF FetchPools
  <2>2. Config \notin left /\ Config \notin cur
    BY <1>0, ServiceAssumption DEF TypeOK
  <2> QED
    BY <1>0, <2>1, <2>2
<1>10. CASE UNCHANGED <<step, cur, left, processed, stored, nulls>>
  BY <1>0, <1>10
<1> QED
  BY <1>2, <1>3, <1>4, <1>5, <1>6, <1>7, <1>8, <1>9, <1>10, OtherSteps DEF Next

(* The invariant the results below follow from.                            *)
THEOREM Invariance == Spec => []Inv
<1>1. Inv /\ [Next]_vars => Inv'
  BY NextTypeOK, NextInv, NextOrigin DEF Inv
<1> QED
  BY InitInv, <1>1, PTL DEF Spec

-----------------------------------------------------------------------------
(***************************************************************************)
(* Safety.                                                                 *)
(***************************************************************************)

(* A pool in the store comes with its accounts, up to the one being stored *)
(* and to observation accounts that were null.                             *)
THEOREM PoolsComplete == Spec => []StoredPoolsComplete
  BY Invariance, PTL DEF Inv, StoredInv

(* Nothing that was not stored is marked processed.                        *)
THEOREM ProcessedMeansStored == Spec => []ProcessedPoolsStored
  BY Invariance, PTL DEF Inv, StoredInv

(* No account is fetched over one that is stored, but a mint that another  *)
(* pool brought: for any pools and any mints they share.                   *)
THEOREM OnlySharedRewritten == Spec => []RewritesSharedOnly
  BY Invariance, PTL DEF Inv
=============================================================================
