------------------------- MODULE RpcAccountsProofs --------------------------
(***************************************************************************)
(* Proofs about RpcAccounts, for any finite set of accounts, any number of *)
(* versions and any chunk size.                                            *)
(***************************************************************************)
EXTENDS RpcAccounts, TLAPS

USE DEF MemStoreAdd, NoAnswers, ToWrite, IsNull, DropCycle, chainVars, serviceVars,
        cycleVars

-----------------------------------------------------------------------------
(***************************************************************************)
(* The inductive invariant.                                                *)
(***************************************************************************)

(* Nothing stored or under way is newer than the chain; what every node    *)
(* had when the keys were listed, every node has.                          *)
NotFromTheFuture ==
    /\ \A k \in Accounts :
        store[k] <= chain[k] /\ floor[k] <= chain[k] /\ before[k] <= floor[k]
    /\ \A u \in inflight : u.data <= chain[u.key]

(* What was answered in this cycle is not newer than the chain, and no     *)
(* older than what every node had when the keys were listed, unless it is  *)
(* the null of a closed account.                                           *)
AnswersInv ==
    /\ pc \in {"list", "listing"} => \A k \in Accounts : answer[k] = Unread
    /\ \A k \in Accounts : answer[k] # Unread =>
        /\ answer[k] <= chain[k]
        /\ before[k] <= answer[k] \/ (k \in closed /\ answer[k] = Missing)
    /\ pc = "fetch" => unwritten = batch
    /\ pc = "write" => unwritten \subseteq batch
    /\ pc \in {"write", "tick"} => \A k \in batch : answer[k] # Unread
    /\ pc = "tick" => unwritten = {}

(* An account the loop has written is as new as what every node had.       *)
WrittenInv ==
    pc \in {"write", "tick"} => \A k \in (batch \ unwritten) \ (closed \cup late) :
        store[k] >= before[k]

Inv ==
    /\ TypeOK
    /\ NotFromTheFuture
    /\ AnswersInv
    /\ WrittenInv

-----------------------------------------------------------------------------
LEMMA InitInv == Init => Inv
<1> SUFFICES ASSUME Init PROVE Inv
  OBVIOUS
<1> USE RpcAssumption DEF Init, Versions, Missing, Unread
<1>1. TypeOK
  BY DEF TypeOK
<1>2. NotFromTheFuture
  BY DEF NotFromTheFuture
<1>3. AnswersInv /\ WrittenInv
  BY DEF AnswersInv, WrittenInv
<1> QED
  BY <1>1, <1>2, <1>3 DEF Inv

LEMMA NextTypeOK == TypeOK /\ AnswersInv /\ [Next]_vars => TypeOK'
<1> SUFFICES ASSUME TypeOK, AnswersInv, [Next]_vars PROVE TypeOK'
  OBVIOUS
<1> USE RpcAssumption DEF TypeOK, Versions, Missing, Unread
<1>1. ASSUME NEW k \in Accounts, ChainUpdate(k) PROVE TypeOK'
  BY <1>1 DEF ChainUpdate
<1>2. ASSUME NEW k \in Accounts, CloseAccount(k) PROVE TypeOK'
  BY <1>2 DEF CloseAccount
<1>11. ASSUME NEW k \in Accounts, NodesCatchUp(k) PROVE TypeOK'
  <2>1. floor[k] + 1 \in Versions
    BY <1>11 DEF NodesCatchUp
  <2> QED
    BY <1>11, <2>1 DEF NodesCatchUp
<1>3. ASSUME NEW k \in Accounts, NEW v \in Versions, AddKey(k, v) PROVE TypeOK'
  BY <1>3 DEF AddKey, Update
<1>4. CASE AddStore
  BY <1>4 DEF AddStore, Update
<1>5. CASE StartListing
  BY <1>5 DEF StartListing
<1>6. CASE FinishListing
  BY <1>6 DEF FinishListing
<1>7. CASE FetchChunk
  BY <1>7 DEF FetchChunk
<1>8. CASE FetchDone \/ FetchFail \/ WriteDone \/ Tick
  BY <1>8 DEF FetchDone, FetchFail, WriteDone, Tick
<1>9. ASSUME NEW k \in Accounts, WriteOne(k) PROVE TypeOK'
  <2>1. answer[k] # Missing => answer[k] \in Versions
    BY <1>9 DEF WriteOne, AnswersInv
  <2>2. store' \in [Accounts -> Versions \cup {Missing}]
    BY <1>9, <2>1 DEF WriteOne
  <2> QED
    BY <1>9, <2>2 DEF WriteOne
<1>10. CASE UNCHANGED vars
  BY <1>10 DEF vars
<1> QED
  BY <1>1, <1>2, <1>3, <1>4, <1>5, <1>6, <1>7, <1>8, <1>9, <1>10,
     <1>11 DEF Next

LEMMA NextNotFromTheFuture ==
  TypeOK /\ NotFromTheFuture /\ AnswersInv /\ [Next]_vars => NotFromTheFuture'
<1> SUFFICES ASSUME TypeOK, NotFromTheFuture, AnswersInv, [Next]_vars
             PROVE  NotFromTheFuture'
  OBVIOUS
<1> USE DEF NotFromTheFuture
<1>1. /\ \A k \in Accounts : /\ chain[k] \in Int /\ floor[k] \in Int /\ floor[k] >= Missing
                             /\ before[k] \in Int /\ store[k] \in Int
      /\ \A u \in inflight : u.key \in Accounts /\ u.data \in Int
  BY DEF TypeOK, Update, Versions, Missing
<1>2. ASSUME UNCHANGED <<chain, floor, store, before>>, inflight' \subseteq inflight
      PROVE  NotFromTheFuture'
  BY <1>2
<1>3. ASSUME NEW k \in Accounts, ChainUpdate(k) PROVE NotFromTheFuture'
  <2>1. \A j \in Accounts : chain'[j] \in Int /\ chain'[j] >= chain[j]
    BY <1>3 DEF ChainUpdate, TypeOK, Versions
  <2>2. UNCHANGED <<floor, store, before, inflight>>
    BY <1>3 DEF ChainUpdate
  <2> QED
    BY <1>1, <2>1, <2>2
<1>4. ASSUME NEW k \in Accounts, CloseAccount(k) PROVE NotFromTheFuture'
  BY <1>2, <1>4 DEF CloseAccount
<1>5. ASSUME NEW k \in Accounts, NodesCatchUp(k) PROVE NotFromTheFuture'
  <2>1. \A j \in Accounts : floor'[j] = IF j = k THEN floor[k] + 1 ELSE floor[j]
    BY <1>5 DEF NodesCatchUp, TypeOK
  <2>2. floor[k] < chain[k] /\ UNCHANGED <<chain, store, before, inflight>>
    BY <1>5 DEF NodesCatchUp
  <2> QED
    BY <1>1, <2>1, <2>2
<1>6. ASSUME NEW k \in Accounts, NEW v \in Versions, AddKey(k, v)
      PROVE  NotFromTheFuture'
  BY <1>6 DEF AddKey
<1>7. CASE AddStore
  <2>1. PICK u \in inflight : /\ store' = [store EXCEPT ![u.key] = u.data]
                              /\ inflight' = {}
                              /\ UNCHANGED <<chain, floor, before>>
    BY <1>7 DEF AddStore
  <2>2. \A k \in Accounts : store'[k] = IF k = u.key THEN u.data ELSE store[k]
    BY <2>1 DEF TypeOK
  <2> QED
    BY <1>1, <2>1, <2>2
<1>8. CASE StartListing
  BY <1>1, <1>8 DEF StartListing
<1>9. CASE FetchFail \/ Tick
  <2>1. /\ UNCHANGED <<chain, floor, store, inflight>>
        /\ \A k \in Accounts : before'[k] = Missing
    BY <1>9 DEF FetchFail, Tick
  <2> QED
    BY <1>1, <2>1
<1>10. CASE FinishListing \/ FetchChunk \/ FetchDone \/ WriteDone
  BY <1>2, <1>10 DEF FinishListing, FetchChunk, FetchDone, WriteDone
<1>11. ASSUME NEW k \in Accounts, WriteOne(k) PROVE NotFromTheFuture'
  <2>1. answer[k] <= chain[k]
    BY <1>11 DEF WriteOne, AnswersInv, TypeOK
  <2>2. \A j \in Accounts : store'[j] = store[j] \/ store'[j] <= chain[j]
    BY <1>11, <2>1 DEF WriteOne, TypeOK
  <2>3. UNCHANGED <<chain, floor, before, inflight>>
    BY <1>11 DEF WriteOne
  <2> QED
    BY <2>2, <2>3
<1>12. CASE UNCHANGED vars
  BY <1>2, <1>12 DEF vars
<1> QED
  BY <1>3, <1>4, <1>5, <1>6, <1>7, <1>8, <1>9, <1>10, <1>11, <1>12 DEF Next

LEMMA NextAnswersInv ==
  TypeOK /\ NotFromTheFuture /\ AnswersInv /\ [Next]_vars => AnswersInv'
<1> SUFFICES ASSUME TypeOK, NotFromTheFuture, AnswersInv, [Next]_vars
             PROVE  AnswersInv'
  OBVIOUS
<1> USE DEF AnswersInv
<1>1. ASSUME UNCHANGED <<chain, closed, pc, batch, answer, unwritten, before>>
      PROVE  AnswersInv'
  BY <1>1
<1>2. ASSUME NEW k \in Accounts, ChainUpdate(k) PROVE AnswersInv'
  <2>1. \A j \in Accounts : chain[j] \in Int /\ chain'[j] \in Int /\ chain'[j] >= chain[j]
    BY <1>2 DEF ChainUpdate, TypeOK, Versions
  <2>2. UNCHANGED <<closed, pc, batch, answer, unwritten, before>>
    BY <1>2 DEF ChainUpdate
  <2>3. \A j \in Accounts : answer[j] \in Int
    BY DEF TypeOK, Versions, Missing, Unread
  <2>4. \A j \in Accounts : answer[j] # Unread => answer[j] <= chain'[j]
    BY <2>1, <2>3
  <2> QED
    BY <2>2, <2>4
<1>3. ASSUME NEW k \in Accounts, CloseAccount(k) PROVE AnswersInv'
  BY <1>3 DEF CloseAccount
<1>4. ASSUME NEW k \in Accounts,
             NodesCatchUp(k) \/ \E v \in Versions : AddKey(k, v)
      PROVE  AnswersInv'
  BY <1>1, <1>4 DEF NodesCatchUp, AddKey
<1>5. CASE AddStore
  BY <1>1, <1>5 DEF AddStore
<1>6. CASE StartListing
  BY <1>6 DEF StartListing
<1>7. CASE FinishListing
  BY <1>7 DEF FinishListing
<1>8. CASE FetchChunk
  <2>0. PICK chunk \in SUBSET Pending :
          \E said \in [chunk -> Versions \cup {Missing}] :
            /\ \A k \in chunk : said[k] \in Answers(k)
            /\ answer' = [k \in Accounts |->
                             IF k \in chunk THEN said[k] ELSE answer[k]]
    BY <1>8 DEF FetchChunk
  <2>1. PICK said \in [chunk -> Versions \cup {Missing}] :
          /\ \A k \in chunk : said[k] \in Answers(k)
          /\ answer' = [k \in Accounts |-> IF k \in chunk THEN said[k] ELSE answer[k]]
    BY <2>0
  <2>2. /\ pc = "fetch"
        /\ UNCHANGED <<chain, closed, pc, batch, unwritten, before>>
    BY <1>8 DEF FetchChunk
  <2>3. ASSUME NEW k \in Accounts, answer'[k] # Unread
        PROVE  /\ answer'[k] <= chain[k]
               /\ before[k] <= answer'[k] \/ (k \in closed /\ answer'[k] = Missing)
    <3>1. CASE k \in chunk
      <4>1. answer'[k] \in Answers(k)
        BY <2>1, <3>1
      <4>2. /\ chain[k] \in Int /\ chain[k] >= Missing
            /\ floor[k] \in Int /\ before[k] \in Int /\ before[k] <= floor[k]
        BY DEF TypeOK, Versions, Missing, NotFromTheFuture
      <4>3. CASE answer'[k] \in floor[k] .. chain[k]
        BY <4>2, <4>3
      <4>4. CASE k \in closed /\ answer'[k] = Missing
        BY <4>2, <4>4 DEF Missing
      <4> QED
        BY <4>1, <4>3, <4>4 DEF Answers
    <3>2. CASE k \notin chunk
      BY <2>1, <2>3, <3>2
    <3> QED
      BY <3>1, <3>2
  <2> QED
    BY <2>2, <2>3
<1>9. CASE FetchDone
  BY <1>9 DEF FetchDone, Pending, TypeOK
<1>10. CASE FetchFail \/ Tick
  BY <1>10 DEF FetchFail, Tick
<1>11. CASE WriteDone
  BY <1>11 DEF WriteDone
<1>12. ASSUME NEW k \in Accounts, WriteOne(k) PROVE AnswersInv'
  BY <1>12 DEF WriteOne
<1>13. CASE UNCHANGED vars
  BY <1>1, <1>13 DEF vars
<1> QED
  BY <1>2, <1>3, <1>4, <1>5, <1>6, <1>7, <1>8, <1>9, <1>10, <1>11, <1>12, <1>13
     DEF Next

LEMMA NextWrittenInv ==
  TypeOK /\ AnswersInv /\ WrittenInv /\ [Next]_vars => WrittenInv'
<1> SUFFICES ASSUME TypeOK, AnswersInv, WrittenInv, [Next]_vars
             PROVE  WrittenInv'
  OBVIOUS
<1> USE DEF WrittenInv
<1>1. ASSUME UNCHANGED <<store, pc, batch, unwritten, before, late>>,
             closed \subseteq closed'
      PROVE  WrittenInv'
  BY <1>1
<1>2. ASSUME NEW k \in Accounts,
             \/ ChainUpdate(k) \/ CloseAccount(k) \/ NodesCatchUp(k)
             \/ \E v \in Versions : AddKey(k, v)
      PROVE  WrittenInv'
  BY <1>1, <1>2 DEF ChainUpdate, CloseAccount, NodesCatchUp, AddKey
<1>3. CASE AddStore
  <2>1. PICK u \in inflight : /\ store' = [store EXCEPT ![u.key] = u.data]
                              /\ late' = late \cup {u.key}
                              /\ UNCHANGED <<closed, pc, batch, unwritten, before>>
    BY <1>3 DEF AddStore
  <2> QED
    BY <2>1 DEF TypeOK
<1>4. CASE StartListing \/ FinishListing \/ FetchChunk \/ FetchFail \/ Tick
  BY <1>4 DEF StartListing, FinishListing, FetchChunk, FetchFail, Tick
<1>5. CASE FetchDone
  BY <1>5 DEF FetchDone, AnswersInv
<1>6. ASSUME NEW k \in Accounts, WriteOne(k) PROVE WrittenInv'
  <2>1. /\ pc = "write"
        /\ unwritten' = unwritten \ {k}
        /\ k \in batch
        /\ \A j \in Accounts : j # k => store'[j] = store[j]
        /\ answer[k] # Missing => store'[k] = answer[k]
        /\ UNCHANGED <<closed, pc, batch, before, late>>
    BY <1>6 DEF WriteOne, TypeOK, AnswersInv
  <2>2. ASSUME k \notin closed PROVE store'[k] >= before[k]
    <3>1. before[k] <= answer[k]
      BY <2>1, <2>2 DEF AnswersInv
    <3>2. /\ before[k] \in Int /\ answer[k] \in Int
          /\ store[k] \in Int /\ store[k] >= Missing
      BY DEF TypeOK, Versions, Missing, Unread
    <3>3. answer[k] = Missing => store'[k] = store[k]
      BY <1>6 DEF WriteOne
    <3> QED
      BY <2>1, <3>1, <3>2, <3>3
  <2>3. ASSUME NEW j \in (batch \ unwritten') \ (closed \cup late)
        PROVE  store'[j] >= before[j]
    BY <2>1, <2>2 DEF TypeOK
  <2> QED
    BY <2>1, <2>3
<1>7. CASE WriteDone
  BY <1>7 DEF WriteDone
<1>8. CASE UNCHANGED vars
  BY <1>1, <1>8 DEF vars
<1> QED
  BY <1>2, <1>3, <1>4, <1>5, <1>6, <1>7, <1>8 DEF Next

(* The invariant the results below follow from.                            *)
THEOREM Invariance == Spec => []Inv
<1>1. Inv /\ [Next]_vars => Inv'
  BY NextTypeOK, NextNotFromTheFuture, NextAnswersInv, NextWrittenInv DEF Inv
<1> QED
  BY InitInv, <1>1, PTL DEF Spec

-----------------------------------------------------------------------------
(***************************************************************************)
(* Safety and refinement.                                                  *)
(***************************************************************************)

(* Every variable keeps its type: no unread answer is ever written.        *)
THEOREM TypeCorrect == Spec => []TypeOK
  BY Invariance, PTL DEF Inv

(* A complete cycle leaves nothing of its batch older than what every node *)
(* had when the keys were listed, unless the service stored it meanwhile.  *)
THEOREM CyclesRefresh == Spec => []CycleRefreshes
<1>1. Inv => CycleRefreshes
  BY DEF Inv, AnswersInv, WrittenInv, CycleRefreshes
<1> QED
  BY Invariance, <1>1, PTL

LEMMA NextSetBackWithinLag == Inv /\ [Next]_vars => [SetBackWithinLag]_vars
<1> SUFFICES ASSUME Inv, [Next]_vars, NEW k \in Accounts, store'[k] < store[k]
             PROVE  inflight' # inflight \/ store'[k] >= before[k]
  BY DEF SetBackWithinLag
<1>1. TypeOK /\ AnswersInv
  BY DEF Inv
<1>2. store[k] \in Int
  BY <1>1 DEF TypeOK, Versions, Missing
<1>3. CASE AddStore
  BY <1>3 DEF AddStore
<1>4. ASSUME NEW j \in Accounts, WriteOne(j) PROVE store'[k] >= before[k]
  <2>1. j = k /\ store'[k] = answer[k] /\ answer[k] # Missing
    BY <1>1, <1>2, <1>4 DEF WriteOne, TypeOK
  <2>2. answer[k] # Unread
    BY <1>1, <1>4, <2>1 DEF WriteOne, AnswersInv
  <2>3. before[k] <= answer[k] /\ before[k] \in Int /\ answer[k] \in Int
    BY <1>1, <2>1, <2>2 DEF AnswersInv, TypeOK, Versions, Missing, Unread
  <2> QED
    BY <2>1, <2>3
<1>5. ASSUME UNCHANGED store PROVE FALSE
  BY <1>2, <1>5
<1> QED
  BY <1>3, <1>4, <1>5 DEF Next, ChainUpdate, CloseAccount, NodesCatchUp, AddKey,
     StartListing, FinishListing, FetchChunk, FetchDone, FetchFail, WriteDone, Tick, vars

(* Where the updater moves an account back, it is to what some node that   *)
(* lags has answered in this very cycle.                                   *)
THEOREM RefreshSetsBackWithinLag == Spec => NeverSetBackFurther
  BY Invariance, NextSetBackWithinLag, PTL DEF Spec, NeverSetBackFurther

LEMMA InitCache == Init => Cache!Init
  BY DEF Init, Cache!Init, Missing, Cache!Missing

LEMMA NextCache == Inv /\ [Next]_vars => [Cache!Next]_(Cache!cacheVars)
<1> SUFFICES ASSUME Inv, [Next]_vars
             PROVE  [Cache!Next]_(Cache!cacheVars)
  OBVIOUS
<1> USE DEF Cache!Next, Cache!cacheVars
<1>1. TypeOK /\ AnswersInv /\ NotFromTheFuture
  BY DEF Inv
<1>2. ASSUME NEW k \in Accounts, ChainUpdate(k) PROVE Cache!Next
  BY <1>2 DEF ChainUpdate, Cache!Advance
<1>3. CASE AddStore
  <2>1. PICK u \in inflight : store' = [store EXCEPT ![u.key] = u.data]
    BY <1>3 DEF AddStore
  <2>2. u.key \in Accounts /\ u.data \in 0 .. chain[u.key]
    BY <1>1 DEF TypeOK, Update, NotFromTheFuture, Versions
  <2>3. Cache!Put(u.key)
    BY <1>3, <2>1, <2>2 DEF AddStore, Cache!Put
  <2> QED
    BY <2>2, <2>3
<1>4. ASSUME NEW k \in Accounts, WriteOne(k) PROVE [Cache!Next]_(Cache!cacheVars)
  <2>1. CASE answer[k] = Missing
    BY <1>4, <2>1 DEF WriteOne
  <2>2. CASE answer[k] # Missing
    <3>1. answer[k] \in Versions /\ answer[k] <= chain[k] /\ chain[k] \in Versions
      <4>1. answer[k] # Unread
        BY <1>1, <1>4 DEF WriteOne, AnswersInv
      <4> QED
        BY <1>1, <2>2, <4>1 DEF AnswersInv, TypeOK
    <3>2. answer[k] \in 0 .. chain[k]
      BY <3>1 DEF Versions
    <3>3. Cache!Put(k)
      BY <1>4, <2>2, <3>2 DEF WriteOne, Cache!Put
    <3> QED
      BY <3>3
  <2> QED
    BY <2>1, <2>2
<1>5. CASE UNCHANGED <<chain, store>>
  BY <1>5
<1> QED
  BY <1>2, <1>3, <1>4, <1>5 DEF Next, CloseAccount, NodesCatchUp, AddKey,
     StartListing, FinishListing, FetchChunk, FetchDone, FetchFail, WriteDone, Tick, vars

(* What the store of the RPC mode promises its readers is what the store   *)
(* of the gRPC mode does: both are an AccountCache.                        *)
THEOREM RpcImplementsCache == Spec => ImplementsCache
  BY Invariance, InitCache, NextCache, PTL
     DEF Spec, ImplementsCache, Cache!Spec
=============================================================================
