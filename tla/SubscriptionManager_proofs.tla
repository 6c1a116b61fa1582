----------------------- MODULE SubscriptionManager_proofs -----------------------
(***************************************************************************)
(* Proofs about SubscriptionManager for every set of queues, clients and   *)
(* threads, every set of callers and every bound on the calls.             *)
(***************************************************************************)
EXTENDS SubscriptionManager, TLAPS

-----------------------------------------------------------------------------
(* The inductive invariant.                                                *)

\* A call in progress has its queue, and a consumer thread makes one only
\* from its callback.
CallInv ==
  /\ \A a \in Actors : cpc[a] # "idle" => cq[a] \in Queues
  /\ \A t \in Threads : cpc[t] # "idle" => wpc[t] = "callback"

Inside(a) == cpc[a] \in {"sFind", "uErase", "uMap", "uDetach", "uDelete", "uRemove"}

\* m_lock is owned by whoever is between its lock() and unlock(), by nobody else.
LockInv ==
  /\ \A a \in Actors : Inside(a) => lock = a
  /\ \A t \in Threads : wpc[t] = "check" => lock = t
  /\ \A a \in Actors : lock = a => Inside(a) \/ (a \in Threads /\ wpc[a] = "check")

Born(t) == wpc[t] # "unborn"
Spawning(a) == cpc[a] = "sSpawn"

\* Insertions of a queue fall into different epochs: while the queue is out of
\* the set nothing carries the present epoch.
EpochInv ==
  /\ \A t \in Threads : Born(t) =>
       /\ wq[t] \in Queues
       /\ wgen[t] <= epoch[wq[t]]
       /\ wgen[t] = epoch[wq[t]] => wq[t] \in stSubscribe
  /\ \A a \in Actors : Spawning(a) =>
       /\ cgen[a] <= epoch[cq[a]]
       /\ cgen[a] = epoch[cq[a]] => cq[a] \in stSubscribe
  /\ \A a \in Actors, t \in Threads :
       Spawning(a) /\ Born(t) /\ cq[a] = wq[t] => cgen[a] # wgen[t]
  /\ \A a, b \in Actors :
       Spawning(a) /\ Spawning(b) /\ cq[a] = cq[b] /\ cgen[a] = cgen[b] => a = b

Storing(a) == cpc[a] \in {"sStore", "sStoring"}

\* A thread object belongs to the call that is about to store it, then to the
\* map entry of its queue.
HandleInv ==
  /\ \A t \in Threads : handle[t] # "none" => Born(t)
  /\ \A q \in Queues : mpThread[q] \in Threads =>
       wq[mpThread[q]] = q /\ handle[mpThread[q]] # "none"
  /\ \A a \in Actors : Storing(a) =>
       /\ cth[a] \in Threads
       /\ handle[cth[a]] = "held"
       /\ wq[cth[a]] = cq[a]
       /\ \A q \in Queues : mpThread[q] # cth[a]
  /\ \A a, b \in Actors : Storing(a) /\ Storing(b) /\ cth[a] = cth[b] => a = b

Deleting(a) == cpc[a] \in {"uDetach", "uDelete", "uRemove"}

\* While no two accesses of the map have overlapped, one actor at a time is in
\* it: only the one that stores sees a null pointer, and only the one that
\* deletes sees an object that is not joinable.
SoundMapInv ==
  /\ ~crashed
  /\ \A a, b \in Actors : InMap(a) /\ InMap(b) => a = b
  /\ \A q \in Queues : mpThread[q] = Null => \E a \in Actors : cpc[a] = "sStoring" /\ cq[a] = q
  /\ \A a \in Actors : cpc[a] = "sStoring" => mpThread[cq[a]] # None
  /\ \A a \in Actors : Deleting(a) => mpThread[cq[a]] \in Threads
  /\ \A a \in Actors : cpc[a] = "uDelete" => handle[mpThread[cq[a]]] = "detached"
  /\ \A a \in Actors : cpc[a] = "uRemove" => handle[mpThread[cq[a]]] = "deleted"
  /\ \A q \in Queues : mpThread[q] \in Threads => handle[mpThread[q]] = "held" \/ InUse(q)

-----------------------------------------------------------------------------

USE DEF Actors

LEMMA TypeInit == Init => TypeOK /\ CallInv
<1> SUFFICES ASSUME Init PROVE TypeOK /\ CallInv
  OBVIOUS
<1>1. TypeOK
  BY DEF Init, TypeOK, CallStates, WorkerStates
<1>2. CallInv
  BY DEF Init, CallInv
<1> QED
  BY <1>1, <1>2

LEMMA TypeStep == TypeOK /\ CallInv /\ [Next]_vars => TypeOK' /\ CallInv'
<1> SUFFICES ASSUME TypeOK, CallInv, [Next]_vars PROVE TypeOK' /\ CallInv'
  OBVIOUS
<1> USE DEF TypeOK, CallInv, CallStates, WorkerStates, callVars, workerVars
<1>1. CASE UNCHANGED vars
  BY <1>1 DEF vars
<1>2. ASSUME NEW a \in Actors, NEW q \in Queues, SubscribeBegin(a, q) PROVE TypeOK' /\ CallInv'
  BY <1>2 DEF SubscribeBegin, CanCall, Step
<1>3. ASSUME NEW a \in Actors, SubscribeLock(a) PROVE TypeOK' /\ CallInv'
  BY <1>3 DEF SubscribeLock, Acquire, Step
<1>4. ASSUME NEW a \in Actors, SubscribeInsert(a) PROVE TypeOK' /\ CallInv'
  BY <1>4 DEF SubscribeInsert, Release, Step
<1>5. ASSUME NEW a \in Actors, SubscribeRefuse(a) PROVE TypeOK' /\ CallInv'
  BY <1>5 DEF SubscribeRefuse, Release, Return, Step
<1>6. ASSUME NEW a \in Actors, NEW t \in Threads, SubscribeSpawn(a, t) PROVE TypeOK' /\ CallInv'
  BY <1>6 DEF SubscribeSpawn, Step
<1>7. ASSUME NEW a \in Actors, SubscribeSpawnFails(a) PROVE TypeOK' /\ CallInv'
  BY <1>7 DEF SubscribeSpawnFails, Return, Step
<1>8. ASSUME NEW a \in Actors, SubscribeStoreEnter(a) PROVE TypeOK' /\ CallInv'
  BY <1>8 DEF SubscribeStoreEnter, EnterMap, Step
<1>9. ASSUME NEW a \in Actors, SubscribeStoreExit(a) PROVE TypeOK' /\ CallInv'
  BY <1>9 DEF SubscribeStoreExit, Return, Step
<1>10. ASSUME NEW a \in Actors, NEW q \in Queues, UnsubscribeBegin(a, q) PROVE TypeOK' /\ CallInv'
  BY <1>10 DEF UnsubscribeBegin, CanCall, Step
<1>11. ASSUME NEW a \in Actors, UnsubscribeLock(a) PROVE TypeOK' /\ CallInv'
  BY <1>11 DEF UnsubscribeLock, Acquire, Step
<1>12. ASSUME NEW a \in Actors, UnsubscribeErase(a) PROVE TypeOK' /\ CallInv'
  BY <1>12 DEF UnsubscribeErase, EnterMap, Step
<1>13. ASSUME NEW a \in Actors, UnsubscribeMiss(a) PROVE TypeOK' /\ CallInv'
  BY <1>13 DEF UnsubscribeMiss, EndUnsubscribe, Release, Return, Step
<1>14. ASSUME NEW a \in Actors, UnsubscribeFind(a) PROVE TypeOK' /\ CallInv'
  BY <1>14 DEF UnsubscribeFind, Step
<1>15. ASSUME NEW a \in Actors, UnsubscribeDetach(a) PROVE TypeOK' /\ CallInv'
  BY <1>15 DEF UnsubscribeDetach, UseObject, Object, Step
<1>16. ASSUME NEW a \in Actors, UnsubscribeDelete(a) PROVE TypeOK' /\ CallInv'
  BY <1>16 DEF UnsubscribeDelete, UseObject, Object, Step
<1>17. ASSUME NEW a \in Actors, UnsubscribeRemove(a) PROVE TypeOK' /\ CallInv'
  BY <1>17 DEF UnsubscribeRemove, EndUnsubscribe, Release, Return, Step
<1>18. ASSUME NEW a \in Actors, UnsubscribeCrashes(a) PROVE TypeOK' /\ CallInv'
  BY <1>18 DEF UnsubscribeCrashes, Object
<1>19. ASSUME NEW t \in Threads, consumer_thread(t) PROVE TypeOK' /\ CallInv'
  BY <1>19 DEF consumer_thread, WorkerLock, WorkerCheck, WorkerFetchFails, WorkerDeliver,
               WorkerReturn, WorkerStep, Acquire, Release
<1> QED
  BY <1>1, <1>2, <1>3, <1>4, <1>5, <1>6, <1>7, <1>8, <1>9, <1>10, <1>11, <1>12, <1>13, <1>14,
     <1>15, <1>16, <1>17, <1>18, <1>19
     DEF Next, SubscribeMSg, UnSubscribeMsg
LEMMA LockStep ==
  TypeOK /\ CallInv /\ LockInv /\ [Next]_vars => LockInv'
<1> SUFFICES ASSUME TypeOK, CallInv, LockInv, [Next]_vars PROVE LockInv'
  OBVIOUS
<1> USE NoneIsNothing, ClientsAreNotThreads DEF TypeOK, CallInv, CallStates, WorkerStates, callVars, workerVars, LockInv, Inside
<1>1. CASE UNCHANGED vars
  BY <1>1 DEF vars
<1>2. ASSUME NEW a \in Actors, NEW q \in Queues, SubscribeBegin(a, q) PROVE LockInv'
  BY <1>2 DEF SubscribeBegin, CanCall, Step
<1>3. ASSUME NEW a \in Actors, SubscribeLock(a) PROVE LockInv'
  BY <1>3 DEF SubscribeLock, Acquire, Step
<1>4. ASSUME NEW a \in Actors, SubscribeInsert(a) PROVE LockInv'
  BY <1>4 DEF SubscribeInsert, Release, Step
<1>5. ASSUME NEW a \in Actors, SubscribeRefuse(a) PROVE LockInv'
  BY <1>5 DEF SubscribeRefuse, Release, Return, Step
<1>6. ASSUME NEW a \in Actors, NEW t \in Threads, SubscribeSpawn(a, t) PROVE LockInv'
  BY <1>6 DEF SubscribeSpawn, Step
<1>7. ASSUME NEW a \in Actors, SubscribeSpawnFails(a) PROVE LockInv'
  BY <1>7 DEF SubscribeSpawnFails, Return, Step
<1>8. ASSUME NEW a \in Actors, SubscribeStoreEnter(a) PROVE LockInv'
  BY <1>8 DEF SubscribeStoreEnter, Step
<1>9. ASSUME NEW a \in Actors, SubscribeStoreExit(a) PROVE LockInv'
  BY <1>9 DEF SubscribeStoreExit, Return, Step
<1>10. ASSUME NEW a \in Actors, NEW q \in Queues, UnsubscribeBegin(a, q) PROVE LockInv'
  BY <1>10 DEF UnsubscribeBegin, CanCall, Step
<1>11. ASSUME NEW a \in Actors, UnsubscribeLock(a) PROVE LockInv'
  BY <1>11 DEF UnsubscribeLock, Acquire, Step
<1>12. ASSUME NEW a \in Actors, UnsubscribeErase(a) PROVE LockInv'
  BY <1>12 DEF UnsubscribeErase, Step
<1>13. ASSUME NEW a \in Actors, UnsubscribeMiss(a) PROVE LockInv'
  BY <1>13 DEF UnsubscribeMiss, EndUnsubscribe, Release, Return, Step
<1>14. ASSUME NEW a \in Actors, UnsubscribeFind(a) PROVE LockInv'
  BY <1>14 DEF UnsubscribeFind, Step
<1>15. ASSUME NEW a \in Actors, UnsubscribeDetach(a) PROVE LockInv'
  BY <1>15 DEF UnsubscribeDetach, UseObject, Object, Step
<1>16. ASSUME NEW a \in Actors, UnsubscribeDelete(a) PROVE LockInv'
  BY <1>16 DEF UnsubscribeDelete, UseObject, Object, Step
<1>17. ASSUME NEW a \in Actors, UnsubscribeRemove(a) PROVE LockInv'
  BY <1>17 DEF UnsubscribeRemove, EndUnsubscribe, Release, Return, Step
<1>18. ASSUME NEW a \in Actors, UnsubscribeCrashes(a) PROVE LockInv'
  BY <1>18 DEF UnsubscribeCrashes, Object
<1>19. ASSUME NEW t \in Threads, consumer_thread(t) PROVE LockInv'
  BY <1>19 DEF consumer_thread, WorkerLock, WorkerCheck, WorkerFetchFails, WorkerDeliver,
               WorkerReturn, WorkerStep, Acquire, Release
<1> QED
  BY <1>1, <1>2, <1>3, <1>4, <1>5, <1>6, <1>7, <1>8, <1>9, <1>10, <1>11, <1>12, <1>13, <1>14,
     <1>15, <1>16, <1>17, <1>18, <1>19
     DEF Next, SubscribeMSg, UnSubscribeMsg

LEMMA EpochStep ==
  TypeOK /\ CallInv /\ EpochInv /\ OneWorkerPerEpoch /\ [Next]_vars => (EpochInv /\ OneWorkerPerEpoch)'
<1> SUFFICES ASSUME TypeOK, CallInv, EpochInv, OneWorkerPerEpoch, [Next]_vars PROVE (EpochInv /\ OneWorkerPerEpoch)'
  OBVIOUS
<1> USE DEF TypeOK, CallInv, CallStates, WorkerStates, callVars, workerVars, EpochInv, OneWorkerPerEpoch, Born, Spawning
<1>1. CASE UNCHANGED vars
  BY <1>1 DEF vars
<1>2. ASSUME NEW a \in Actors, NEW q \in Queues, SubscribeBegin(a, q) PROVE (EpochInv /\ OneWorkerPerEpoch)'
  BY <1>2 DEF SubscribeBegin, CanCall, Step
<1>3. ASSUME NEW a \in Actors, SubscribeLock(a) PROVE (EpochInv /\ OneWorkerPerEpoch)'
  BY <1>3 DEF SubscribeLock, Acquire, Step
<1>4. ASSUME NEW a \in Actors, SubscribeInsert(a) PROVE (EpochInv /\ OneWorkerPerEpoch)'
  BY <1>4 DEF SubscribeInsert, Release, Step
<1>5. ASSUME NEW a \in Actors, SubscribeRefuse(a) PROVE (EpochInv /\ OneWorkerPerEpoch)'
  BY <1>5 DEF SubscribeRefuse, Release, Return, Step
<1>6. ASSUME NEW a \in Actors, NEW t \in Threads, SubscribeSpawn(a, t) PROVE (EpochInv /\ OneWorkerPerEpoch)'
  BY <1>6 DEF SubscribeSpawn, Step
<1>7. ASSUME NEW a \in Actors, SubscribeSpawnFails(a) PROVE (EpochInv /\ OneWorkerPerEpoch)'
  BY <1>7 DEF SubscribeSpawnFails, Return, Step
<1>8. ASSUME NEW a \in Actors, SubscribeStoreEnter(a) PROVE (EpochInv /\ OneWorkerPerEpoch)'
  BY <1>8 DEF SubscribeStoreEnter, Step
<1>9. ASSUME NEW a \in Actors, SubscribeStoreExit(a) PROVE (EpochInv /\ OneWorkerPerEpoch)'
  BY <1>9 DEF SubscribeStoreExit, Return, Step
<1>10. ASSUME NEW a \in Actors, NEW q \in Queues, UnsubscribeBegin(a, q) PROVE (EpochInv /\ OneWorkerPerEpoch)'
  BY <1>10 DEF UnsubscribeBegin, CanCall, Step
<1>11. ASSUME NEW a \in Actors, UnsubscribeLock(a) PROVE (EpochInv /\ OneWorkerPerEpoch)'
  BY <1>11 DEF UnsubscribeLock, Acquire, Step
<1>12. ASSUME NEW a \in Actors, UnsubscribeErase(a) PROVE (EpochInv /\ OneWorkerPerEpoch)'
  BY <1>12 DEF UnsubscribeErase, Step
<1>13. ASSUME NEW a \in Actors, UnsubscribeMiss(a) PROVE (EpochInv /\ OneWorkerPerEpoch)'
  BY <1>13 DEF UnsubscribeMiss, EndUnsubscribe, Release, Return, Step
<1>14. ASSUME NEW a \in Actors, UnsubscribeFind(a) PROVE (EpochInv /\ OneWorkerPerEpoch)'
  BY <1>14 DEF UnsubscribeFind, Step
<1>15. ASSUME NEW a \in Actors, UnsubscribeDetach(a) PROVE (EpochInv /\ OneWorkerPerEpoch)'
  BY <1>15 DEF UnsubscribeDetach, UseObject, Object, Step
<1>16. ASSUME NEW a \in Actors, UnsubscribeDelete(a) PROVE (EpochInv /\ OneWorkerPerEpoch)'
  BY <1>16 DEF UnsubscribeDelete, UseObject, Object, Step
<1>17. ASSUME NEW a \in Actors, UnsubscribeRemove(a) PROVE (EpochInv /\ OneWorkerPerEpoch)'
  BY <1>17 DEF UnsubscribeRemove, EndUnsubscribe, Release, Return, Step
<1>18. ASSUME NEW a \in Actors, UnsubscribeCrashes(a) PROVE (EpochInv /\ OneWorkerPerEpoch)'
  BY <1>18 DEF UnsubscribeCrashes, Object
<1>19. ASSUME NEW t \in Threads, consumer_thread(t) PROVE (EpochInv /\ OneWorkerPerEpoch)'
  BY <1>19 DEF consumer_thread, WorkerLock, WorkerCheck, WorkerFetchFails, WorkerDeliver,
               WorkerReturn, WorkerStep, Acquire, Release
<1> QED
  BY <1>1, <1>2, <1>3, <1>4, <1>5, <1>6, <1>7, <1>8, <1>9, <1>10, <1>11, <1>12, <1>13, <1>14,
     <1>15, <1>16, <1>17, <1>18, <1>19
     DEF Next, SubscribeMSg, UnSubscribeMsg

LEMMA ServedStep ==
  TypeOK /\ CallInv /\ SubscriptionServed /\ [Next]_vars => SubscriptionServed'
<1> SUFFICES ASSUME TypeOK, CallInv, SubscriptionServed, [Next]_vars PROVE SubscriptionServed'
  OBVIOUS
<1> USE DEF TypeOK, CallInv, CallStates, WorkerStates, callVars, workerVars, SubscriptionServed, Pending, Served, Orphaned, Live
<1>1. CASE UNCHANGED vars
  BY <1>1 DEF vars
<1>2. ASSUME NEW a \in Actors, NEW q \in Queues, SubscribeBegin(a, q) PROVE SubscriptionServed'
  BY <1>2 DEF SubscribeBegin, CanCall, Step
<1>3. ASSUME NEW a \in Actors, SubscribeLock(a) PROVE SubscriptionServed'
  BY <1>3 DEF SubscribeLock, Acquire, Step
<1>4. ASSUME NEW a \in Actors, SubscribeInsert(a) PROVE SubscriptionServed'
  BY <1>4 DEF SubscribeInsert, Release, Step
<1>5. ASSUME NEW a \in Actors, SubscribeRefuse(a) PROVE SubscriptionServed'
  BY <1>5 DEF SubscribeRefuse, Release, Return, Step
<1>6. ASSUME NEW a \in Actors, NEW t \in Threads, SubscribeSpawn(a, t) PROVE SubscriptionServed'
  BY <1>6 DEF SubscribeSpawn, Step
<1>7. ASSUME NEW a \in Actors, SubscribeSpawnFails(a) PROVE SubscriptionServed'
  BY <1>7 DEF SubscribeSpawnFails, Return, Step
<1>8. ASSUME NEW a \in Actors, SubscribeStoreEnter(a) PROVE SubscriptionServed'
  BY <1>8 DEF SubscribeStoreEnter, Step
<1>9. ASSUME NEW a \in Actors, SubscribeStoreExit(a) PROVE SubscriptionServed'
  BY <1>9 DEF SubscribeStoreExit, Return, Step
<1>10. ASSUME NEW a \in Actors, NEW q \in Queues, UnsubscribeBegin(a, q) PROVE SubscriptionServed'
  BY <1>10 DEF UnsubscribeBegin, CanCall, Step
<1>11. ASSUME NEW a \in Actors, UnsubscribeLock(a) PROVE SubscriptionServed'
  BY <1>11 DEF UnsubscribeLock, Acquire, Step
<1>12. ASSUME NEW a \in Actors, UnsubscribeErase(a) PROVE SubscriptionServed'
  BY <1>12 DEF UnsubscribeErase, Step
<1>13. ASSUME NEW a \in Actors, UnsubscribeMiss(a) PROVE SubscriptionServed'
  BY <1>13 DEF UnsubscribeMiss, EndUnsubscribe, Release, Return, Step
<1>14. ASSUME NEW a \in Actors, UnsubscribeFind(a) PROVE SubscriptionServed'
  BY <1>14 DEF UnsubscribeFind, Step
<1>15. ASSUME NEW a \in Actors, UnsubscribeDetach(a) PROVE SubscriptionServed'
  BY <1>15 DEF UnsubscribeDetach, UseObject, Object, Step
<1>16. ASSUME NEW a \in Actors, UnsubscribeDelete(a) PROVE SubscriptionServed'
  BY <1>16 DEF UnsubscribeDelete, UseObject, Object, Step
<1>17. ASSUME NEW a \in Actors, UnsubscribeRemove(a) PROVE SubscriptionServed'
  BY <1>17 DEF UnsubscribeRemove, EndUnsubscribe, Release, Return, Step
<1>18. ASSUME NEW a \in Actors, UnsubscribeCrashes(a) PROVE SubscriptionServed'
  BY <1>18 DEF UnsubscribeCrashes, Object
<1>19. ASSUME NEW t \in Threads, consumer_thread(t) PROVE SubscriptionServed'
  BY <1>19, SMTT(30) DEF consumer_thread, WorkerLock, WorkerCheck, WorkerFetchFails, WorkerDeliver,
               WorkerReturn, WorkerStep, Acquire, Release
<1> QED
  BY <1>1, <1>2, <1>3, <1>4, <1>5, <1>6, <1>7, <1>8, <1>9, <1>10, <1>11, <1>12, <1>13, <1>14,
     <1>15, <1>16, <1>17, <1>18, <1>19
     DEF Next, SubscribeMSg, UnSubscribeMsg

LEMMA HandleStep ==
  TypeOK /\ CallInv /\ HandleInv /\ [Next]_vars => HandleInv'
<1> SUFFICES ASSUME TypeOK, CallInv, HandleInv, [Next]_vars PROVE HandleInv'
  OBVIOUS
<1> USE NoneIsNothing, NullIsNoThread
       DEF TypeOK, CallInv, CallStates, WorkerStates, callVars, workerVars, HandleInv, Born, Storing
<1>1. CASE UNCHANGED vars
  BY <1>1 DEF vars
<1>2. ASSUME NEW a \in Actors, NEW q \in Queues, SubscribeBegin(a, q) PROVE HandleInv'
  BY <1>2 DEF SubscribeBegin, CanCall, Step
<1>3. ASSUME NEW a \in Actors, SubscribeLock(a) PROVE HandleInv'
  BY <1>3 DEF SubscribeLock, Acquire, Step
<1>4. ASSUME NEW a \in Actors, SubscribeInsert(a) PROVE HandleInv'
  BY <1>4 DEF SubscribeInsert, Release, Step
<1>5. ASSUME NEW a \in Actors, SubscribeRefuse(a) PROVE HandleInv'
  BY <1>5 DEF SubscribeRefuse, Release, Return, Step
<1>6. ASSUME NEW a \in Actors, NEW t \in Threads, SubscribeSpawn(a, t) PROVE HandleInv'
  BY <1>6 DEF SubscribeSpawn, Step
<1>7. ASSUME NEW a \in Actors, SubscribeSpawnFails(a) PROVE HandleInv'
  BY <1>7 DEF SubscribeSpawnFails, Return, Step
<1>8. ASSUME NEW a \in Actors, SubscribeStoreEnter(a) PROVE HandleInv'
  BY <1>8 DEF SubscribeStoreEnter, EnterMap, Step
<1>9. ASSUME NEW a \in Actors, SubscribeStoreExit(a) PROVE HandleInv'
  BY <1>9 DEF SubscribeStoreExit, Return, Step
<1>10. ASSUME NEW a \in Actors, NEW q \in Queues, UnsubscribeBegin(a, q) PROVE HandleInv'
  BY <1>10 DEF UnsubscribeBegin, CanCall, Step
<1>11. ASSUME NEW a \in Actors, UnsubscribeLock(a) PROVE HandleInv'
  BY <1>11 DEF UnsubscribeLock, Acquire, Step
<1>12. ASSUME NEW a \in Actors, UnsubscribeErase(a) PROVE HandleInv'
  BY <1>12 DEF UnsubscribeErase, EnterMap, Step
<1>13. ASSUME NEW a \in Actors, UnsubscribeMiss(a) PROVE HandleInv'
  BY <1>13 DEF UnsubscribeMiss, EndUnsubscribe, Release, Return, Step
<1>14. ASSUME NEW a \in Actors, UnsubscribeFind(a) PROVE HandleInv'
  BY <1>14 DEF UnsubscribeFind, Step
<1>15. ASSUME NEW a \in Actors, UnsubscribeDetach(a) PROVE HandleInv'
  BY <1>15 DEF UnsubscribeDetach, UseObject, Object, Step
<1>16. ASSUME NEW a \in Actors, UnsubscribeDelete(a) PROVE HandleInv'
  BY <1>16 DEF UnsubscribeDelete, UseObject, Object, Step
<1>17. ASSUME NEW a \in Actors, UnsubscribeRemove(a) PROVE HandleInv'
  BY <1>17 DEF UnsubscribeRemove, EndUnsubscribe, Release, Return, Step
<1>18. ASSUME NEW a \in Actors, UnsubscribeCrashes(a) PROVE HandleInv'
  BY <1>18 DEF UnsubscribeCrashes, Object
<1>19. ASSUME NEW t \in Threads, consumer_thread(t) PROVE HandleInv'
  BY <1>19 DEF consumer_thread, WorkerLock, WorkerCheck, WorkerFetchFails, WorkerDeliver,
               WorkerReturn, WorkerStep, Acquire, Release
<1> QED
  BY <1>1, <1>2, <1>3, <1>4, <1>5, <1>6, <1>7, <1>8, <1>9, <1>10, <1>11, <1>12, <1>13, <1>14,
     <1>15, <1>16, <1>17, <1>18, <1>19
     DEF Next, SubscribeMSg, UnSubscribeMsg

LEMMA SoundMapStep ==
  TypeOK /\ CallInv /\ HandleInv /\ (race \/ SoundMapInv) /\ [Next]_vars => (race \/ SoundMapInv)'
<1> SUFFICES ASSUME TypeOK, CallInv, HandleInv, (race \/ SoundMapInv), [Next]_vars PROVE (race \/ SoundMapInv)'
  OBVIOUS
<1> USE NoneIsNothing, NullIsNoThread
       DEF TypeOK, CallInv, CallStates, WorkerStates, callVars, workerVars, HandleInv, Storing,
           SoundMapInv, Born, InMap, Deleting, InUse
<1>1. CASE UNCHANGED vars
  BY <1>1 DEF vars
<1>2. ASSUME NEW a \in Actors, NEW q \in Queues, SubscribeBegin(a, q) PROVE (race \/ SoundMapInv)'
  BY <1>2 DEF SubscribeBegin, CanCall, Step
<1>3. ASSUME NEW a \in Actors, SubscribeLock(a) PROVE (race \/ SoundMapInv)'
  BY <1>3 DEF SubscribeLock, Acquire, Step
<1>4. ASSUME NEW a \in Actors, SubscribeInsert(a) PROVE (race \/ SoundMapInv)'
  BY <1>4 DEF SubscribeInsert, Release, Step
<1>5. ASSUME NEW a \in Actors, SubscribeRefuse(a) PROVE (race \/ SoundMapInv)'
  BY <1>5 DEF SubscribeRefuse, Release, Return, Step
<1>6. ASSUME NEW a \in Actors, NEW t \in Threads, SubscribeSpawn(a, t) PROVE (race \/ SoundMapInv)'
  <2> USE <1>6 DEF SubscribeSpawn, Step
  <2>1. \A u \in Threads \ {t} : handle'[u] = handle[u]
    OBVIOUS
  <2>2. \A b \in Actors \ {a} : cpc'[b] = cpc[b]
    OBVIOUS
  <2>3. cpc[a] = "sSpawn" /\ cpc'[a] = "sStore"
    OBVIOUS
  <2>4. ASSUME NEW q \in Queues, mpThread[q] = t PROVE FALSE
    <3>1. handle[t] # "none"
      BY <2>4
    <3>2. Born(t)
      BY <3>1
    <3> QED
      BY <3>2
  <2>5. cq' = cq /\ mpThread' = mpThread /\ race' = race /\ crashed' = crashed
    OBVIOUS
  <2>6. \A b \in Actors : Deleting(b) => cq[b] \in Queues
    OBVIOUS
  <2> QED
    BY <2>1, <2>2, <2>3, <2>4, <2>5, <2>6
<1>7. ASSUME NEW a \in Actors, SubscribeSpawnFails(a) PROVE (race \/ SoundMapInv)'
  BY <1>7 DEF SubscribeSpawnFails, Return, Step
<1>8. ASSUME NEW a \in Actors, SubscribeStoreEnter(a) PROVE (race \/ SoundMapInv)'
  <2> USE <1>8 DEF SubscribeStoreEnter, EnterMap, Step
  <2>1. CASE race'
    BY <2>1
  <2>2. CASE ~race'
    <3>1. ~race /\ ~crashed /\ cq[a] \in Queues /\ \A b \in Actors \ {a} : ~InMap(b)
      BY <2>2
    <3>2. \A b \in Actors \ {a} : cpc'[b] = cpc[b]
      OBVIOUS
    <3>3. cpc'[a] = "sStoring" /\ cq' = cq /\ handle' = handle
      OBVIOUS
    <3>4. \A q \in Queues \ {cq[a]} : mpThread'[q] = mpThread[q]
      OBVIOUS
    <3>5. mpThread[cq[a]] \in Threads \cup {None} /\ \A q \in Queues : mpThread[q] # Null
      BY <3>1
    <3>6. mpThread'[cq[a]] = IF mpThread[cq[a]] = None THEN Null ELSE mpThread[cq[a]]
      BY <2>2
    <3>7. \A q \in Queues : mpThread[q] \in Threads => handle[mpThread[q]] = "held"
      BY <3>1
    <3> QED
      BY <3>1, <3>2, <3>3, <3>4, <3>5, <3>6, <3>7
  <2> QED
    BY <2>1, <2>2
<1>9. ASSUME NEW a \in Actors, SubscribeStoreExit(a) PROVE (race \/ SoundMapInv)'
  <2> USE <1>9 DEF SubscribeStoreExit, Return, Step
  <2>1. CASE race
    BY <2>1
  <2>2. CASE ~race
    <3>1. ~crashed /\ cq[a] \in Queues /\ \A b \in Actors \ {a} : ~InMap(b)
      BY <2>2
    <3>2. \A b \in Actors : ~InMap(b)'
      BY <3>1
    <3>3. handle' = handle /\ race' = race /\ crashed' = crashed
      OBVIOUS
    <3>4. mpThread'[cq[a]] = cth[a] /\ \A q \in Queues \ {cq[a]} : mpThread'[q] = mpThread[q]
      BY <2>2
    <3>5. cth[a] \in Threads /\ handle[cth[a]] = "held"
      OBVIOUS
    <3>6. \A q \in Queues \ {cq[a]} : mpThread[q] # Null
      BY <2>2, <3>1
    <3>7. \A q \in Queues : mpThread[q] \in Threads => handle[mpThread[q]] = "held"
      BY <2>2, <3>1
    <3> QED
      BY <3>1, <3>2, <3>3, <3>4, <3>5, <3>6, <3>7, SMTT(30)
  <2> QED
    BY <2>1, <2>2
<1>10. ASSUME NEW a \in Actors, NEW q \in Queues, UnsubscribeBegin(a, q) PROVE (race \/ SoundMapInv)'
  BY <1>10 DEF UnsubscribeBegin, CanCall, Step
<1>11. ASSUME NEW a \in Actors, UnsubscribeLock(a) PROVE (race \/ SoundMapInv)'
  BY <1>11 DEF UnsubscribeLock, Acquire, Step
<1>12. ASSUME NEW a \in Actors, UnsubscribeErase(a) PROVE (race \/ SoundMapInv)'
  <2> USE <1>12 DEF UnsubscribeErase, EnterMap, Step
  <2>1. CASE race'
    BY <2>1
  <2>2. CASE ~race'
    <3>1. ~race /\ ~crashed /\ \A b \in Actors \ {a} : ~InMap(b)
      BY <2>2
    <3>2. \A b \in Actors \ {a} : cpc'[b] = cpc[b]
      OBVIOUS
    <3>3. cpc'[a] = "uMap" /\ cq' = cq /\ handle' = handle /\ mpThread' = mpThread
      OBVIOUS
    <3>4. \A q \in Queues : mpThread[q] # Null
      BY <3>1
    <3>5. \A q \in Queues : mpThread[q] \in Threads => handle[mpThread[q]] = "held"
      BY <3>1
    <3> QED
      BY <3>1, <3>2, <3>3, <3>4, <3>5
  <2> QED
    BY <2>1, <2>2
<1>13. ASSUME NEW a \in Actors, UnsubscribeMiss(a) PROVE (race \/ SoundMapInv)'
  BY <1>13 DEF UnsubscribeMiss, EndUnsubscribe, Release, Return, Step
<1>14. ASSUME NEW a \in Actors, UnsubscribeFind(a) PROVE (race \/ SoundMapInv)'
  BY <1>14 DEF UnsubscribeFind, Step
<1>15. ASSUME NEW a \in Actors, UnsubscribeDetach(a) PROVE (race \/ SoundMapInv)'
  BY <1>15 DEF UnsubscribeDetach, UseObject, Object, Step
<1>16. ASSUME NEW a \in Actors, UnsubscribeDelete(a) PROVE (race \/ SoundMapInv)'
  BY <1>16 DEF UnsubscribeDelete, UseObject, Object, Step
<1>17. ASSUME NEW a \in Actors, UnsubscribeRemove(a) PROVE (race \/ SoundMapInv)'
  BY <1>17, SMTT(30) DEF UnsubscribeRemove, EndUnsubscribe, Release, Return, Step
<1>18. ASSUME NEW a \in Actors, UnsubscribeCrashes(a) PROVE (race \/ SoundMapInv)'
  BY <1>18 DEF UnsubscribeCrashes, Object
<1>19. ASSUME NEW t \in Threads, consumer_thread(t) PROVE (race \/ SoundMapInv)'
  BY <1>19, SMTT(30) DEF consumer_thread, WorkerLock, WorkerCheck, WorkerFetchFails, WorkerDeliver,
               WorkerReturn, WorkerStep, Acquire, Release
<1> QED
  BY <1>1, <1>2, <1>3, <1>4, <1>5, <1>6, <1>7, <1>8, <1>9, <1>10, <1>11, <1>12, <1>13, <1>14,
     <1>15, <1>16, <1>17, <1>18, <1>19
     DEF Next, SubscribeMSg, UnSubscribeMsg

-----------------------------------------------------------------------------

IInv ==
  /\ TypeOK /\ CallInv /\ LockInv
  /\ EpochInv /\ OneWorkerPerEpoch
  /\ SubscriptionServed
  /\ HandleInv
  /\ race \/ SoundMapInv

LEMMA InitInv == Init => IInv
<1> SUFFICES ASSUME Init PROVE IInv
  OBVIOUS
<1>1. TypeOK /\ CallInv
  BY TypeInit
<1>2. LockInv
  BY NoneIsNothing DEF Init, LockInv, Inside
<1>3. EpochInv /\ OneWorkerPerEpoch
  BY DEF Init, EpochInv, Born, Spawning, OneWorkerPerEpoch
<1>4. SubscriptionServed
  BY DEF Init, SubscriptionServed
<1>5. HandleInv /\ SoundMapInv
  BY NoneIsNothing, NullIsNoThread DEF Init, HandleInv, Storing, SoundMapInv, InMap, Deleting
<1> QED
  BY <1>1, <1>2, <1>3, <1>4, <1>5 DEF IInv

\* The invariant holds in every reachable state of every instance.
THEOREM Invariance == Spec => []IInv
<1>1. IInv /\ [Next]_vars => IInv'
  BY TypeStep, LockStep, EpochStep, ServedStep, HandleStep, SoundMapStep DEF IInv
<1> QED
  BY InitInv, <1>1, PTL DEF Spec

\* Every variable keeps its type.
THEOREM TypeCorrect == Spec => []TypeOK
<1>1. IInv => TypeOK
  BY DEF IInv
<1> QED
  BY Invariance, <1>1, PTL

\* m_lock excludes: two actors are never both between lock() and unlock().
InsideLock(a) == Inside(a) \/ (a \in Threads /\ wpc[a] = "check")
MutualExclusion == \A a, b \in Actors : InsideLock(a) /\ InsideLock(b) => a = b

THEOREM LockExcludes == Spec => []MutualExclusion
<1>1. IInv => MutualExclusion
  BY DEF IInv, LockInv, MutualExclusion, InsideLock
<1> QED
  BY Invariance, <1>1, PTL

\* No actor waits for a mutex it owns, callbacks included.
THEOREM NeverSelfDeadlocked == Spec => []NoSelfDeadlock
<1>1. IInv => NoSelfDeadlock
  BY DEF IInv, TypeOK, CallInv, LockInv, Inside, NoSelfDeadlock
<1> QED
  BY Invariance, <1>1, PTL

\* One thread is created per epoch of a queue.
THEOREM OneWorker == Spec => []OneWorkerPerEpoch
<1>1. IInv => OneWorkerPerEpoch
  BY DEF IInv
<1> QED
  BY Invariance, <1>1, PTL

\* A subscribed queue is served, about to be, or its thread was not created.
THEOREM AlwaysServed == Spec => []SubscriptionServed
<1>1. IInv => SubscriptionServed
  BY DEF IInv
<1> QED
  BY Invariance, <1>1, PTL

\* While no two accesses of m_mpThread have overlapped, no misuse of a thread
\* object ends the process, and the map holds joinable ones.
THEOREM NeverDangling == Spec => []NoDanglingHandle
<1>1. IInv => NoDanglingHandle
  BY DEF IInv, HandleInv, SoundMapInv, NoDanglingHandle
<1> QED
  BY Invariance, <1>1, PTL

-----------------------------------------------------------------------------
(* The detailed specification implements the contract.                     *)

LEMMA ContractInit == Init => Contract!CInit
BY DEF Init, Contract!CInit, Grants, Worker, WorkerPhase

\* A step that leaves the calls at "sSpawn" as they are leaves the grants.
LEMMA GrantsFrame ==
  ASSUME \A b \in Actors : Spawning(b)' <=> Spawning(b),
         \A b \in Actors : Spawning(b) => cq'[b] = cq[b]
  PROVE  Grants' = Grants
BY DEF Grants, Spawning

\* Creating the thread, or failing to, takes the call's grant and no other.
LEMMA GrantsTaken ==
  ASSUME NEW a \in Actors, Spawning(a), ~Spawning(a)',
         \A b \in Actors \ {a} : (Spawning(b)' <=> Spawning(b)) /\ cq'[b] = cq[b]
  PROVE  <<a, cq[a]>> \in Grants /\ Grants' = Grants \ {<<a, cq[a]>>}
BY DEF Grants, Spawning

LEMMA WorkerFrame == UNCHANGED wpc => UNCHANGED Worker
BY DEF Worker, WorkerPhase

LEMMA WorkerMoves ==
  ASSUME NEW t \in Threads, NEW from, NEW to,
         wpc \in [Threads -> WorkerStates], to \in WorkerStates, wpc[t] = from,
         wpc' = [wpc EXCEPT ![t] = to]
  PROVE  /\ Worker' = [Worker EXCEPT ![t] = WorkerPhase(t)']
         /\ Worker[t] = WorkerPhase(t)
         /\ wpc'[t] = to
<1>1. wpc'[t] = to /\ \A u \in Threads \ {t} : wpc'[u] = wpc[u]
  OBVIOUS
<1>2. \A u \in Threads \ {t} : WorkerPhase(u)' = WorkerPhase(u)
  BY <1>1 DEF WorkerPhase
<1>3. Worker' = [u \in Threads |-> WorkerPhase(u)'] /\ Worker = [u \in Threads |-> WorkerPhase(u)]
  BY DEF Worker
<1> QED
  BY <1>1, <1>2, <1>3

LEMMA ContractStep == TypeOK /\ CallInv /\ [Next]_vars => [Contract!CNext]_(Contract!cvars)
<1> SUFFICES ASSUME TypeOK, CallInv, [Next]_vars PROVE [Contract!CNext]_(Contract!cvars)
  OBVIOUS
<1> USE DEF TypeOK, CallInv, CallStates, callVars, workerVars
<1>1. CASE UNCHANGED vars
  BY <1>1, GrantsFrame, WorkerFrame DEF vars, Contract!cvars, Spawning
<1>2. ASSUME NEW a \in Actors, NEW q \in Queues, SubscribeBegin(a, q) PROVE UNCHANGED Contract!cvars
  BY <1>2, GrantsFrame, WorkerFrame DEF SubscribeBegin, CanCall, Step, Contract!cvars, Spawning
<1>3. ASSUME NEW a \in Actors, SubscribeLock(a) PROVE UNCHANGED Contract!cvars
  BY <1>3, GrantsFrame, WorkerFrame DEF SubscribeLock, Step, Contract!cvars, Spawning
<1>4. ASSUME NEW a \in Actors, SubscribeInsert(a) PROVE cq[a] \in Queues /\ Contract!Subscribe(a, cq[a])
  <2>1. <<a, cq[a]>> \notin Grants
    BY <1>4 DEF SubscribeInsert, Step, Grants
  <2>2. Grants' = Grants \cup {<<a, cq[a]>>}
    BY <1>4 DEF SubscribeInsert, Step, Grants
  <2> QED
    BY <1>4, <2>1, <2>2, WorkerFrame DEF SubscribeInsert, Step, Contract!Subscribe
<1>5. ASSUME NEW a \in Actors, SubscribeRefuse(a) PROVE UNCHANGED Contract!cvars
  BY <1>5, GrantsFrame, WorkerFrame DEF SubscribeRefuse, Return, Step, Contract!cvars, Spawning
<1>6. ASSUME NEW a \in Actors, NEW t \in Threads, SubscribeSpawn(a, t)
      PROVE cq[a] \in Queues /\ Contract!Start(a, cq[a], t)
  <2>1. <<a, cq[a]>> \in Grants /\ Grants' = Grants \ {<<a, cq[a]>>}
    BY <1>6, GrantsTaken DEF SubscribeSpawn, Step, Spawning
  <2>2. Worker[t] = "unborn" /\ Worker' = [Worker EXCEPT ![t] = "idle"]
    BY <1>6, WorkerMoves DEF SubscribeSpawn, WorkerPhase, WorkerStates
  <2> QED
    BY <1>6, <2>1, <2>2 DEF SubscribeSpawn, Step, Contract!Start
<1>7. ASSUME NEW a \in Actors, SubscribeSpawnFails(a) PROVE cq[a] \in Queues /\ Contract!Forfeit(a, cq[a])
  <2>1. <<a, cq[a]>> \in Grants /\ Grants' = Grants \ {<<a, cq[a]>>}
    BY <1>7, GrantsTaken DEF SubscribeSpawnFails, Return, Step, Spawning
  <2> QED
    BY <1>7, <2>1, WorkerFrame DEF SubscribeSpawnFails, Return, Step, Contract!Forfeit
<1>8. ASSUME NEW a \in Actors, SubscribeStoreEnter(a) PROVE UNCHANGED Contract!cvars
  BY <1>8, GrantsFrame, WorkerFrame DEF SubscribeStoreEnter, Step, Contract!cvars, Spawning
<1>9. ASSUME NEW a \in Actors, SubscribeStoreExit(a) PROVE UNCHANGED Contract!cvars
  BY <1>9, GrantsFrame, WorkerFrame DEF SubscribeStoreExit, Return, Step, Contract!cvars, Spawning
<1>10. ASSUME NEW a \in Actors, NEW q \in Queues, UnsubscribeBegin(a, q) PROVE UNCHANGED Contract!cvars
  BY <1>10, GrantsFrame, WorkerFrame DEF UnsubscribeBegin, CanCall, Step, Contract!cvars, Spawning
<1>11. ASSUME NEW a \in Actors, UnsubscribeLock(a) PROVE UNCHANGED Contract!cvars
  BY <1>11, GrantsFrame, WorkerFrame DEF UnsubscribeLock, Step, Contract!cvars, Spawning
<1>12. ASSUME NEW a \in Actors, UnsubscribeErase(a) PROVE cq[a] \in Queues /\ Contract!Unsubscribe(cq[a])
  BY <1>12, GrantsFrame, WorkerFrame DEF UnsubscribeErase, Step, Contract!Unsubscribe, Spawning
<1>13. ASSUME NEW a \in Actors, UnsubscribeMiss(a) PROVE UNCHANGED Contract!cvars
  BY <1>13, GrantsFrame, WorkerFrame
     DEF UnsubscribeMiss, EndUnsubscribe, Return, Step, Contract!cvars, Spawning
<1>14. ASSUME NEW a \in Actors, UnsubscribeFind(a) PROVE UNCHANGED Contract!cvars
  BY <1>14, GrantsFrame, WorkerFrame
     DEF UnsubscribeFind, Step, Contract!cvars, Spawning
<1>15. ASSUME NEW a \in Actors, UnsubscribeDetach(a) PROVE UNCHANGED Contract!cvars
  BY <1>15, GrantsFrame, WorkerFrame
     DEF UnsubscribeDetach, UseObject, Object, Step, Contract!cvars, Spawning
<1>16. ASSUME NEW a \in Actors, UnsubscribeDelete(a) PROVE UNCHANGED Contract!cvars
  BY <1>16, GrantsFrame, WorkerFrame
     DEF UnsubscribeDelete, UseObject, Object, Step, Contract!cvars, Spawning
<1>17. ASSUME NEW a \in Actors, UnsubscribeRemove(a) PROVE UNCHANGED Contract!cvars
  BY <1>17, GrantsFrame, WorkerFrame
     DEF UnsubscribeRemove, EndUnsubscribe, Return, Step, Contract!cvars, Spawning
<1>18. ASSUME NEW a \in Actors, UnsubscribeCrashes(a) PROVE UNCHANGED Contract!cvars
  BY <1>18, GrantsFrame, WorkerFrame
     DEF UnsubscribeCrashes, Object, Contract!cvars, Spawning
<1>19. ASSUME NEW t \in Threads, consumer_thread(t)
       PROVE \/ Contract!Arm(t) \/ Contract!Disarm(t) \/ Contract!Deliver(t)
             \/ Contract!Finish(t) \/ Contract!Stop(t) \/ UNCHANGED Contract!cvars
  <2>1. UNCHANGED Grants
    BY <1>19, GrantsFrame
       DEF consumer_thread, WorkerLock, WorkerCheck, WorkerFetchFails, WorkerDeliver, WorkerReturn,
           WorkerStep, Spawning
  <2>2. CASE WorkerLock(t)
    <3>1. Worker' = Worker
      BY <2>2, WorkerMoves DEF WorkerLock, WorkerStep, WorkerStates, WorkerPhase, Worker
    <3> QED
      BY <2>1, <2>2, <3>1 DEF WorkerLock, WorkerStep, Contract!cvars
  <2>3. CASE WorkerCheck(t)
    BY <2>1, <2>3, WorkerMoves
       DEF WorkerCheck, WorkerStep, WorkerStates, WorkerPhase, Contract!Arm, Contract!Stop, Contract!Move
  <2>4. CASE WorkerFetchFails(t)
    BY <2>1, <2>4, WorkerMoves
       DEF WorkerFetchFails, WorkerStep, WorkerStates, WorkerPhase, Contract!Disarm, Contract!Move
  <2>5. CASE WorkerDeliver(t)
    BY <2>1, <2>5, WorkerMoves
       DEF WorkerDeliver, WorkerStep, WorkerStates, WorkerPhase, Contract!Deliver, Contract!Move
  <2>6. CASE WorkerReturn(t)
    BY <2>1, <2>6, WorkerMoves
       DEF WorkerReturn, WorkerStep, WorkerStates, WorkerPhase, Contract!Finish, Contract!Move
  <2> QED
    BY <1>19, <2>2, <2>3, <2>4, <2>5, <2>6 DEF consumer_thread
<1> QED
  BY <1>1, <1>2, <1>3, <1>4, <1>5, <1>6, <1>7, <1>8, <1>9, <1>10, <1>11, <1>12, <1>13, <1>14,
     <1>15, <1>16, <1>17, <1>18, <1>19
     DEF Next, SubscribeMSg, UnSubscribeMsg, Contract!CNext

\* Every behaviour of the two calls and of the consumer threads is one of the
\* contract's: at most one worker per subscription, at most one delivery by a
\* worker after its queue was removed.
THEOREM Refinement == Spec => ImplementsContract
<1>1. IInv => TypeOK /\ CallInv
  BY DEF IInv
<1> QED
  BY Invariance, <1>1, ContractInit, ContractStep, PTL DEF Spec, ImplementsContract, Contract!CSafety
-----------------------------------------------------------------------------
(* One caller.                                                             *)

SingleCaller == \A a, b \in Callers : a = b

Creating(a) == cpc[a] \in {"sSpawn", "sStore", "sStoring"}

\* Only the caller is ever in a call, so accesses of the map never overlap.
CallerInv ==
  /\ \A a \in Actors : cpc[a] # "idle" => a \in Callers
  /\ race = FALSE

\* A queue whose thread was not created has none in the map.
OrphanInv ==
  /\ \A q \in Queues, n \in Nat : <<q, n>> \in orphans => n <= epoch[q]
  /\ \A q \in Queues : Orphaned(q) => q \in stSubscribe /\ mpThread[q] = None

\* No other call falls between the insertion and the store of a call.
CreatingInv ==
  /\ \A a \in Actors : Creating(a) =>
       /\ cq[a] \in stSubscribe
       /\ mpThread[cq[a]] \notin Threads
       /\ ~Orphaned(cq[a])
  /\ \A a \in Actors : Spawning(a) => cgen[a] = epoch[cq[a]]

Removing(a) == cpc[a] = "uMap" \/ Deleting(a)

\* The map has the thread of a subscribed queue from the store of SubscribeMSg
\* to the removal of UnSubscribeMsg.
MapInv ==
  /\ \A q \in Queues : mpThread[q] # None =>
       q \in stSubscribe \/ \E a \in Actors : Removing(a) /\ cq[a] = q
  /\ \A q \in stSubscribe :
       mpThread[q] # None \/ Orphaned(q) \/ \E a \in Actors : Creating(a) /\ cq[a] = q
  /\ \A a \in Actors : Removing(a) => cq[a] \notin stSubscribe

\* A thread object that was not detached is in the map or on its way to it.
KeptInv ==
  \A t \in Threads : handle[t] = "held" =>
    /\ wq[t] \in Queues
    /\ mpThread[wq[t]] = t \/ \E a \in Actors : Storing(a) /\ cth[a] = t

SerialInv == CallerInv /\ OrphanInv /\ CreatingInv /\ MapInv /\ KeptInv

\* While the caller is in a call, every other actor is idle.
LEMMA OthersIdle ==
  ASSUME SingleCaller, CallerInv, NEW a \in Actors, cpc[a] # "idle"
  PROVE  \A b \in Actors \ {a} : cpc[b] = "idle"
BY DEF SingleCaller, CallerInv

LEMMA SerialStep ==
  SingleCaller /\ IInv /\ SerialInv /\ [Next]_vars => SerialInv'
<1> SUFFICES ASSUME SingleCaller, IInv, SerialInv, [Next]_vars PROVE SerialInv'
  OBVIOUS
<1>0. None \notin Threads /\ Null \notin Threads \cup {None}
  BY NoneIsNothing, NullIsNoThread
<1> USE <1>0
        DEF IInv, TypeOK, CallInv, CallStates, WorkerStates, callVars, workerVars,
            HandleInv, SoundMapInv, Storing, Born, SerialInv, CallerInv, OrphanInv,
            CreatingInv, MapInv, KeptInv, Creating, Removing, Deleting, Spawning, Orphaned
<1>1. CASE UNCHANGED vars
  BY <1>1 DEF vars
<1>2. ASSUME NEW a \in Actors, NEW q \in Queues, SubscribeBegin(a, q) PROVE SerialInv'
  BY <1>2 DEF SubscribeBegin, CanCall, Step, SingleCaller
<1>3. ASSUME NEW a \in Actors, SubscribeLock(a) PROVE SerialInv'
  BY <1>3, OthersIdle DEF SubscribeLock, Acquire, Step
<1>4. ASSUME NEW a \in Actors, SubscribeInsert(a) PROVE SerialInv'
  <2> USE <1>4 DEF SubscribeInsert, Release, Step
  <2>1. \A b \in Actors \ {a} : cpc[b] = "idle"
    BY OthersIdle
  <2>2. CallerInv'
    OBVIOUS
  <2>3. OrphanInv'
    OBVIOUS
  <2>4. CreatingInv'
    <3>1. cq[a] \in Queues /\ cq[a] \notin stSubscribe /\ stSubscribe' = stSubscribe \cup {cq[a]}
      OBVIOUS
    <3>2. mpThread[cq[a]] = None
      BY <2>1, <3>1
    <3>3. ~Orphaned(cq[a])
      BY <3>1
    <3>4. /\ \A b \in Actors : Creating(b)' => b = a
          /\ \A b \in Actors : Spawning(b)' => b = a
      BY <2>1
    <3>5. /\ cq' = cq /\ mpThread' = mpThread /\ epoch' = epoch /\ orphans' = orphans
          /\ cgen'[a] = epoch[cq[a]]
      OBVIOUS
    <3> QED
      BY <3>1, <3>2, <3>3, <3>4, <3>5
  <2>5. MapInv'
    <3>1. cpc'[a] = "sSpawn" /\ cq'[a] = cq[a]
      OBVIOUS
    <3>2. ASSUME NEW q \in Queues, mpThread[q] # None PROVE q \in stSubscribe
      BY <2>1, <3>2
    <3>3. ASSUME NEW q \in stSubscribe PROVE mpThread[q] # None \/ Orphaned(q)
      BY <2>1, <3>3
    <3>4. \A b \in Actors : ~Removing(b)'
      BY <2>1
    <3> QED
      BY <3>1, <3>2, <3>3, <3>4
  <2>6. KeptInv'
    BY <2>1
  <2> QED
    BY <2>2, <2>3, <2>4, <2>5, <2>6 DEF SerialInv
<1>5. ASSUME NEW a \in Actors, SubscribeRefuse(a) PROVE SerialInv'
  <2> USE <1>5 DEF SubscribeRefuse, Release, Return, Step
  <2>1. \A b \in Actors \ {a} : cpc[b] = "idle"
    BY OthersIdle
  <2>2. CallerInv'
    OBVIOUS
  <2>3. OrphanInv'
    OBVIOUS
  <2>4. CreatingInv'
    BY <2>1
  <2>5. MapInv'
    BY <2>1
  <2>6. KeptInv'
    BY <2>1
  <2> QED
    BY <2>2, <2>3, <2>4, <2>5, <2>6 DEF SerialInv
<1>6. ASSUME NEW a \in Actors, NEW t \in Threads, SubscribeSpawn(a, t) PROVE SerialInv'
  <2> USE <1>6 DEF SubscribeSpawn, Step
  <2>1. \A b \in Actors \ {a} : cpc[b] = "idle"
    BY OthersIdle
  <2>2. CallerInv'
    BY <2>1 DEF InMap
  <2>3. OrphanInv'
    BY <2>1
  <2>4. CreatingInv'
    BY <2>1
  <2>5. MapInv'
    BY <2>1
  <2>6. KeptInv'
    BY <2>1
  <2> QED
    BY <2>2, <2>3, <2>4, <2>5, <2>6 DEF SerialInv
<1>7. ASSUME NEW a \in Actors, SubscribeSpawnFails(a) PROVE SerialInv'
  <2> USE <1>7 DEF SubscribeSpawnFails, Return, Step
  <2>1. \A b \in Actors \ {a} : cpc[b] = "idle"
    BY OthersIdle
  <2>2. CallerInv'
    OBVIOUS
  <2>3. OrphanInv'
    BY <2>1
  <2>4. CreatingInv'
    BY <2>1
  <2>5. MapInv'
    <3>1. <<cq[a], epoch[cq[a]]>> \in orphans'
      OBVIOUS
    <3>2. ASSUME NEW q \in Queues, mpThread[q] # None PROVE q \in stSubscribe
      BY <2>1, <3>2
    <3>3. ASSUME NEW q \in stSubscribe, q # cq[a] PROVE mpThread[q] # None \/ Orphaned(q)
      BY <2>1, <3>3
    <3> QED
      BY <3>1, <3>2, <3>3
  <2>6. KeptInv'
    BY <2>1
  <2> QED
    BY <2>2, <2>3, <2>4, <2>5, <2>6 DEF SerialInv
<1>8. ASSUME NEW a \in Actors, SubscribeStoreEnter(a) PROVE SerialInv'
  <2> USE <1>8 DEF SubscribeStoreEnter, EnterMap, Step
  <2>1. \A b \in Actors \ {a} : cpc[b] = "idle"
    BY OthersIdle
  <2>2. CallerInv'
    BY <2>1 DEF InMap
  <2>3. OrphanInv'
    BY <2>1
  <2>4. CreatingInv'
    <3>1. mpThread[cq[a]] \notin Threads
      OBVIOUS
    <3>2. mpThread'[cq[a]] \notin Threads
      BY <3>1
    <3>3. cq[a] \in stSubscribe /\ ~Orphaned(cq[a]) /\ stSubscribe' = stSubscribe /\ cq' = cq
      OBVIOUS
    <3>4. epoch' = epoch /\ orphans' = orphans /\ \A b \in Actors \ {a} : cpc'[b] = "idle"
      BY <2>1
    <3>5. cpc'[a] = "sStoring"
      OBVIOUS
    <3> QED
      BY <3>2, <3>3, <3>4, <3>5
  <2>5. MapInv'
    <3>1. cq[a] \in stSubscribe /\ stSubscribe' = stSubscribe /\ epoch' = epoch /\ orphans' = orphans
      OBVIOUS
    <3>2. \A q \in Queues \ {cq[a]} : mpThread'[q] = mpThread[q]
      OBVIOUS
    <3>3. cpc'[a] = "sStoring" /\ cq' = cq /\ \A b \in Actors \ {a} : cpc'[b] = "idle"
      BY <2>1
    <3>4. ASSUME NEW q \in Queues, mpThread[q] # None PROVE q \in stSubscribe
      BY <2>1, <3>4
    <3>5. ASSUME NEW q \in stSubscribe, q # cq[a] PROVE mpThread[q] # None \/ Orphaned(q)
      BY <2>1, <3>5
    <3> QED
      BY <3>1, <3>2, <3>3, <3>4, <3>5
  <2>6. KeptInv'
    BY <2>1
  <2> QED
    BY <2>2, <2>3, <2>4, <2>5, <2>6 DEF SerialInv
<1>9. ASSUME NEW a \in Actors, SubscribeStoreExit(a) PROVE SerialInv'
  <2> USE <1>9 DEF SubscribeStoreExit, Return, Step
  <2>1. \A b \in Actors \ {a} : cpc[b] = "idle"
    BY OthersIdle
  <2>2. CallerInv'
    BY <2>1 DEF InMap
  <2>3. OrphanInv'
    <3>1. ~Orphaned(cq[a])
      OBVIOUS
    <3>2. \A q \in Queues \ {cq[a]} : mpThread'[q] = mpThread[q]
      OBVIOUS
    <3> QED
      BY <3>1, <3>2
  <2>4. CreatingInv'
    BY <2>1
  <2>5. mpThread' = [mpThread EXCEPT ![cq[a]] = cth[a]] /\ mpThread'[cq[a]] = cth[a]
    <3>1. ~race /\ mpThread[cq[a]] # None
      OBVIOUS
    <3>2. cq[a] \in Queues /\ mpThread \in [Queues -> Threads \cup {None, Null}]
      OBVIOUS
    <3> HIDE DEF IInv, SerialInv
    <3> QED
      BY <3>1, <3>2
  <2>6. MapInv'
    <3>1. ASSUME NEW q \in Queues, mpThread[q] # None PROVE q \in stSubscribe
      BY <2>1, <3>1
    <3>2. ASSUME NEW q \in stSubscribe, q # cq[a] PROVE mpThread[q] # None \/ Orphaned(q)
      BY <2>1, <3>2
    <3>3. cq[a] \in stSubscribe /\ cth[a] \in Threads
      OBVIOUS
    <3> QED
      BY <2>5, <3>1, <3>2, <3>3
  <2>7. KeptInv'
    <3>1. ASSUME NEW t \in Threads, handle[t] = "held", t # cth[a]
          PROVE  wq[t] \in Queues /\ mpThread[wq[t]] = t /\ wq[t] # cq[a]
      <4>1. mpThread[cq[a]] \notin Threads
        OBVIOUS
      <4>2. wq[t] \in Queues /\ mpThread[wq[t]] = t
        BY <2>1, <3>1
      <4> QED
        BY <4>1, <4>2
    <3>2. wq[cth[a]] = cq[a]
      OBVIOUS
    <3> QED
      BY <2>5, <3>1, <3>2
  <2> QED
    BY <2>2, <2>3, <2>4, <2>6, <2>7 DEF SerialInv
<1>10. ASSUME NEW a \in Actors, NEW q \in Queues, UnsubscribeBegin(a, q) PROVE SerialInv'
  BY <1>10 DEF UnsubscribeBegin, CanCall, Step, SingleCaller
<1>11. ASSUME NEW a \in Actors, UnsubscribeLock(a) PROVE SerialInv'
  BY <1>11, OthersIdle DEF UnsubscribeLock, Acquire, Step
<1>12. ASSUME NEW a \in Actors, UnsubscribeErase(a) PROVE SerialInv'
  <2> USE <1>12 DEF UnsubscribeErase, EnterMap, Step
  <2>1. \A b \in Actors \ {a} : cpc[b] = "idle"
    BY OthersIdle
  <2>2. CallerInv'
    BY <2>1 DEF InMap
  <2>3. OrphanInv'
    BY <2>1
  <2>4. CreatingInv'
    BY <2>1
  <2>5. MapInv'
    BY <2>1
  <2>6. KeptInv'
    BY <2>1
  <2> QED
    BY <2>2, <2>3, <2>4, <2>5, <2>6 DEF SerialInv
<1>13. ASSUME NEW a \in Actors, UnsubscribeMiss(a) PROVE SerialInv'
  <2> USE <1>13 DEF UnsubscribeMiss, EndUnsubscribe, Release, Return, Step
  <2>1. \A b \in Actors \ {a} : cpc[b] = "idle"
    BY OthersIdle
  <2>2. CallerInv'
    BY <2>1 DEF InMap
  <2>3. OrphanInv'
    BY <2>1
  <2>4. CreatingInv'
    BY <2>1
  <2>5. MapInv'
    BY <2>1
  <2>6. KeptInv'
    BY <2>1
  <2> QED
    BY <2>2, <2>3, <2>4, <2>5, <2>6 DEF SerialInv
<1>14. ASSUME NEW a \in Actors, UnsubscribeFind(a) PROVE SerialInv'
  <2> USE <1>14 DEF UnsubscribeFind, Step
  <2>1. \A b \in Actors \ {a} : cpc[b] = "idle"
    BY OthersIdle
  <2>2. CallerInv'
    BY <2>1 DEF InMap
  <2>3. OrphanInv'
    BY <2>1
  <2>4. CreatingInv'
    BY <2>1
  <2>5. MapInv'
    BY <2>1
  <2>6. KeptInv'
    BY <2>1
  <2> QED
    BY <2>2, <2>3, <2>4, <2>5, <2>6 DEF SerialInv
<1>15. ASSUME NEW a \in Actors, UnsubscribeDetach(a) PROVE SerialInv'
  <2> USE <1>15 DEF UnsubscribeDetach, UseObject, Object, Step
  <2>1. \A b \in Actors \ {a} : cpc[b] = "idle"
    BY OthersIdle
  <2>2. CallerInv'
    BY <2>1 DEF InMap
  <2>3. OrphanInv'
    BY <2>1
  <2>4. CreatingInv'
    BY <2>1
  <2>5. MapInv'
    BY <2>1
  <2>6. KeptInv'
    BY <2>1
  <2> QED
    BY <2>2, <2>3, <2>4, <2>5, <2>6 DEF SerialInv
<1>16. ASSUME NEW a \in Actors, UnsubscribeDelete(a) PROVE SerialInv'
  <2> USE <1>16 DEF UnsubscribeDelete, UseObject, Object, Step
  <2>1. \A b \in Actors \ {a} : cpc[b] = "idle"
    BY OthersIdle
  <2>2. CallerInv'
    BY <2>1 DEF InMap
  <2>3. OrphanInv'
    BY <2>1
  <2>4. CreatingInv'
    BY <2>1
  <2>5. MapInv'
    BY <2>1
  <2>6. KeptInv'
    BY <2>1
  <2> QED
    BY <2>2, <2>3, <2>4, <2>5, <2>6 DEF SerialInv
<1>17. ASSUME NEW a \in Actors, UnsubscribeRemove(a) PROVE SerialInv'
  <2> USE <1>17 DEF UnsubscribeRemove, EndUnsubscribe, Release, Return, Step
  <2>1. \A b \in Actors \ {a} : cpc[b] = "idle"
    BY OthersIdle
  <2>2. CallerInv'
    BY <2>1 DEF InMap
  <2>3. OrphanInv'
    BY <2>1
  <2>4. CreatingInv'
    BY <2>1
  <2>5. mpThread'[cq[a]] = None /\ \A q \in Queues \ {cq[a]} : mpThread'[q] = mpThread[q]
    OBVIOUS
  <2>6. MapInv'
    <3>1. ASSUME NEW q \in Queues, q # cq[a], mpThread[q] # None PROVE q \in stSubscribe
      BY <2>1, <3>1, SMTT(30)
    <3>2. ASSUME NEW q \in stSubscribe PROVE mpThread[q] # None \/ Orphaned(q)
      BY <2>1, <3>2
    <3>3. cq[a] \notin stSubscribe /\ stSubscribe' = stSubscribe /\ epoch' = epoch /\ orphans' = orphans
      OBVIOUS
    <3>4. \A b \in Actors : cpc'[b] = "idle"
      BY <2>1
    <3>5. ASSUME NEW q \in Queues, mpThread'[q] # None PROVE q \in stSubscribe
      <4>1. q # cq[a]
        BY <2>5, <3>5
      <4>2. mpThread[q] # None
        BY <2>5, <3>5, <4>1
      <4> QED
        BY <3>1, <4>1, <4>2
    <3>6. ASSUME NEW q \in stSubscribe PROVE mpThread'[q] # None \/ <<q, epoch[q]>> \in orphans
      <4>1. q \in Queues \ {cq[a]}
        BY <3>3
      <4>2. mpThread'[q] = mpThread[q]
        BY <4>1, <2>5
      <4> QED
        BY <3>2, <4>2
    <3> QED
      BY <3>3, <3>4, <3>5, <3>6
  <2>7. KeptInv'
    <3>1. ASSUME NEW t \in Threads, handle[t] = "held" PROVE wq[t] \in Queues /\ mpThread[wq[t]] = t
      BY <2>1, <3>1
    <3>2. ASSUME NEW t \in Threads, handle'[t] = "held" PROVE handle[t] = "held" /\ wq[t] # cq[a]
      BY <3>1, <3>2
    <3>3. wq' = wq /\ \A u \in Threads, r \in Queues \ {cq[a]} : mpThread[r] = u => mpThread'[r] = u
      BY <2>5
    <3> QED
      BY <3>1, <3>2, <3>3
  <2> QED
    BY <2>2, <2>3, <2>4, <2>6, <2>7 DEF SerialInv
<1>18. ASSUME NEW a \in Actors, UnsubscribeCrashes(a) PROVE SerialInv'
  <2> USE <1>18 DEF UnsubscribeCrashes, Object
  <2>1. ~race /\ ~crashed
    OBVIOUS
  <2>2. ~InUse(cq[a]) \/ cpc[a] = "uDelete"
    BY <2>1 DEF InUse, InMap
  <2> QED
    BY <2>1, <2>2
<1>19. ASSUME NEW t \in Threads, consumer_thread(t) PROVE SerialInv'
  <2> USE <1>19 DEF consumer_thread, WorkerLock, WorkerCheck, WorkerFetchFails,
    WorkerDeliver, WorkerReturn, WorkerStep, Acquire, Release
  <2>1. UNCHANGED <<stSubscribe, mpThread, race, epoch, orphans, callVars, wq, wgen, handle>>
    OBVIOUS
  <2> QED
    BY <2>1
<1> QED
  BY <1>1, <1>2, <1>3, <1>4, <1>5, <1>6, <1>7, <1>8, <1>9, <1>10, <1>11, <1>12, <1>13, <1>14,
     <1>15, <1>16, <1>17, <1>18, <1>19
     DEF Next, SubscribeMSg, UnSubscribeMsg

\* When only one actor calls the library, no misuse of a thread object ends the
\* process, the map and the set agree between calls and no object is lost.
THEOREM SerialMapAgrees == ASSUME SingleCaller PROVE Spec => []MapAgrees
<1>1. Init => SerialInv
  BY NoneIsNothing
     DEF Init, SerialInv, CallerInv, OrphanInv, CreatingInv, MapInv, KeptInv, Creating, Removing,
         Deleting, Spawning, Storing, Orphaned
<1>2. IInv /\ SerialInv /\ [Next]_vars => SerialInv'
  BY SerialStep
<1>3. IInv /\ SerialInv => MapAgrees
  BY DEF IInv, TypeOK, SoundMapInv, CallerInv, SerialInv, OrphanInv, MapInv, KeptInv, MapAgrees, Quiescent, Creating,
     Removing, Deleting, Storing
<1> QED
  BY Invariance, <1>1, <1>2, <1>3, PTL DEF Spec
=============================================================================
