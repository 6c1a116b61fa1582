------------------------- MODULE SubscriptionManager -------------------------
(***************************************************************************)
(* CRabbitMq (RabbitMq.cpp): SubscribeMSg, UnSubscribeMsg and the consumer *)
(* threads they start and dismiss, around m_lock, m_stSubscribe and        *)
(* m_mpThread.                                                             *)
(*                                                                         *)
(* An actor is a client thread of the library or one of its consumer       *)
(* threads; a consumer thread calls the library only from inside the user  *)
(* callback, which runs without m_lock.  m_lock protects every access but  *)
(* one: SubscribeMSg stores the thread in m_mpThread after it released the *)
(* lock.  Each step of UnSubscribeMsg on the entry of its queue (find,     *)
(* detach, delete, erase) is an action of its own, and so are the two of   *)
(* the store (operator[] makes a null entry, the assignment fills it).     *)
(*                                                                         *)
(* An access that overlaps another one is a data race: from then on a      *)
(* store or an erase may be lost and a find may miss, and UnSubscribeMsg   *)
(* may come upon a null pointer, a joinable object where it deletes, or a  *)
(* deleted one.  Each of these ends the process.                           *)
(***************************************************************************)
EXTENDS Naturals, FiniteSets

CONSTANTS
  Queues,        \* queue names
  Clients,       \* threads of the application
  Threads,       \* consumer threads that can be created
  Callers,       \* the actors that call the library
  None, Null,    \* no value or no map entry; the null pointer
  MaxSubscribes  \* bound on the SubscribeMSg calls of a behaviour

Actors == Clients \cup Threads

ASSUME CallersAreActors == Callers \subseteq Actors
ASSUME ClientsAreNotThreads == Clients \cap Threads = {}
ASSUME NoneIsNothing == None \notin Actors \cup Queues
ASSUME NullIsNoThread == Null \notin Threads \cup {None}
ASSUME MaxSubscribesIsNat == MaxSubscribes \in Nat

VARIABLES
  lock,         \* m_lock: the actor that owns it, or None
  stSubscribe,  \* m_stSubscribe
  mpThread,     \* m_mpThread: the thread object stored for a queue, Null, or None
  handle,       \* the std::thread object of a consumer thread
  wpc, wq,      \* where a consumer thread is, and its queue
  cpc, cq, cth, \* where an actor's call is, its queue, the thread it created
  race,         \* two actors were inside m_mpThread at once
  crashed,      \* the process has ended
  calls,        \* SubscribeMSg calls begun
  epoch,        \* history: how often a queue left m_stSubscribe
  cgen, wgen,   \* history: the epoch in which a call inserted its queue, ...
                \* ... and the one of the insertion a thread was created for
  orphans       \* history: <<queue, epoch>> whose thread was not created

callVars == <<cpc, cq, cth, cgen, calls>>
workerVars == <<wpc, wq, wgen, handle>>
vars == <<lock, stSubscribe, mpThread, race, crashed, epoch, orphans, callVars, workerVars>>

CallStates == {"idle", "sLock", "sFind", "sSpawn", "sStore", "sStoring",
               "uLock", "uErase", "uMap", "uDetach", "uDelete", "uRemove"}
WorkerStates == {"unborn", "lock", "check", "fetch", "callback", "done"}

TypeOK ==
  /\ lock \in Actors \cup {None}
  /\ stSubscribe \subseteq Queues
  /\ mpThread \in [Queues -> Threads \cup {None, Null}]
  /\ handle \in [Threads -> {"none", "held", "detached", "deleted"}]
  /\ wpc \in [Threads -> WorkerStates]
  /\ wq \in [Threads -> Queues \cup {None}]
  /\ cpc \in [Actors -> CallStates]
  /\ cq \in [Actors -> Queues \cup {None}]
  /\ cth \in [Actors -> Threads \cup {None}]
  /\ race \in BOOLEAN
  /\ crashed \in BOOLEAN
  /\ calls \in Nat
  /\ epoch \in [Queues -> Nat]
  /\ cgen \in [Actors -> Nat]
  /\ wgen \in [Threads -> Nat]
  /\ orphans \subseteq Queues \X Nat

Init ==
  /\ lock = None
  /\ stSubscribe = {}
  /\ mpThread = [q \in Queues |-> None]
  /\ handle = [t \in Threads |-> "none"]
  /\ wpc = [t \in Threads |-> "unborn"]
  /\ wq = [t \in Threads |-> None]
  /\ cpc = [a \in Actors |-> "idle"]
  /\ cq = [a \in Actors |-> None]
  /\ cth = [a \in Actors |-> None]
  /\ race = FALSE
  /\ crashed = FALSE
  /\ calls = 0
  /\ epoch = [q \in Queues |-> 0]
  /\ cgen = [a \in Actors |-> 0]
  /\ wgen = [t \in Threads |-> 0]
  /\ orphans = {}

-----------------------------------------------------------------------------
(* Calls of the library.                                                   *)

CanCall(a) ==
  /\ a \in Callers
  /\ cpc[a] = "idle"
  /\ a \in Threads => wpc[a] = "callback"

Step(a, from, to) ==
  /\ ~crashed
  /\ cpc[a] = from
  /\ cpc' = [cpc EXCEPT ![a] = to]
  /\ UNCHANGED crashed

\* The call returns and its locals die.
Return(a, from) ==
  /\ Step(a, from, "idle")
  /\ cq' = [cq EXCEPT ![a] = None]
  /\ cth' = [cth EXCEPT ![a] = None]
  /\ cgen' = [cgen EXCEPT ![a] = 0]

Acquire(a) == lock = None /\ lock' = a
Release(a) == lock' = None

InMap(a) == cpc[a] \in {"sStoring", "uMap", "uDetach", "uDelete", "uRemove"}

EnterMap(a) == race' = (race \/ \E b \in Actors \ {a} : InMap(b))

(* SubscribeMSg *)

SubscribeBegin(a, q) ==
  /\ CanCall(a)
  /\ calls < MaxSubscribes
  /\ calls' = calls + 1
  /\ Step(a, "idle", "sLock")
  /\ cq' = [cq EXCEPT ![a] = q]
  /\ UNCHANGED <<lock, stSubscribe, mpThread, race, epoch, orphans, cth, cgen, workerVars>>

SubscribeLock(a) ==
  /\ Step(a, "sLock", "sFind")
  /\ Acquire(a)
  /\ UNCHANGED <<stSubscribe, mpThread, race, epoch, orphans, cq, cth, cgen, calls, workerVars>>

\* Mutant: the outcome of the search is ignored.
SubscribeInsert_Always(a) ==
  /\ Step(a, "sFind", "sSpawn")
  /\ stSubscribe' = stSubscribe \cup {cq[a]}
  /\ cgen' = [cgen EXCEPT ![a] = epoch[cq[a]]]
  /\ Release(a)
  /\ UNCHANGED <<mpThread, race, epoch, orphans, cq, cth, calls, workerVars>>

SubscribeInsert(a) ==
  /\ cq[a] \notin stSubscribe
  /\ Step(a, "sFind", "sSpawn")
  /\ stSubscribe' = stSubscribe \cup {cq[a]}
  /\ cgen' = [cgen EXCEPT ![a] = epoch[cq[a]]]
  /\ Release(a)
  /\ UNCHANGED <<mpThread, race, epoch, orphans, cq, cth, calls, workerVars>>

SubscribeRefuse(a) ==
  /\ cq[a] \in stSubscribe
  /\ Return(a, "sFind")
  /\ Release(a)
  /\ UNCHANGED <<stSubscribe, mpThread, race, epoch, orphans, calls, workerVars>>

SubscribeSpawn(a, t) ==
  /\ Step(a, "sSpawn", "sStore")
  /\ wpc[t] = "unborn"
  /\ wpc' = [wpc EXCEPT ![t] = "lock"]
  /\ wq' = [wq EXCEPT ![t] = cq[a]]
  /\ wgen' = [wgen EXCEPT ![t] = cgen[a]]
  /\ handle' = [handle EXCEPT ![t] = "held"]
  /\ cth' = [cth EXCEPT ![a] = t]
  /\ UNCHANGED <<lock, stSubscribe, mpThread, race, epoch, orphans, cq, cgen, calls>>

\* Mutant: the null pointer that new returned is not looked at.
SubscribeSpawnFails_Stores(a) ==
  /\ Step(a, "sSpawn", "sStore")
  /\ cth' = [cth EXCEPT ![a] = Null]
  /\ UNCHANGED <<lock, stSubscribe, mpThread, race, epoch, orphans, cq, cgen, calls, workerVars>>

\* Mutant: take the queue out of the set and try the whole call again.
SubscribeSpawnFails_Retries(a) ==
  /\ Step(a, "sSpawn", "sLock")
  /\ stSubscribe' = stSubscribe \ {cq[a]}
  /\ UNCHANGED <<lock, mpThread, race, epoch, orphans, cq, cth, cgen, calls, workerVars>>

\* new returns 0, or the constructor of std::thread throws: the call returns
\* (or leaves by the exception) and the queue stays in the set.
SubscribeSpawnFails(a) ==
  /\ Return(a, "sSpawn")
  /\ orphans' = orphans \cup {<<cq[a], cgen[a]>>}
  /\ UNCHANGED <<lock, stSubscribe, mpThread, race, epoch, calls, workerVars>>

\* operator[] looks the queue up and makes a null entry if there is none.
SubscribeStoreEnter(a) ==
  /\ Step(a, "sStore", "sStoring")
  /\ EnterMap(a)
  /\ \/ mpThread' = [mpThread EXCEPT ![cq[a]] = IF @ = None THEN Null ELSE @]
     \/ race' /\ UNCHANGED mpThread
  /\ UNCHANGED <<lock, stSubscribe, epoch, orphans, cq, cth, cgen, calls, workerVars>>

\* The assignment; it is lost if the entry is gone.
SubscribeStoreExit(a) ==
  /\ Return(a, "sStoring")
  /\ \/ mpThread' = [mpThread EXCEPT ![cq[a]] = IF @ = None THEN None ELSE cth[a]]
     \/ race /\ UNCHANGED mpThread
  /\ UNCHANGED <<lock, stSubscribe, race, epoch, orphans, calls, workerVars>>

(* UnSubscribeMsg *)

UnsubscribeBegin(a, q) ==
  /\ CanCall(a)
  /\ Step(a, "idle", "uLock")
  /\ cq' = [cq EXCEPT ![a] = q]
  /\ UNCHANGED <<lock, stSubscribe, mpThread, race, epoch, orphans, cth, cgen, calls, workerVars>>

UnsubscribeLock(a) ==
  /\ Step(a, "uLock", "uErase")
  /\ Acquire(a)
  /\ UNCHANGED <<stSubscribe, mpThread, race, epoch, orphans, cq, cth, cgen, calls, workerVars>>

UnsubscribeErase(a) ==
  /\ Step(a, "uErase", "uMap")
  /\ stSubscribe' = stSubscribe \ {cq[a]}
  /\ epoch' = IF cq[a] \in stSubscribe THEN [epoch EXCEPT ![cq[a]] = @ + 1] ELSE epoch
  /\ EnterMap(a)
  /\ UNCHANGED <<lock, mpThread, orphans, cq, cth, cgen, calls, workerVars>>

EndUnsubscribe(a, from) ==
  /\ Return(a, from)
  /\ Release(a)
  /\ UNCHANGED <<stSubscribe, race, epoch, orphans, calls, workerVars>>

UnsubscribeMiss(a) ==
  /\ EndUnsubscribe(a, "uMap")
  /\ mpThread[cq[a]] = None \/ race
  /\ UNCHANGED mpThread

UnsubscribeFind(a) ==
  /\ Step(a, "uMap", "uDetach")
  /\ mpThread[cq[a]] # None
  /\ UNCHANGED <<lock, stSubscribe, mpThread, race, epoch, orphans, cq, cth, cgen, calls, workerVars>>

\* Each of detach and delete reads the entry (iter->second) for itself.
Object(a, state) == mpThread[cq[a]] \in Threads /\ handle[mpThread[cq[a]]] = state

UseObject(a, from, to, before, after) ==
  /\ Step(a, from, to)
  /\ Object(a, before)
  /\ handle' = [handle EXCEPT ![mpThread[cq[a]]] = after]
  /\ UNCHANGED <<lock, stSubscribe, mpThread, race, epoch, orphans, cq, cth, cgen, calls,
                 wpc, wq, wgen>>

\* Mutant: the entry is found and the thread object is not detached.
UnsubscribeDetach_Skips(a) ==
  /\ Step(a, "uDetach", "uDelete")
  /\ UNCHANGED <<lock, stSubscribe, mpThread, race, epoch, orphans, cq, cth, cgen, calls,
                 workerVars>>

UnsubscribeDetach(a) == UseObject(a, "uDetach", "uDelete", "held", "detached")

UnsubscribeDelete(a) == UseObject(a, "uDelete", "uRemove", "detached", "deleted")

\* Mutant: the entry of the deleted thread object stays in the map.
UnsubscribeRemove_KeepsEntry(a) ==
  /\ EndUnsubscribe(a, "uRemove")
  /\ UNCHANGED mpThread

\* Erases by name: whatever entry the queue has now.
UnsubscribeRemove(a) ==
  /\ EndUnsubscribe(a, "uRemove")
  /\ \/ mpThread' = [mpThread EXCEPT ![cq[a]] = None]
     \/ race /\ UNCHANGED mpThread

\* detach() of a null pointer or of a deleted object, delete of a joinable
\* object (its destructor calls std::terminate) or of a deleted one.
UnsubscribeCrashes(a) ==
  /\ ~crashed
  /\ \/ cpc[a] = "uDetach" /\ ~Object(a, "held")
     \/ cpc[a] = "uDelete" /\ ~Object(a, "detached")
  /\ crashed' = TRUE
  /\ UNCHANGED <<lock, stSubscribe, mpThread, race, epoch, orphans, callVars, workerVars>>

-----------------------------------------------------------------------------
(* consumer_thread and consumerWorker.                                     *)

WorkerStep(t, from, to) ==
  /\ ~crashed
  /\ wpc[t] = from
  /\ wpc' = [wpc EXCEPT ![t] = to]
  /\ UNCHANGED <<stSubscribe, mpThread, race, crashed, epoch, orphans, callVars, wq, wgen, handle>>

WorkerLock(t) == WorkerStep(t, "lock", "check") /\ Acquire(t)

\* Mutant: m_lock is held through the pass and the callback.
WorkerCheck_KeepsLock(t) ==
  /\ WorkerStep(t, "check", IF wq[t] \in stSubscribe THEN "fetch" ELSE "done")
  /\ lock' = IF wq[t] \in stSubscribe THEN lock ELSE None

\* Mutant: the pass over a queue that is not subscribed returns true.
WorkerCheck_NeverEnds(t) ==
  /\ WorkerStep(t, "check", IF wq[t] \in stSubscribe THEN "fetch" ELSE "lock")
  /\ Release(t)

WorkerCheck(t) ==
  /\ WorkerStep(t, "check", IF wq[t] \in stSubscribe THEN "fetch" ELSE "done")
  /\ Release(t)

\* Mutant: a failed Connect or consumer returns false.
WorkerFetchFails_Ends(t) == WorkerStep(t, "fetch", "done") /\ UNCHANGED lock

\* Connect or consumer failed, or there is no callback: another pass.
WorkerFetchFails(t) == WorkerStep(t, "fetch", "lock") /\ UNCHANGED lock

WorkerDeliver(t) == WorkerStep(t, "fetch", "callback") /\ UNCHANGED lock

\* Mutant: the next pass does not look at the set.
WorkerReturn_SkipsCheck(t) ==
  /\ cpc[t] = "idle"
  /\ WorkerStep(t, "callback", "fetch")
  /\ UNCHANGED lock

WorkerReturn(t) ==
  /\ cpc[t] = "idle"
  /\ WorkerStep(t, "callback", "lock")
  /\ UNCHANGED lock

-----------------------------------------------------------------------------

SubscribeMSg(a) ==
  \/ \E q \in Queues : SubscribeBegin(a, q)
  \/ SubscribeLock(a) \/ SubscribeInsert(a) \/ SubscribeRefuse(a)
  \/ \E t \in Threads : SubscribeSpawn(a, t)
  \/ SubscribeSpawnFails(a)
  \/ SubscribeStoreEnter(a) \/ SubscribeStoreExit(a)

UnSubscribeMsg(a) ==
  \/ \E q \in Queues : UnsubscribeBegin(a, q)
  \/ UnsubscribeLock(a) \/ UnsubscribeErase(a)
  \/ UnsubscribeMiss(a) \/ UnsubscribeFind(a)
  \/ UnsubscribeDetach(a) \/ UnsubscribeDelete(a) \/ UnsubscribeRemove(a)
  \/ UnsubscribeCrashes(a)

consumer_thread(t) ==
  \/ WorkerLock(t) \/ WorkerCheck(t)
  \/ WorkerFetchFails(t) \/ WorkerDeliver(t) \/ WorkerReturn(t)

Next ==
  \/ \E a \in Actors : SubscribeMSg(a) \/ UnSubscribeMsg(a)
  \/ \E t \in Threads : consumer_thread(t)
  \/ crashed /\ UNCHANGED vars

Spec == Init /\ [][Next]_vars
-----------------------------------------------------------------------------
(* Safety.                                                                 *)

Live(t) == wpc[t] \notin {"unborn", "done"}

\* An actor that waits for m_lock does not own it: std::mutex is not
\* recursive, and the callback runs inside consumerWorker (RabbitMq.cpp:49, 68).
NoSelfDeadlock ==
  \A a \in Actors : cpc[a] \in {"sLock", "uLock"} => lock # a

\* Between two removals of a queue from the set, SubscribeMSg creates at most
\* one consumer thread for it, whichever calls and passes overlap
\* (RabbitMq.cpp:125-131).  (More than one thread may serve a queue: see
\* the README on a queue that is subscribed again before its thread looks.)
OneWorkerPerEpoch ==
  \A t, u \in Threads :
    (wpc[t] # "unborn" /\ wpc[u] # "unborn" /\ wq[t] = wq[u] /\ wgen[t] = wgen[u]) => t = u

Pending(q) == \E a \in Actors : cpc[a] = "sSpawn" /\ cq[a] = q /\ cgen[a] = epoch[q]
Served(q) == \E t \in Threads : Live(t) /\ wq[t] = q /\ wgen[t] = epoch[q]
Orphaned(q) == <<q, epoch[q]>> \in orphans

\* A queue in m_stSubscribe has a live thread of its present subscription, or
\* one about to be created, unless the thread could not be created: no
\* failing pass and no earlier thread's exit leaves it unserved
\* (RabbitMq.cpp:32-40, 54-60, 129-133).
SubscriptionServed ==
  \A q \in stSubscribe : Pending(q) \/ Served(q) \/ Orphaned(q)

InUse(q) == \E a \in Actors : cpc[a] \in {"uDelete", "uRemove"} /\ cq[a] = q

\* Only an access of m_mpThread that overlaps the unlocked store of
\* SubscribeMSg (RabbitMq.cpp:134) ends the process in UnSubscribeMsg: until
\* then every thread object in the map is allocated, joinable and of the queue
\* it is stored under, except to the one call that is deleting it, so that
\* nothing null, joinable or deleted is ever detached or deleted
\* (RabbitMq.cpp:145-151), however late a store comes and however often a
\* queue is subscribed again before it.
NoDanglingHandle ==
  \/ race
  \/ /\ ~crashed
     /\ \A q \in Queues : mpThread[q] \in Threads =>
          wq[mpThread[q]] = q /\ (handle[mpThread[q]] = "held" \/ InUse(q))

Quiescent == \A a \in Actors : cpc[a] = "idle"

\* With one caller nothing ends the process, m_mpThread and m_stSubscribe agree
\* between calls, and no thread object is lost: a subscribed queue has its thread in the map unless
\* that was not created, an unsubscribed one has none, and a thread that was
\* not detached is the one in the map (RabbitMq.cpp:123-154).
MapAgrees ==
  /\ ~crashed
  /\ Quiescent =>
       /\ \A q \in Queues : mpThread[q] # None <=> (q \in stSubscribe /\ ~Orphaned(q))
       /\ \A t \in Threads : handle[t] = "held" => mpThread[wq[t]] = t

-----------------------------------------------------------------------------
(* The abstract specification and the refinement mapping.                  *)

WorkerPhase(t) ==
  CASE wpc[t] = "unborn" -> "unborn"
    [] wpc[t] \in {"lock", "check"} -> "idle"
    [] wpc[t] = "fetch" -> "armed"
    [] wpc[t] = "callback" -> "delivering"
    [] wpc[t] = "done" -> "gone"

Worker == [t \in Threads |-> WorkerPhase(t)]
Grants == {<<a, cq[a]>> : a \in {b \in Actors : cpc[b] = "sSpawn"}}

Contract == INSTANCE SubscriptionContract WITH
  Tickets <- Actors, subscribed <- stSubscribe, grants <- Grants, worker <- Worker, serves <- wq

\* Every behaviour, up to the end of the process, is one of the contract's: a pass starts only while the
\* queue is subscribed, so a thread makes at most one callback after
\* UnSubscribeMsg erased its queue, and a subscription starts one thread.
ImplementsContract == Contract!CSafety

-----------------------------------------------------------------------------
(* Liveness.                                                               *)

\* A call in progress goes on; a caller of lock() gets the mutex if it is free
\* again and again (a worker sleeps 10 ms between two passes,
\* RabbitMq.cpp:39); the server answers or the connection breaks; a callback
\* makes finitely many calls and returns.
AwaitLock(a) == SubscribeLock(a) \/ UnsubscribeLock(a)
Proceed(a) ==
  \/ SubscribeInsert(a) \/ SubscribeRefuse(a)
  \/ (\E t \in Threads : SubscribeSpawn(a, t)) \/ SubscribeSpawnFails(a)
  \/ SubscribeStoreEnter(a) \/ SubscribeStoreExit(a)
  \/ UnsubscribeErase(a) \/ UnsubscribeMiss(a) \/ UnsubscribeFind(a)
  \/ UnsubscribeDetach(a) \/ UnsubscribeDelete(a) \/ UnsubscribeRemove(a)
  \/ UnsubscribeCrashes(a)
Pass(t) == WorkerCheck(t) \/ WorkerFetchFails(t) \/ WorkerDeliver(t)

Fairness ==
  /\ \A a \in Actors : SF_vars(AwaitLock(a)) /\ WF_vars(Proceed(a))
  /\ \A t \in Threads : SF_vars(WorkerLock(t)) /\ WF_vars(Pass(t)) /\ SF_vars(WorkerReturn(t))

FairSpec == Spec /\ Fairness

\* Every SubscribeMSg and UnSubscribeMsg returns, those made from inside a
\* callback included, unless the process ends.
CallsReturn == \A a \in Actors : (cpc[a] # "idle") ~> (cpc[a] = "idle" \/ crashed)

\* A thread whose queue stays unsubscribed ends, whether it was in a pass, in
\* a callback, or not yet running when the queue was removed (while the process
\* lives).
UnsubscribedStops ==
  \A t \in Threads : []<>(~Live(t) \/ wq[t] \in stSubscribe \/ crashed)

\* A queue that stays subscribed is polled again and again, however often
\* Connect or consumer fails, unless its thread was not created (while the
\* process lives).
SubscriptionPolled ==
  \A q \in Queues :
    []<>( \/ q \notin stSubscribe
          \/ Orphaned(q)
          \/ crashed
          \/ \E t \in Threads : wpc[t] = "fetch" /\ wq[t] = q)

\* Under the same fairness the contract's liveness holds too, in a process
\* that does not end: passes and deliveries end, and an unsubscribed worker
\* stops.
ImplementsFairContract == []~crashed => Contract!CFairness
=============================================================================
