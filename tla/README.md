# A TLA+ model of LibRabbitMq

`LibRabbitMq` is a small C++ library (namespace-less, built as a Windows DLL)
that hides the AMQP client library *librabbitmq* behind six calls: `init`,
`publishMsg`, `SubscribeMSg`, `UnSubscribeMsg`, `GetConnState` and a user
callback.  This directory holds TLA+ modules of it, TLC configurations that
check them on small instances, and TLAPS proofs that remove the bounds of
those instances for nearly every safety property.

Paths below are relative to `src/LibRabbitMq/`.

## 1. Inventory

### Components, their state and operations

| Component | Source | State | Operations |
|---|---|---|---|
| `CRabbitMq` subscriptions | `RabbitMq.cpp:29-80, 123-154`, `RabbitMq.h` | `m_lock`, `m_stSubscribe` (set of queue names), `m_mpThread` (queue name to `std::thread*`), the consumer threads | `SubscribeMSg`, `UnSubscribeMsg`, the loop `consumer_thread`, its pass `consumerWorker` |
| `CRabbitMq` consumer pass | `RabbitMq.cpp:50-73`, `RabbitMQ_Adapter.cpp:286-407` | one connection, the batch `vgetmsg`, what `consumer` returned | `Connect`, `consumer` (two overloads), callback, `Disconnect` |
| `CRabbitMq` publishing | `RabbitMq.cpp:82-121`, `RabbitMQ_Adapter.cpp:94-223` | one connection per call, `m_exchange` of its adapter | `Connect`, `exchange_declare`, `queue_declare`, `queue_bind`, `publish`, `Disconnect` |
| `CRabbitMQ_Adapter` | `RabbitMQ_Adapter.cpp/.h` | `m_conn`, `m_sock`, `m_channel` (always 1), `m_exchange`, `m_queue`, the account | all of the above plus `queue_unbind`, `queue_delete`, `getMessageCount`, `setUser`, `setPassword`, `AssertError`, the destructor |
| `ConnInfo` and `init` | `LibRabbitMq.h`, `RabbitMq.cpp:24-27` | `m_conninfo`: server, port, user, password, callback and its argument | `init`, and the reads of every other call |
| `GetConnState`, `CreateLibRabbitMqBase`, `DeleteLibRabbitMqBase` | `RabbitMq.cpp:156-178` | none of their own | connect and answer; `new` and `delete` |
| `CRabbitMQ_Proxy` | `CRabbitMQ_Proxy.cpp/.h` | a pointer to an adapter | forwards each call |
| `CMessage`, `CQueue`, `CExchange` | `include/MessageBody.h` | attributes of what is declared and sent | constructors and copies |
| `LibRabbitMq.cpp` | `LibRabbitMq.cpp` | none | a console program that tries the library |
| librabbitmq headers | `include/amqp*.h` | none | inline functions that encode and decode the integers and strings of a frame; types and constants.  The library itself is binary only and external |

### How they interact

* Application threads call `CRabbitMq`.  `SubscribeMSg` starts a consumer thread
  per subscribed queue; the thread makes pass after pass, 10 ms apart, until a
  pass finds that its queue is no longer in `m_stSubscribe`.
* A pass looks the queue up under `m_lock`, releases the lock, and then opens a
  connection of its own, takes up to ten messages, acknowledges each as it
  takes it, gives the batch to the user callback **on the consumer thread and
  without the lock**, and closes the connection.  The callback may call the
  library again.
* `publishMsg` has no state in `CRabbitMq` except what it reads of `m_conninfo`;
  calls meet only at the broker, where they share exchanges, queues and
  bindings.
* The proxy and the adapter live inside one pass or one call: they are locals,
  and their destructors close the connection.

### What is hard, and what makes it correct

* **Subscriptions.** `m_lock` guards the set, but `SubscribeMSg` stores the new
  thread in the map after it released the lock (`RabbitMq.cpp:130-134`): the
  store can be late, and can overlap another call's find, erase or store.
  Correct means: no actor waits for a lock it owns, a subscription gets one
  thread, that thread lives as long as the queue stays subscribed, an
  unsubscribed thread ends after at most one more callback, and unless an access overlaps
  that store `UnSubscribeMsg` never touches a thread object it must not touch.
* **Consumer pass.** Messages are acknowledged before the callback has seen
  them; a timeout, a broker exception, a lost link or a failed acknowledgement
  can end the batch between any two messages, and a batch for which there is no callback goes with
  its pass.  Correct means: a message is always somewhere; it is thrown away only when a link was lost or
  there was no callback, and repeated only when a link was lost, in publication order; and every
  message arrives.
* **Publishing.** Any of six calls can fail, one failure is ignored on purpose
  (`RabbitMq.cpp:95-98`), one is judged by the wrong reply
  (`RabbitMQ_Adapter.cpp:200`), and two functions return no value when they
  succeed (`RabbitMQ_Adapter.cpp:133, 149`).  Correct means: `false` says the
  message was not queued, `true` says that it was unless one of the failures that are not
  reported came about, and it is never in another queue.
* **Session.** `m_conn` is set before `Connect` knows whether it can connect,
  stays set when it fails, is not destroyed when the close fails, and stays set when the destruction
  reports a failure; the destructor disconnects once more, and `GetConnState` leaves everything to it.
  Correct means: no session stays open at the server after its call, a connection is used after it was
  destroyed only if its destruction reported a failure, and an undisturbed call gives back what it took.
* **The adapter in other hands.** `CRabbitMQ_Adapter` is a class with a public interface of its own.
  Some of its operations leave the channel open, every one may be refused, a vector is written
  message by message and each write may fail for itself, and the server may restart.  Correct means: no
  call spoils the next, a queue gets a prefix of what was published but for the messages whose own write
  failed, and what the defaults of `CMessage` promise to keep is kept.
* **ConnInfo.** `init` writes fields one by one, without the lock, while threads read them.  Correct
  means: a pass that no `init` overlaps uses one configuration, a callback never gets a pointer older
  than the one its code was tested for, and an earlier callback is called once more at most.
* **Programs on one server.** A message sent ahead to one program is missing for the others until
  that program's pass ends.  Correct means: every message is printed by somebody, in order while one
  program alone subscribes, and at most one batch is printed after `UnSubscribeMsg`.
* **The wire.** The order of bytes depends on the machine, a field may not fit in what is left of a
  frame, and the offset advances all the same.

`PROJECT.json` lists each hazard at its line with the properties that watch it.

## 2. Modules

| Module | Models | Proofs | For TLC |
|---|---|---|---|
| `SubscriptionContract` | what a user may rely on: the abstract specification | | |
| `SubscriptionManager` | `SubscribeMSg`, `UnSubscribeMsg`, `consumer_thread`, control of `consumerWorker`; implements the contract | `SubscriptionManager_proofs` | `MCSubscription` |
| `ConsumerWorker` | the inside of a pass: connection, `consumer`, batch, acknowledgements, callback | `ConsumerWorker_proofs` | `MCConsumer` |
| `PublishPath` | `publishMsg` and the adapter calls it makes | `PublishPath_proofs` | `MCPublish` |
| `AdapterSession` | `Connect`, `Disconnect`, the destructor, `GetConnState`: the life of connection objects | `AdapterSession_proofs` | `MCSession` |
| `ConnInfo` | `init` against the reads of passes and calls | `ConnInfo_proofs` | `MCConnInfo` |
| `AdapterCalls` | every public operation of the adapter, in any order; the defaults of `MessageBody.h`; restarts of the server | `AdapterCalls_proofs` | `MCAdapterCalls` |
| `WireCodec` | the inline functions of `amqp_private.h` | `WireCodec_proofs` | `MCWireCodec` |
| `MessagingSystem` | programs like `LibRabbitMq.cpp` on one server: composes `SubscriptionContract` and `ConsumerWorker` | `MessagingSystem_proofs` | `MCSystem` |

A definition whose name has an underscore and a reason after it (`Ack_Forgotten`), under a comment
that begins with *Mutant*, is a plausible mistake in place of the definition it is named for.  No
specification uses it; `PROJECT.json` says which property it must break.

### SubscriptionContract

A set `subscribed`, a worker's phase (`unborn`, `idle`, `armed`, `delivering`,
`gone`) and the queue it serves, and *grants*, the permission that a successful
subscribe gives to start one worker.  `Arm`, the start of a pass, needs the
queue to be subscribed; `Deliver` follows at any time and may come after
`Unsubscribe`.  The two promises are in the shape of the actions: a grant
starts one worker (or is forfeited), and an armed worker makes one delivery
before it has to look again.

### SubscriptionManager

| Definition | Code |
|---|---|
| `lock`, `stSubscribe`, `mpThread` | `m_lock`, `m_stSubscribe`, `m_mpThread` (`None` for no entry, `Null` for the entry that `operator[]` makes, `RabbitMq.cpp:134`) |
| `handle[t]` | the `std::thread` object: `none`, `held` (joinable), `detached` (`:148`), `deleted` (`:149`) |
| `wpc`, `wq` | a consumer thread: `lock` (`:45`), `check` (`:46`), `fetch` (`:50-66`), `callback` (`:68`), `done` (`:38`), and its queue |
| `cpc`, `cq`, `cth` | a call in progress: `sLock` (`:125`), `sFind` (`:126`), `sSpawn` (`:131`), `sStore` and `sStoring` (`:134`), `uLock` (`:143`), `uErase` (`:144`), `uMap` (the find, `:145-146`), `uDetach` (`:148`), `uDelete` (`:149`), `uRemove` (`:150`), with its arguments and locals |
| `race` | two actors were inside `m_mpThread` at once |
| `crashed` | the process has ended; nothing happens any more |
| `epoch`, `cgen`, `wgen`, `orphans` | history variables, read by no guard |

An actor is a client thread or a consumer thread inside its callback.  Every
lock, unlock, set operation and map access is a step of its own where another
actor can come between.

*The data race.* `std::map` accessed by two threads at once, one of them
writing, is undefined behaviour.  The store of `SubscribeMSg` is two steps: `operator[]` finds or makes the
entry, and the assignment fills it.  `UnSubscribeMsg` finds the entry, detaches, deletes and erases in a step each, and
each of the two in the middle reads `iter->second` for itself (`Object`, `UseObject`), so that a store can come between any
two of them.  When two actors are inside, `race` is set for good, and from then on a store or an erase may be
lost and a find may miss.  In this way a call can come upon a null pointer or a deleted object where it detaches, and
upon a joinable object or a deleted one where it deletes: `UnsubscribeCrashes`, the end of the process.  A crash inside
the tree itself only cuts a behaviour short.  A corrupted tree that sends `UnSubscribeMsg` to a wrong address
is not represented; the properties about `mpThread` say what holds of the calls, not of a corrupted heap.

*Two workers for one queue.* When a queue is unsubscribed and subscribed again
before its old thread looks, the old thread finds the name in the set and goes on
beside the new one.  The model has this behaviour.  No text of the repository promises
otherwise, so `OneWorkerPerEpoch` and the contract speak of one *new* worker per
subscription, and `ConsumerWorker` is checked with two workers of one queue.

### ConsumerWorker

One pass of each of several workers of a queue, message by message.

| Definition | Code |
|---|---|
| `pc` | `start` (`RabbitMq.cpp:54`), `open` (`RabbitMQ_Adapter.cpp:354-376`), `loop` (`:380-392`), `ack` (`:396-401`), `return` (`RabbitMq.cpp:59`), `close` (`:71-73`) |
| `batch`, `ret` | `vgetmsg`, the result of `consumer` |
| `link` | the connection; `down` is a link that broke and of which the client does not know |
| `published`, `ready`, `outstanding`, `wire`, `acks`, `consuming` | the broker and the network: external |
| `losses`, `discards`, `delivered`, `dropped` | history |

The two overloads of `consumer` (`RabbitMQ_Adapter.cpp:286-350, 352-407`) have the same
control and differ in what they copy out of a message, so one set of actions
stands for both.  A `Connect` that fails is a pass that changes nothing.  A reply that ends the loop is of any
type but `AMQP_RESPONSE_NORMAL` (`Failures`): a timeout and a server exception give -2 and -3, and
`AMQP_RESPONSE_NONE` gives -0, which the caller takes for a batch, of nothing.  A pass that finds `pfunCB` 0 is `Discard`.
An acknowledgement fails on a broken link only (`AckFails`): `amqp_basic_ack` encodes a frame of fixed size, so
writing it is all that can go wrong.  The broker is modelled from what the code asks of it: manual acknowledgement
(`ack = 0`), a prefetch limit of `GetNum` (`basic_qos`), a closed channel that
settles what was acknowledged before it and returns the rest to its place in the
queue.

### PublishPath

Any number of threads in `publishMsg`, each with its own adapter and link.

| Definition | Code |
|---|---|
| `pc` | the call of `publishMsg` that comes next: `connect` (`RabbitMq.cpp:90`), `exchange` (`:95`), `queue` (`:100`), `bind` (`:105`), `open` and `write` (`:112`, inside `publish`), `close` (`:118-120`) |
| `exchange` | `m_exchange` of the adapter: `cfdefault.direct` until `exchange_declare` succeeds (`RabbitMQ_Adapter.cpp:26, 111-112`) |
| `target`, `answer` | the arguments and the result of a call |
| `kind`, `declared`, `bindings`, `routed`, `wire`, `link` | the broker and the network: external |
| `broken`, `ignored` | history |

Exchanges and queues may exist beforehand, with attributes that the code's
declarations match (`direct`, durable) or do not (`other`), and bindings too, if they are those of earlier calls
(`Prior`: any set of bindings of a queue under its own key).
`queue_declare` and `queue_bind` reach their closing brace without a `return` when
they succeed: the value compared with 0 is garbage, so after a success the
model takes either branch.  The server may refuse any request, also that for the exchange, for reasons of its own
(permissions, limits, a channel number that it takes for closed), and a declaration whose answer is not
understood may have been carried out.  `amqp_basic_publish` may fail on a link that is up; the reply that is looked at
afterwards (`RabbitMQ_Adapter.cpp:200`) is the one of the `channel_open` before it, so `publish` goes on.

### AdapterSession

One adapter after the other, each for one call: `work`, a pass or a `publishMsg`,
or `state`, a `GetConnState`.

| Definition | Code |
|---|---|
| `proxy` | the call whose local proxy, and adapter, is alive; `left` when it has called `Disconnect`; `crashed` when the process has ended |
| `m_user`, `m_conn` | the members of the adapter; `Configured` is the account of `m_conninfo`, `Guest` the default of the constructors, `NULL` no connection |
| `result` | what `Connect` returned (`RabbitMQ_Adapter.cpp:65-91`), 1 before it did |
| `state[c]` | a connection object: `bare` without a link, `open` after a login, `dead` when its link is gone or the login was refused, `destroyed` with its socket: external |
| `server`, `accounts` | whether the server answers, and whom it lets in: external |
| `trouble`, `faulty` | history |

A call that could not connect returns at once; a `work` call ends with `Disconnect`
(`RabbitMq.cpp:71, 120`) or, when something failed, without it; in every case the proxy's
destructor disconnects again if `m_conn` is set.  The operations in between leave
`m_conn` alone.  `m_sock` is left out: nothing reads it after `Connect`, and
librabbitmq destroys it with its connection.  Closing a connection that is not open fails,
which is what makes `Disconnect` return before `amqp_destroy_connection`.  `amqp_destroy_connection` may report a
failure too (`DestroyFails`, `RabbitMQ_Adapter.cpp:58-59`), having freed the connection or not.  `Disconnect` then leaves
`m_conn` set, and the destructor closes the connection again: of one that was freed this is undefined, and fails or
ends the process (`DestroyCrashes`).  Several calls at a time share nothing here, so one at a time is enough.

### ConnInfo

One program's `m_conninfo`, the thread that calls `init`, and threads that make passes.

| Definition | Code |
|---|---|
| `m_conninfo` | per field, the number of the `init` that wrote it; `Torn` for a string that is being assigned |
| `Order`, `copied` | the statements of `operator=` (`LibRabbitMq.h:52-57`) and how many are done |
| `pc` | `lookup` (`RabbitMq.cpp:45`), `build` (`:50`), `test` (`:66`), `args` and `callback` (`:68`) |
| `account`, `fn`, `arg` | what a pass has read so far; `Unread` before it has |
| `config`, `since`, `overlap`, `seen`, `late`, `discards` | history |

The assignment of a `string` writes in place and is two steps, in between which a reader may copy
neither the old nor the new text.  Port and pointers are words.  A callback that is read as 0 after
the test saw one is called all the same: that ends the program, and the behaviour.  Only `init` and
passes are modelled; `publishMsg` reads the same four fields in the same way as a pass does.

### AdapterCalls

One adapter, every public operation in any order, and a broker.

| Definition | Code |
|---|---|
| `m_conn` | `NULL`; `up`; or `down`, set and of no use, as after a `Connect` that failed or a lost link |
| `channel`, `consuming`, `held` | what the server has of the connection's channel 1: open, with a consumer, with messages sent ahead |
| `exclusive`, `auto_delete` | the queues declared with these attributes of `CQueue`, which go with their connection or their last consumer |
| `asked` | `GetNum` of the last call, if it was a `consumer` |
| `consumer_full`, `consumer_short`, `consumer_broken` | the ways `consumer` ends: with all it asked for, be it nothing; on a reply that is not normal; on a lost link, with -1 if an acknowledgement failed (`:339-343`, `:397-401`) |
| `CannotOpen`, `Refused` | a call whose first request fails, and one with a later request refused: its channel is closed on the way out |
| `publish`, `Write`, `publish_end` | `publish(vector)` (`RabbitMQ_Adapter.cpp:168-210`), message by message, each of whose writes may fail (`:197`); the other two overloads (`:212-223`) make a vector of one |
| `props`, `flags` | the properties of a message that are sent (`:182-191`) |
| `CMessage`, `CQueue`, `QueueAttributes`, `ExchangeAttributes` | the defaults and attributes of `MessageBody.h` that the server acts on |
| `queues`, `exchanges`, `bindings`, `contents`, `Restart` (which keeps the `Survivors` of durable queues), `OthersDelete` | the broker and its other users: external |
| `arrived`, `failed`, `cut`, `disturbed`, `kept`, `gone` | history |

Every operation opens channel 1 and closes it, except a `consumer` that got all it asked for
(`:349`, `:406`), which one that asked for nothing does at once; the next operation then opens a channel that is
open, which costs the connection.  `basic_qos` with 0 sets no limit, so such a `consumer` may be sent any number of
messages ahead.  `Disconnect` fails as in `AdapterSession`; a connection that is `down` stays set.
`exchange_declare`, `queue_declare`, `queue_bind` and `queue_unbind` use `m_conn` without asking
whether there is one: a call on `NULL` is undefined and is not made here.  A call is one step except
`publish`, the one whose parts can be told apart afterwards.

### MessagingSystem

`Programs` like the `main` of `LibRabbitMq.cpp`, each with an object of its own from
`CreateLibRabbitMqBase`.  The state of the subscriptions is that of `SubscriptionContract`, and that of
the queue and the passes is that of `ConsumerWorker`, both through `INSTANCE`; `main` counts the calls
of the program and `printed` what its callback printed after it unsubscribed.  Every action is an action
of one part or of both at once: `PassFails` is `PassFails` of the pass and `Disarm` of the worker,
`FunLibAMQP` is `Callback` and `Deliver`, `PassEnds` is `PassEnds` and `Finish`.  A `Connect` that fails,
which changes nothing in `ConsumerWorker`, ends a pass as `SetupFails` does.  `main` sets the callback before it
subscribes, so `MaxDiscards` is 0 here.  Subscriptions can be
those of the contract because `SubscriptionManager` is shown to implement it.

### WireCodec

An integer is the sequence of its bytes, most significant first, and `Memory` is how a machine stores it.
The operators are those of the macros `DECLARE_XTOXLL` and `DECLARE_CODEC_BASE_TYPE` and of
`amqp_encode_bytes`, `amqp_decode_bytes`: what they write, and how they move the offset, whether or
not there is room.  This copy of the header defines the exchange of halves and has its two uses commented
out (`include/amqp_private.h:314-315`), so `htonll` is the platform's; both are the same function
(`HalvesAreReversed`).
No source of the library includes the header; it is part of the copy of librabbitmq that is linked.

### Left out in all modules

Contents and names of messages, error strings, `__sleep`, the allocation of
strings and vectors.  Failed allocations appear only where the code looks
(`new(std::nothrow) thread`, `amqp_new_connection`, `amqp_tcp_socket_new`).  Accounts appear
in `AdapterSession`, `AdapterCalls` and `ConnInfo` only.

## 3. Runs

Every run finishes in a few minutes at most with two workers.

| Run | Instance | Asks |
|---|---|---|
| `subscription` | 2 clients, 3 threads, 1 queue, callbacks call back, 3 subscribes | `TypeOK`, `NoSelfDeadlock`, `OneWorkerPerEpoch`, `SubscriptionServed`, `NoDanglingHandle`, and that the contract is implemented |
| `subscription_serial` | 1 client, 3 threads, 2 queues, 4 subscribes | `MapAgrees`: without concurrent callers the map mirrors the set and no thread object is lost |
| `subscription_liveness` | 1 client, 2 threads, 1 queue, callbacks call back, 2 subscribes | calls return, unsubscribed threads end, subscribed queues are polled, and the contract's liveness, all while the process lives |
| `consumer` | 2 workers, batches of 2, 3 messages, 1 lost link, 1 pass without a callback | where every message is; how many are dropped or repeated for each of these; what `consumer` returns; that every message arrives |
| `publish` | 3 publishers with a call each, 2 exchanges, 2 queues of any kind, bound to the default exchange beforehand or not, 1 lost link | what `true` and `false` mean, and where messages go |
| `session` | 4 connections, any server, two accounts, destructions that fail | `NoOrphanSession`, `NoUseAfterDestroy`, `CleanCallReleases` |
| `conninfo` | 1 thread, 3 calls of `init`, the last without a callback | what the account, the callback and its pointer of one pass are made of |
| `adapter_calls` | 1 queue, 2 exchanges, 1 vector of at most 2, `GetNum` from 0 to 2, 1 restart | `OpenOnlyBehindConsumer`, `PlainMessagesSurvive`, `AllOrPrefix`; and, as an assumption that TLC evaluates, `CodecAgrees` of `MCWireCodec` |
| `system` | 2 programs with a call of `publishMsg` each, batches of 2, 1 lost link | `OneBatchAfterUnsubscribe`, `GoneHoldsNothing`, `PrintedInOrder`, and that everything is printed |
| `consumer_lost`, `publish_queued`, `session_sockets` | small | violated: see the findings |

### What they show

* `SubscriptionServed`: a queue in the set has a live thread of this very
  subscription or one about to start, unless the thread could not be created.
  That exception is real: when `new` returns 0 or the constructor of
  `std::thread` throws (`RabbitMq.cpp:131-133`), the queue stays in the set, is
  refused by every later `SubscribeMSg`, and nobody serves it until it is
  unsubscribed.
* `NoDanglingHandle`: as long as no access has overlapped the unlocked store, `UnSubscribeMsg` finds
  nothing null, joinable or deleted where it must not, late stores included: it erases the entry in the same
  critical section in which it deletes the object.  Once one has, the process may end: a store between
  `RabbitMq.cpp:148` and `:149` makes the call delete a joinable object, whose destructor terminates.  A late store
  that overlaps nothing can still leave the entry of a queue that is not subscribed, and the next store then leaks
  its thread object; `MapAgrees` says that this and the race need two callers.
* `ImplementsContract`: at most one callback after `UnSubscribeMsg` returned.
* `NothingVanishes`, `EachLossOneBatch`, `RepeatsNeedLosses`: each lost link costs at most one batch
  and at most one more delivery of a message, and each pass without a callback costs at most one batch; without
  either the passes deliver exactly once.  `EveryMessageArrives`: the messages a failed pass had prefetched come back.
* `BatchReturned`: what `consumer` returns is, when it is not negative, the size of the batch.  The 0 of
  `AMQP_RESPONSE_NONE` is harmless to `consumerWorker`, since nothing is in the batch then: the callback is called
  with an empty one.
* `FalseMeansNotQueued`: a call that answered `false` can be made again without a second
  copy, garbage return values included.  `TrueMeansQueuedOrIgnored` says what
  `true` is worth: of all that can fail only three things are not reported, `exchange_declare`,
  `amqp_basic_publish`, and the link once the channel is open.
* `NoOrphanSession`, `NoUseAfterDestroy`: the second disconnect of the destructor
  closes what a call left open, and nothing twice unless `amqp_destroy_connection` reported a failure: then
  `m_conn` is kept, and a connection that may be freed is closed again.  `CleanCallReleases` is the most that
  holds of memory and sockets: a call that met trouble keeps both (finding 3).
* `QuietPassIsWhole`: the account of a pass can be a mixture only if an `init` ran meanwhile.
  `CallerNotOlder` holds thanks to the order of `operator=`, which assigns `pCaller` before `pfunCB`
  (`LibRabbitMq.h:56-57`): with the two exchanged, a first callback could get no pointer.  A newer
  pointer with an older callback is possible.  `LateOnce` says when an old pointer may be given up, and
  `DiscardNeedsNoCallback` who loses acknowledged batches: subscribers that came before `init`, and those
  of a configuration without a callback.
* `OpenOnlyBehindConsumer`: of all calls only a `consumer` that got exactly what it asked for spoils the next one,
  and one that asked for nothing always does.  `CRabbitMq` never meets this, as it disconnects after every `consumer`.
* `PlainMessagesSurvive`: the defaults of `CMessage` and the two properties that `publish` announces are
  enough for a message in a durable queue to survive a restart, if the queue is neither exclusive nor `auto_delete`.
  `AllOrPrefix`: although `publish` goes on after a write that failed, and answers 0, the only holes in a vector that a
  queue gets are the messages whose own write failed.
* `GoneHoldsNothing` and `EverythingPrinted`: a program that unsubscribes in the middle of a pass
  withholds nothing from the others.  `PrintedInOrder`: what comes out of order is a repetition
  after a lost link, also across passes that end with deliveries unread.

### Bounds, and why they are enough

* *Subscription.* A hazard there needs two calls that overlap and a
  worker of an earlier subscription.  Three subscribes with three threads give an
  old worker, its successor and one more; calls come from two clients and from
  callbacks.  `UnSubscribeMsg` is not bounded.  The theorems of section 5 remove these
  bounds for the safety properties.  `MaxSubscribes` bounds `calls` in the guard of
  `SubscribeBegin` and nothing else.
* *Consumer.* Batches of 2 stand for the ten of the code: a batch can be
  empty, partial and full, and a link can break before, between and after the
  acknowledgements.  `NumMsgs` exceeds one batch, so that prefetched messages of a
  second worker and returned ones overlap; `MaxLosses` bounds the links that break, `MaxDiscards` the passes
  that find no callback.
* *Publishing.* Two publishers can race for an exchange, a queue or a binding, and a
  third uses what they leave.  A publisher keeps nothing between two calls, so a second call is
  another publisher's.  `Prior` has the bindings of both queues to the default exchange, to which calls publish
  that could not declare theirs; the theorems let it have any.  `MaxCalls` bounds calls, `MaxLosses` broken links;
  publishers stop after their calls, hence `CHECK_DEADLOCK FALSE`.
* *Session.* The properties relate a connection to the adapter that made it; an adapter
  makes one and the next starts afresh.  Four connections allow two full calls between two
  others; the theorems remove the bound.  `MaxConns` bounds `made` in `Make`; calls that find no memory go
  on, and the server turns at any time, so nothing deadlocks.
* *ConnInfo.* Threads share nothing but what `init` writes, so one thread is enough.  Of three
  configurations the first replaces none, the second a callback and the third takes it away.  A program
  that calls a null pointer is over, hence `CHECK_DEADLOCK FALSE`.
* *Adapter.* Calls but `publish` are not bounded.  A vector of two has a first and a second part, and what
  one restart leaves a second leaves too.  The server's second exchange makes `m_exchange` matter.
  `MaxCalls`, `MaxVector` (which also bounds `GetNum`) and `MaxRestarts` are the bounds.
* *Wire.* Every size of integer, frames of three fields, every length that cuts them.
* *System.* Two programs compete for the messages of a queue that neither had alone; a batch of 2 holds both
  messages.  `Calls` is 1 for the 100 of the code.

Symmetry is used in safety runs only: over clients, threads and queues in `subscription` and
`subscription_serial`, over publishers and queues in `publish`.

### Fairness

*SubscriptionManager.*  A call in progress goes on (weak fairness of its steps).
A caller of `lock()` gets the mutex if it is free again and again (strong
fairness): critical sections are a few map operations and a worker sleeps 10 ms between
two passes.  A pass ends: the server answers or the connection breaks (the
requests of librabbitmq have no timeout here, so a server that does neither
would hold a consumer thread for ever; only `amqp_consume_message` has one,
`RabbitMq.cpp:52`).  A callback calls the library finitely often and returns
(strong fairness, as its calls disable the step).  Nothing obliges anyone to
subscribe or unsubscribe.

*ConsumerWorker.*  Every pass goes on.  Opening a channel and starting a consumer, tried again and again,
succeed at last, and of the deliveries that could be made again and again one is made, and one read
before the one-second timeout: by some worker, not by each.  Nothing is assumed of links.

*MessagingSystem.*  The same, of every consumer thread by itself, whose look at `m_stSubscribe` is a part of
it.  `main` need not go on, no thread need be created, and nobody need press a key.

The other modules state safety only.

## 4. Findings

1. `consumer_lost`: messages are acknowledged one by one before the batch is handed
   over, and a failed acknowledgement returns -1, on which the batch is discarded
   with the messages the broker has settled.
2. `publish_queued`: the failure of `exchange_declare` is ignored.  The adapter still has
   `cfdefault.direct`, the queue is bound to the exchange of the call, the message goes to the
   former, and `true` is returned.  A failed `amqp_basic_publish` comes to the same: it is asserted against
   `amqp_get_rpc_reply` (`RabbitMQ_Adapter.cpp:197-204`), the reply of the last synchronous request, which is the
   successful `channel_open`, so that `publish` returns 0.
3. `session_sockets`: when `amqp_connection_close` fails, as it does for every
   connection that was refused or lost, `Disconnect` returns without `amqp_destroy_connection`,
   the destructor sets `m_conn` to `NULL`, and the connection and its socket are never
   released.  While the server is away, a consumer thread does this in every pass.

Remarks that no run is needed for.

* The comment of `consumer` (`RabbitMQ_Adapter.cpp:285`) says that 0 is success and all else failure; it
  returns the number of messages, 0 when there was none to take or no reply at all.  Its caller in `RabbitMq.cpp`
  compares with `< 0`, which fits the code (`BatchReturned`).
* The header sends a user who wants to know the state of the server to `GetConnState` (`LibRabbitMq.h:73`).  It
  builds its proxy without the user and the password of `m_conninfo` (`RabbitMq.cpp:158`) and logs in as `guest`
  (`Build` of `AdapterSession`), so it answers false of a server that is up and serves every other call, if
  that server does not let `guest` in.

## 5. Proofs

Each proof module EXTENDS the module it is about.  A theorem of an invariant follows the same
lines: `InitInv` (the initial states satisfy `IInv`), a lemma that every step keeps it, `Invariance`
(`Spec => []IInv`), and `IInv` implies the property.

### SubscriptionManager

`SubscriptionManager_proofs` proves, for any sets of queues, clients and threads and any
bound on calls:

| Theorem | Says |
|---|---|
| `TypeCorrect` | `Spec => []TypeOK` |
| `LockExcludes` | two actors are never both between `lock()` and `unlock()` |
| `NeverSelfDeadlocked` | `Spec => []NoSelfDeadlock` |
| `OneWorker` | `Spec => []OneWorkerPerEpoch` |
| `AlwaysServed` | `Spec => []SubscriptionServed` |
| `NeverDangling` | `Spec => []NoDanglingHandle` |
| `Refinement` | `Spec => ImplementsContract` |
| `SerialMapAgrees` | with one caller, `Spec => []MapAgrees` |

*Assumptions.*  Those of the module: callers are clients or threads, no client is a consumer thread,
`None` is none of them, `MaxSubscribes` is a natural number.  `SerialMapAgrees`
also assumes that `Callers` has at most one member, be it a client or a consumer thread.

*Argument.*  The properties are not inductive by themselves.  The invariant `IInv` is the
conjunction of

* `TypeOK`;
* `CallInv`: a call has its argument, and has a thread exactly between its creation and its
  store;
* `LockInv`: who is in a critical section owns the lock, and only they;
* `EpochInv`: what carries the present epoch of a queue (a call about to create a thread, or a
  thread) exists only while the queue is in the set, nothing carries a later one, and no two
  carry the same;
* `OneWorkerPerEpoch`, `SubscriptionServed`;
* `HandleInv`: a thread object that is not stored yet belongs to one call only, is held, is of that
  call's queue and is in no entry of the map; one in the map is of the queue it is stored under;
* `SoundMapInv`, until two accesses overlap: the process lives, one actor is in the map at a time, a null entry
  is there only for the call that is storing, an object is held unless the one call that deletes it is between
  its detach and its erase, and that call finds the object as it needs it.

`LockInv` makes the find and the insert of `SubscribeMSg` one step as far as other callers can see,
which with `EpochInv` gives one worker per epoch; a worker leaves its loop only under the lock and
only if the queue is not in the set, so removing the queue, which advances the epoch, comes before
its exit, which gives `SubscriptionServed`; and an object is stored by the one call that created it, and
erased by the call that deleted it before any other is in the map, which gives `NoDanglingHandle`.  Each lemma
(`TypeStep`, `LockStep`, `EpochStep`, `ServedStep`, `HandleStep`) treats one conjunct, action by
action.  The refinement maps each action to an action of the contract or to a stuttering step.
`SerialMapAgrees` rests on a second invariant, `SerialInv`, which adds that with one
caller `race` is never set and what the map holds at each step of a call.

### PublishPath

`PublishPath_proofs` proves, for any sets of publishers, exchanges and queues, exchanges and queues of any kind and any
bindings of queues under their own key beforehand, and any bounds:

| Theorem | Says |
|---|---|
| `TypeCorrect` | `Spec => []TypeOK` |
| `FalseIsSafe` | `Spec => []FalseMeansNotQueued` |
| `TrueIsQueued` | `Spec => []TrueMeansQueuedOrIgnored` |
| `OthersAreSpared` | `Spec => []OnlyTheTarget` |

*Assumptions.*  Those of the module: the default exchange is an exchange, `None` is neither an exchange
nor a queue, the bounds are natural numbers, and `Prior` has bindings of queues under their own key only.  The last is what
`OnlyTheTarget` needs: somebody who binds another queue under this key wants the message there.

*Argument.*  `IInv` is the conjunction of `TypeOK`, `OnlyTheTarget` and

* `CallInv`: a publisher in a call has a target and no answer yet, has a link exactly after `Connect`,
  and has a message under way only in `close`;
* `PlaceInv`: a message of a later call is nowhere, and one that is in a queue has the answer
  true or belongs to a call in `close`, which can only be left with true;
* `ExchangeInv`: queues are bound with their own key, and an adapter's exchange is the default one
  or one it declared, which is direct;
* `WorkInv`: a call on which nothing failed so far that it ignores, and whose link holds, has declared, bound, and
  written or routed what its place in `publishMsg` says;
* `TrueInv`: `TrueMeansQueuedOrIgnored`, of messages that have a target.

The broker's state is shared, so each invariant must survive the steps of other publishers.  Four
facts about any step of a publisher (`Others`, `Shared`, `Own`, `Causes`) are proved action by action
once: it leaves the calls and messages of others alone, adds to what is shared and never changes
the kind of an exchange that is not direct.  The lemmas about the invariants rest on these.

### AdapterSession

`AdapterSession_proofs` proves, for any number of connections:

| Theorem | Says |
|---|---|
| `TypeCorrect` | `Spec => []TypeOK` |
| `SessionsEnd` | `Spec => []NoOrphanSession` |
| `NeverUsedAfterDestroy` | `Spec => []NoUseAfterDestroy` |
| `CleanCallsRelease` | `Spec => []CleanCallReleases` |

*Assumption.*  `MaxConns` is a natural number.

*Argument.*  `IInv` adds to the properties `MadeInv`, which ties `m_conn`, `made`,
`result` and `proxy` together (an adapter that has connected holds the connection made last or none,
one that has not holds none, nothing beyond `made` exists), and `CleanInv`, which says that in an
undisturbed call with a good account the connection made last is open until it is destroyed.
The first is what makes `Make` unable to forget an open connection, the second what makes the close
of the destructor succeed.  `NoUseAfterDestroy` is inductive beside them, as only `DestroyFails`, which sets `faulty`
for the rest of the call, destroys a connection that `m_conn` keeps.

### ConsumerWorker

`ConsumerWorker_proofs` proves, for any number of workers, messages and lost links and any `GetNum`:

| Theorem | Says |
|---|---|
| `TypeCorrect` | `Spec => []TypeOK` |
| `NothingIsLost` | `Spec => []NothingVanishes` |
| `OneBatchALoss` | `Spec => []EachLossOneBatch` |
| `ReturnCountsBatch` | `Spec => []BatchReturned` |
| `OneRepeatALoss` | `Spec => []RepeatsNeedLosses` |
| `AtMostOnce` | `Spec => [](losses = 0 => IsInjective(delivered))` |
| `InOrder` | `Spec /\ []OnePassAtATime => []OutOfOrderIsRepeat` |

*Assumptions.*  `GetNum` is positive, the bounds are natural numbers.

*Argument.*  `IInv` is `TypeOK`, `NothingVanishes` and, for each worker, `WorkerInv`:

* `LinkInv`: while the link is up, what the broker has not settled is what was acknowledged and is
  under way, the message received last, and then the deliveries the client has not read, in this order,
  and all but the last are in the batch.  That is why closing the channel, which settles the first
  `acks` of them, settles nothing the batch does not have.
* `PhaseInv`: which phases of a pass have a link, a consumer, a batch.
* `ReturnInv`: what a return of `consumer` says about the batch, and that only a lost link makes it
  negative with messages in hand: the link is then down.  A batch still
  in hand in `close` was given to the callback or thrown away for want of one.

A worker's state is disturbed by its own steps only, so each action is treated for the worker that makes
it (`Kept`, `LosesNothing`), and `FrameInv` and `StillThere` carry the rest over.  Three more invariants
stand on `IInv`:

* `LossInv` counts: `dropped`, and `GetNum` for each link that is down, are at most `GetNum` for each of the
  `Excuses`, a link lost or a pass without a callback.  A link that breaks puts its worker in debt by one batch, and
  dropping the batch pays, as `ReturnInv` lets `PassFails` drop a batch only while the link is down; `Discard`
  pays for itself.
* `UniqueInv`: what a pass has received is not sent to it a second time, and is with nobody else while its
  consumer lives.  `RepeatInv` rests on it and counts the places from which a message can still be delivered
  (the queue, the workers that hold it) and its deliveries so far: they are at most `1 + losses`,
  as only a lost link leaves a message with a worker and returns it to the queue too.
* `OrderInv`, for passes that do not overlap: a pass is sent messages in ascending order (`LineInv`), and one
  that may still be delivered was delivered before or is newer than all that were.

### ConnInfo

`ConnInfo_proofs` proves, for any number of threads and calls of `init`:

| Theorem | Says |
|---|---|
| `TypeCorrect` | `Spec => []TypeOK` |
| `QuietIsWhole` | `Spec => []QuietPassIsWhole` |
| `NeverOlder` | `Spec => []CallerNotOlder` |
| `AtMostOneLateCall` | `Spec => []LateOnce` |
| `DiscardsNeedNoCallback` | `Spec => []DiscardNeedsNoCallback` |

*Assumptions.*  The bound is a natural number, configurations with a callback are among those of `init`.

*Argument.*  `FieldInv` says what each field holds while `copied` of them are assigned: those before
are of the latest configuration, `pCaller` and `pfunCB` of the one before until their turn comes.
So `pfunCB` is never newer than `pCaller`, and neither ever goes back.  Everything a pass has read is
compared with that: by `CallInv` what a pass reads last is not older than what it tested, by `QuietInv`
without an overlap all it read is the latest, and by `LateInv` a thread that made its late call
has looked at `pfunCB` again before the next one.

### AdapterCalls

`AdapterCalls_proofs` proves, for any queues, exchanges, vectors and restarts:

| Theorem | Says |
|---|---|
| `ChannelsClosed` | `Spec => []OpenOnlyBehindConsumer` |
| `PrefixArrives` | `Spec => []AllOrPrefix` |
| `TypeCorrect` | `Spec => []TypeOK` |
| `PlainSurvive` | `Spec => []PlainMessagesSurvive` |

*Assumptions.*  Those of the module: the default exchange is an exchange, `Nobody` is no queue, `MaxVector` is
positive, the other bounds are natural numbers.

*Argument.*  `BrokerInv`: a channel is open on a connection that is up, and nothing is bound to an exchange
that does not exist.  `VectorInv`: the n-th message of a vector is written n-th.  `ArrivalInv`: while its
channel is open, every queue a publish reaches has all that was written and did not fail.
The second conjunct of `BrokerInv` is what
makes the server's refusal harmless: it closes the channel for an exchange that it does not have, at the
first message, when nothing has arrived anywhere.  `OpenOnlyBehindConsumer` is inductive beside these.

`StoreInv` is a second invariant, of what queues hold: `PushInv` (messages are sent ahead only on an open channel,
between calls), `PlainInv` (the messages that must survive are persistent), `CountInv` (no queue holds more than
was written, which bounds `contents` in `TypeOK`) and `KeptInv` (a message that reached a queue that is
`Lasting`, durable and neither exclusive nor `auto_delete`, is in one, or sent ahead of one, until it is consumed or its
queue deleted).  A restart is the hard step.  `Survivors` is a
recursive function, so `UptoExists` shows by induction that there is one, and `SurvivorsFacts`, by another,
that it keeps every persistent message and makes no queue longer.

### MessagingSystem

`MessagingSystem_proofs` proves, for any finite set of programs, any number of calls and lost links:

| Theorem | Says |
|---|---|
| `PassesAsSpecified` | `Spec` implements `ConsumerWorker` |
| `SubscriptionsAsPromised` | `Spec` implements the safety part of `SubscriptionContract` |
| `SystemLosesNothing` | `NothingVanishes` of `ConsumerWorker` holds in the system |
| `TypeCorrect` | `Spec => []TypeOK` |
| `GoneIsClean` | `Spec => []GoneHoldsNothing` |
| `LastBatch` | `Spec => []OneBatchAfterUnsubscribe` |
| `SystemPaysPerLoss` | `EachLossOneBatch` and `RepeatsNeedLosses` of `ConsumerWorker` hold in the system |
| `PrintsInOrder` | `Spec => []PrintedInOrder` |

*Assumptions.*  `Programs` is finite, `Calls` and `MaxLosses` are natural numbers, `GetNum` is positive.

*Argument.*  Every step is a step of `ConsumerWorker` or leaves its variables alone (`PassStep`), and
likewise for the contract (`ContractStep`); so the theorems of `ConsumerWorker_proofs`, instantiated with the
programs as workers, hold here without being proved again.  `GoneHoldsNothing`,
`OneBatchAfterUnsubscribe` and `PrintedInOrder` need both parts.  For the first two `ProgramInv` says that a thread
is in a pass of `ConsumerWorker` only when its worker in the contract is `armed` or `delivering`, and that a program
which printed after it unsubscribed is past its last `armed`.  For the third: while one program alone has had a
thread (`Alone`), passes do not overlap, so the steps of `ConsumerWorker` keep its `OrderInv`
(`ConsumerWorker_proofs!OrderStep`); two programs that have had threads never become one again.

### WireCodec

`WireCodec_proofs` proves facts about the operators, for buffers and fields of any length:
`HalvesAreReversed` (the exchange of halves is the conversion), `WireIsPortable` (the frame does
not depend on the machine that wrote it), `RoundTrip` (what one machine encoded another decodes),
`LaterFieldsSpareEarlier` and `FailureSticks` (after a call that found no room none succeeds at the offset it
left).  From these, for frames of any number of fields: `FramesAreReadBack` (what was encoded is read back
from the final buffer) and `FramesAreCutShort` (a field without room ends the frame).  A `Frame` is given by the
buffers and offsets its calls leave, and the proof is an induction over them.

`Induction` in this module, which `AdapterCalls_proofs` uses too, is induction over the natural numbers
for sets: the rule of the library has an operator as a parameter, which no prover here can instantiate, so it is
proved from `WFMin`, which says that a set of numbers has a least member.

### Only model-checked

* Liveness and everything that rests on fairness (`CallsReturn`, `UnsubscribedStops`,
  `SubscriptionPolled`, `ImplementsFairContract`, `EveryMessageArrives`, `EverythingPrinted`): the
  prover has no rules for `ENABLED` and fairness.
* `FrameIsFields` and `FieldsAreReadBack` of `MCWireCodec`: they speak of the concatenation of a sequence of
  fields, of which the libraries state nothing.  `FramesAreReadBack` and `FramesAreCutShort` say of every
  frame most of what these say of small ones.

No module uses a `RECURSIVE` operator.

## 6. Not modelled

* `DeleteLibRabbitMqBase` with live threads: they use members of a deleted object, and every
  step after it is undefined.
* The implementation of librabbitmq, which is not here: the modules state what they assume of it and of the
  broker.  Of its headers `WireCodec` has the inline code, and `AdapterCalls` the types it uses; the rest declares functions
  and constants that the adapter does not use.
* `CRabbitMQ_Adapter::read`, whose body is a comment; `setChannel` and `getChannel`, and the copy constructor
  and assignment of the adapter, which are private and not called.
* Heartbeats: `amqp_login` is given 0, which turns them off (`RabbitMQ_Adapter.cpp:86`).
* A second `Connect` on a live connection, and calls on `NULL` that the code does not guard: no caller in the
  repository makes them.
* Resource files, project files and `stdafx`.
