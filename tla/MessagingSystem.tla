--------------------------- MODULE MessagingSystem ---------------------------
(***************************************************************************)
(* Programs like LibRabbitMq.cpp on one server: each publishes to "queue", *)
(* subscribes to it, prints what its callback is given, and unsubscribes   *)
(* on a key.  They share the queue: a message is printed by one of them.   *)
(*                                                                         *)
(* The library is composed of what the other modules show it to be.  Its   *)
(* subscriptions are SubscriptionContract, which SubscriptionManager       *)
(* implements, with one thread for each program.  Its passes are those of  *)
(* ConsumerWorker: a thread that found its queue subscribed makes one.     *)
(* publishMsg queues its message or does not (PublishPath); its answer,    *)
(* and that of SubscribeMSg, is ignored.                                   *)
(***************************************************************************)
EXTENDS Integers, Sequences, FiniteSets

CONSTANTS
  Programs,
  Nobody,
  Calls,        \* calls of publishMsg of one program (100 in the code)
  GetNum,       \* messages of one pass (10 in the code)
  MaxLosses     \* bound: links lost

ASSUME ProgramsAreFew == IsFiniteSet(Programs)
ASSUME CallsIsNat == Calls \in Nat
ASSUME GetNumIsPositive == GetNum \in Nat \ {0}
ASSUME MaxLossesIsNat == MaxLosses \in Nat

NumMsgs == Calls * Cardinality(Programs)

VARIABLES
  subscribed, grants, worker, serves,
  published, ready, outstanding, wire, acks, consuming, link, losses, pc, batch, ret,
  delivered, dropped,
  main,     \* calls main has made; Calls + 1 when it reads keys
  printed   \* history: messages a program printed after it unsubscribed

Subscription ==
  INSTANCE SubscriptionContract
    WITH Queues <- Programs, Threads <- Programs, Tickets <- {1}, None <- Nobody

\* main sets the callback before it subscribes: no pass finds none.
Queue == INSTANCE ConsumerWorker WITH Workers <- Programs, MaxDiscards <- 0, discards <- 0

subscriptionVars == <<subscribed, grants, worker, serves>>
queueVars ==
  <<published, ready, outstanding, wire, acks, consuming, link, losses, pc, batch, ret, delivered,
    dropped>>
vars == <<subscriptionVars, queueVars, main, printed>>

Unsubscribed(p) == main[p] = Calls + 1 /\ p \notin subscribed

TypeOK ==
  /\ Subscription!CTypeOK /\ Queue!TypeOK
  /\ main \in [Programs -> 0 .. Calls + 1]
  /\ printed \in [Programs -> Nat]

\* Each program has an object of its own, without subscriptions or threads.
CreateLibRabbitMqBase == Subscription!CInit

Init ==
  /\ CreateLibRabbitMqBase /\ Queue!Init
  /\ main = [p \in Programs |-> 0]
  /\ printed = [p \in Programs |-> 0]

-----------------------------------------------------------------------------
(* main.                                                                   *)

\* Mutant: the loop has no end.
publishMsg_Endless(p) ==
  /\ main' = [main EXCEPT ![p] = @ + 1]
  /\ Queue!Publish \/ UNCHANGED queueVars
  /\ UNCHANGED <<subscriptionVars, printed>>

publishMsg(p) ==
  /\ main[p] < Calls
  /\ main' = [main EXCEPT ![p] = @ + 1]
  /\ Queue!Publish \/ UNCHANGED queueVars
  /\ UNCHANGED <<subscriptionVars, printed>>

SubscribeMSg(p) ==
  /\ main[p] = Calls
  /\ main' = [main EXCEPT ![p] = Calls + 1]
  /\ Subscription!Subscribe(1, p)
  /\ UNCHANGED <<queueVars, printed>>

\* The thread is created, or not.
CreateThread(p) ==
  /\ Subscription!Start(1, p, p) \/ Subscription!Forfeit(1, p)
  /\ UNCHANGED <<queueVars, main, printed>>

UnSubscribeMsg(p) ==
  /\ main[p] = Calls + 1
  /\ Subscription!Unsubscribe(p)
  /\ UNCHANGED <<queueVars, main, printed>>

-----------------------------------------------------------------------------
(* The consumer thread.                                                    *)

Look(p) ==
  /\ Subscription!Arm(p) \/ Subscription!Stop(p)
  /\ UNCHANGED <<queueVars, main, printed>>

PassOnly == UNCHANGED <<subscriptionVars, main, printed>>

\* Connect and consumer.  A Connect that fails ends the pass as SetupFails does.
Consume(p) ==
  /\ worker[p] = "armed"
  /\ \/ Queue!Connect(p) \/ Queue!Consume(p) \/ Queue!SetupFails(p)
     \/ Queue!Receive(p) \/ Queue!Ack(p) \/ Queue!AckFails(p) \/ Queue!ConsumeFails(p)
     \/ Queue!BatchFull(p)
  /\ PassOnly

\* Mutant: a pass that fails is the last.
PassFails_Ends(p) ==
  /\ Queue!PassFails(p)
  /\ Subscription!Move(p, "armed", "gone")
  /\ UNCHANGED <<main, printed>>

PassFails(p) ==
  /\ Queue!PassFails(p)
  /\ Subscription!Disarm(p)
  /\ UNCHANGED <<main, printed>>

FunLibAMQP(p) ==
  /\ Queue!Callback(p)
  /\ Subscription!Deliver(p)
  /\ printed' = [printed EXCEPT ![p] = IF Unsubscribed(p) THEN @ + Len(batch[p]) ELSE @]
  /\ UNCHANGED main

\* Mutant: the connection is kept for the next pass.
PassEnds_KeepsConnection(p) ==
  /\ Queue!Goto(p, "close", "start")
  /\ Subscription!Finish(p)
  /\ UNCHANGED <<published, ready, outstanding, wire, acks, consuming, link, losses, batch, ret,
                 delivered, dropped, main, printed>>

\* Mutant: the thread makes its next pass without a look at m_stSubscribe.
PassEnds_LooksOnce(p) ==
  /\ Queue!PassEnds(p)
  /\ Subscription!Move(p, "delivering", "armed")
  /\ UNCHANGED <<main, printed>>

PassEnds(p) ==
  /\ Queue!PassEnds(p)
  /\ Subscription!Finish(p)
  /\ UNCHANGED <<main, printed>>

consumer_thread(p) ==
  Look(p) \/ Consume(p) \/ PassFails(p) \/ FunLibAMQP(p) \/ PassEnds(p)

-----------------------------------------------------------------------------

Server(p) ==
  /\ Queue!BrokerDeliver(p) \/ Queue!BrokerAck(p) \/ Queue!LinkLost(p)
  /\ PassOnly

Next ==
  \E p \in Programs :
    \/ publishMsg(p) \/ SubscribeMSg(p) \/ CreateThread(p) \/ UnSubscribeMsg(p)
    \/ consumer_thread(p) \/ Server(p)

Spec == Init /\ [][Next]_vars

-----------------------------------------------------------------------------
(* Safety.                                                                 *)

\* After UnSubscribeMsg has returned, a program prints at most the one batch its
\* thread was at (RabbitMq.cpp:43-80, 141-154).
OneBatchAfterUnsubscribe == \A p \in Programs : printed[p] <= GetNum

\* A thread that has stopped leaves no connection, holds no message and has none
\* reserved at the server: other programs get them all (RabbitMq.cpp:60, 71-79).
GoneHoldsNothing ==
  \A p \in Programs : worker[p] = "gone" =>
    link[p] = "none" /\ ~consuming[p] /\ outstanding[p] = <<>> /\ batch[p] = <<>>

\* While one program alone has ever subscribed, it prints in the order of
\* publication, repeats aside, whoever published.
PrintedInOrder ==
  (\A p, q \in Programs : p # q => worker[p] = "unborn" \/ worker[q] = "unborn") =>
    Queue!OutOfOrderIsRepeat

-----------------------------------------------------------------------------
(* Liveness.                                                               *)

\* The fairness of ConsumerWorker for the passes of each thread.  main need not
\* go on, and nobody need press a key.
Fairness ==
  \A p \in Programs :
    /\ WF_vars(consumer_thread(p))
    /\ SF_vars(Queue!Consume(p) /\ PassOnly)
    /\ SF_vars(Queue!BrokerDeliver(p) /\ PassOnly)
    /\ SF_vars(Queue!Receive(p) /\ PassOnly)

FairSpec == Spec /\ Fairness

Served == \E p \in Programs : worker[p] # "unborn" /\ p \in subscribed

\* As long as some program is subscribed and has its thread, everything that
\* reached the queue is printed, by whichever program, or was in a batch that was
\* thrown away: no other program withholds it, however its passes fail and
\* whenever it unsubscribes.
EverythingPrinted ==
  Served ~>
    (1 .. published \subseteq {delivered[i] : i \in DOMAIN delivered} \cup dropped \/ ~Served)
=============================================================================
