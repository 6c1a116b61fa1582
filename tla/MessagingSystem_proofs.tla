----------------------- MODULE MessagingSystem_proofs -----------------------
(***************************************************************************)
(* The composition behaves as its parts promise, for any finite number of  *)
(* programs, calls, losses and any size of a pass: its passes are those of *)
(* ConsumerWorker and its subscriptions those of SubscriptionContract, so  *)
(* what was proved of ConsumerWorker holds here.  Three properties need    *)
(* both parts.                                                             *)
(***************************************************************************)
EXTENDS MessagingSystem, FiniteSetTheorems, TLAPS

Passes == INSTANCE ConsumerWorker_proofs WITH Workers <- Programs, MaxDiscards <- 0, discards <- 0

LEMMA BoundsAreNat ==
  NumMsgs \in Nat /\ MaxLosses \in Nat /\ 0 \in Nat /\ GetNum \in Nat \ {0}
<1>1. Cardinality(Programs) \in Nat
  BY ProgramsAreFew, FS_CardinalityType
<1> QED
  BY <1>1, CallsIsNat, MaxLossesIsNat, GetNumIsPositive DEF NumMsgs

\* A thread serves its own program's queue and is out of a pass except between
\* Arm and the pass's end; a program that printed after it unsubscribed has its
\* last pass behind it, or ends it.
ProgramInv(p) ==
  /\ worker[p] # "unborn" => serves[p] = p
  /\ pc[p] # "start" => worker[p] \in {"armed", "delivering"}
  /\ printed[p] # 0 => Unsubscribed(p) /\ worker[p] \in {"delivering", "idle", "gone"}
  /\ printed[p] <= GetNum

OwnTypes ==
  /\ Subscription!CTypeOK
  /\ main \in [Programs -> 0 .. Calls + 1] /\ printed \in [Programs -> Nat]

IInv == OwnTypes /\ Passes!IInv /\ \A p \in Programs : ProgramInv(p)

-----------------------------------------------------------------------------
(* Each step is a step of ConsumerWorker, and one of SubscriptionContract,  *)
(* or leaves it alone.                                                      *)

LEMMA InitParts == Init => Passes!Init /\ Subscription!CInit
BY DEF Init, Queue!Init, Passes!Init, CreateLibRabbitMqBase

\* ConsumerWorker_proofs names the actions of ConsumerWorker again.
LEMMA SameActions ==
  ASSUME NEW p \in Programs
  PROVE  /\ Queue!Publish <=> Passes!Publish
         /\ Queue!BrokerDeliver(p) <=> Passes!BrokerDeliver(p)
         /\ Queue!BrokerAck(p) <=> Passes!BrokerAck(p)
         /\ Queue!LinkLost(p) <=> Passes!LinkLost(p)
         /\ Queue!Connect(p) <=> Passes!Connect(p)
         /\ Queue!Consume(p) <=> Passes!Consume(p)
         /\ Queue!SetupFails(p) <=> Passes!SetupFails(p)
         /\ Queue!Receive(p) <=> Passes!Receive(p)
         /\ Queue!Ack(p) <=> Passes!Ack(p)
         /\ Queue!AckFails(p) <=> Passes!AckFails(p)
         /\ Queue!ConsumeFails(p) <=> Passes!ConsumeFails(p)
         /\ Queue!BatchFull(p) <=> Passes!BatchFull(p)
         /\ Queue!PassFails(p) <=> Passes!PassFails(p)
         /\ Queue!Callback(p) <=> Passes!Callback(p)
         /\ Queue!PassEnds(p) <=> Passes!PassEnds(p)
<1>1. Queue!Publish <=> Passes!Publish
  BY DEF Queue!Publish, Passes!Publish, Queue!clientVars, Passes!clientVars
<1>2. Queue!BrokerDeliver(p) <=> Passes!BrokerDeliver(p)
  BY DEF Queue!BrokerDeliver, Passes!BrokerDeliver, Queue!clientVars, Passes!clientVars
<1>3. Queue!BrokerAck(p) <=> Passes!BrokerAck(p)
  BY DEF Queue!BrokerAck, Passes!BrokerAck, Queue!clientVars, Passes!clientVars
<1>4. Queue!LinkLost(p) <=> Passes!LinkLost(p)
  BY DEF Queue!LinkLost, Passes!LinkLost, Queue!clientVars, Passes!clientVars, Queue!EndConsumer,
         Passes!EndConsumer, Queue!Range, Passes!Range
<1>5. Queue!Connect(p) <=> Passes!Connect(p)
  BY DEF Queue!Connect, Passes!Connect, Queue!Goto, Passes!Goto
<1>6. Queue!Consume(p) <=> Passes!Consume(p)
  BY DEF Queue!Consume, Passes!Consume, Queue!Goto, Passes!Goto
<1>7. Queue!SetupFails(p) <=> Passes!SetupFails(p)
  BY DEF Queue!SetupFails, Passes!SetupFails, Queue!Goto, Passes!Goto, Queue!brokerVars,
         Passes!brokerVars
<1>8. Queue!Receive(p) <=> Passes!Receive(p)
  BY DEF Queue!Receive, Passes!Receive, Queue!Goto, Passes!Goto
<1>9. Queue!Ack(p) <=> Passes!Ack(p)
  BY DEF Queue!Ack, Passes!Ack, Queue!Goto, Passes!Goto
<1>10. Queue!AckFails(p) <=> Passes!AckFails(p)
  BY DEF Queue!AckFails, Passes!AckFails, Queue!Goto, Passes!Goto, Queue!CloseChannel,
         Passes!CloseChannel, Queue!EndConsumer, Passes!EndConsumer, Queue!Range, Passes!Range
<1>11. Queue!ConsumeFails(p) <=> Passes!ConsumeFails(p)
  BY DEF Queue!ConsumeFails, Passes!ConsumeFails, Queue!Failures, Passes!Failures, Queue!Goto, Passes!Goto, Queue!CloseChannel,
         Passes!CloseChannel, Queue!EndConsumer, Passes!EndConsumer, Queue!Range, Passes!Range
<1>12. Queue!BatchFull(p) <=> Passes!BatchFull(p)
  BY DEF Queue!BatchFull, Passes!BatchFull, Queue!Goto, Passes!Goto, Queue!brokerVars,
         Passes!brokerVars
<1>13. Queue!PassFails(p) <=> Passes!PassFails(p)
  BY DEF Queue!PassFails, Passes!PassFails, Queue!Goto, Passes!Goto, Queue!Disconnect,
         Passes!Disconnect, Queue!CloseChannel, Passes!CloseChannel, Queue!EndConsumer,
         Passes!EndConsumer, Queue!Range, Passes!Range
<1>14. Queue!Callback(p) <=> Passes!Callback(p)
  BY DEF Queue!Callback, Passes!Callback, Queue!Goto, Passes!Goto, Queue!brokerVars,
         Passes!brokerVars
<1>15. Queue!PassEnds(p) <=> Passes!PassEnds(p)
  BY DEF Queue!PassEnds, Passes!PassEnds, Queue!Goto, Passes!Goto, Queue!Disconnect,
         Passes!Disconnect, Queue!CloseChannel, Passes!CloseChannel, Queue!EndConsumer,
         Passes!EndConsumer, Queue!Range, Passes!Range
<1> QED
  BY <1>1, <1>2, <1>3, <1>4, <1>5, <1>6, <1>7, <1>8, <1>9, <1>10, <1>11, <1>12, <1>13, <1>14, <1>15

\* A step of a pass moves the thread that makes it and no other.
LEMMA OthersStay ==
  ASSUME Passes!TypeOK, NEW p \in Programs, Passes!Pass(p)
  PROVE  /\ \A u \in Programs \ {p} : pc'[u] = pc[u]
         /\ UNCHANGED <<published, losses>>
BY DEF Passes!TypeOK, Passes!Pass, Passes!Connect, Passes!Consume, Passes!SetupFails, Passes!Receive,
       Passes!Ack, Passes!AckFails, Passes!ConsumeFails, Passes!BatchFull, Passes!PassFails,
       Passes!Callback, Passes!Discard, Passes!PassEnds, Passes!Goto, Passes!brokerVars

LEMMA ServerFacts ==
  ASSUME NEW p \in Programs, Server(p)
  PROVE  /\ Passes!Next /\ pc' = pc
         /\ UNCHANGED <<subscribed, grants, worker, serves, main, printed>>
<1>1. Passes!BrokerDeliver(p) \/ Passes!BrokerAck(p) \/ Passes!LinkLost(p)
  BY SameActions DEF Server
<1>2. Passes!Next
  BY <1>1 DEF Passes!Next
<1>3. pc' = pc
  BY <1>1 DEF Passes!BrokerDeliver, Passes!BrokerAck, Passes!LinkLost, Passes!clientVars
<1>4. UNCHANGED <<subscribed, grants, worker, serves, main, printed>>
  BY DEF Server, PassOnly, subscriptionVars
<1> QED
  BY <1>2, <1>3, <1>4

LEMMA PassFacts ==
  ASSUME NEW p \in Programs, Consume(p) \/ PassFails(p) \/ FunLibAMQP(p) \/ PassEnds(p)
  PROVE  Passes!Pass(p) /\ Passes!Next
<1>1. Passes!Pass(p)
  BY SameActions DEF Consume, PassFails, FunLibAMQP, PassEnds, Passes!Pass
<1> QED
  BY <1>1 DEF Passes!Next

\* Steps that leave the queue and the passes alone, or only publish.
LEMMA OutsideFacts ==
  ASSUME NEW p \in Programs,
         publishMsg(p) \/ SubscribeMSg(p) \/ CreateThread(p) \/ UnSubscribeMsg(p) \/ Look(p)
  PROVE  [Passes!Next]_(Passes!vars) /\ pc' = pc /\ printed' = printed
<1>1. Passes!Publish \/ UNCHANGED queueVars
  BY SameActions DEF publishMsg, SubscribeMSg, CreateThread, UnSubscribeMsg, Look
<1>2. printed' = printed
  BY DEF publishMsg, SubscribeMSg, CreateThread, UnSubscribeMsg, Look
<1>3. CASE Passes!Publish
  BY <1>2, <1>3 DEF Passes!Next, Passes!Publish, Passes!clientVars
<1>4. CASE UNCHANGED queueVars
  BY <1>2, <1>4 DEF queueVars, Passes!vars, Passes!brokerVars, Passes!clientVars
<1> QED
  BY <1>1, <1>3, <1>4

LEMMA PassStep == [Next]_vars => [Passes!Next]_(Passes!vars)
<1> SUFFICES ASSUME [Next]_vars PROVE [Passes!Next]_(Passes!vars)
  OBVIOUS
<1>1. CASE UNCHANGED vars
  BY <1>1 DEF vars, queueVars, Passes!vars, Passes!brokerVars, Passes!clientVars
<1>2. CASE Next
  BY <1>2, ServerFacts, PassFacts, OutsideFacts DEF Next, consumer_thread
<1> QED
  BY <1>1, <1>2

LEMMA ContractStep == [Next]_vars => [Subscription!CNext]_(Subscription!cvars)
<1> SUFFICES ASSUME [Next]_vars PROVE [Subscription!CNext]_(Subscription!cvars)
  OBVIOUS
<1>1. CASE UNCHANGED vars
  BY <1>1 DEF vars, subscriptionVars, Subscription!cvars
<1>2. ASSUME NEW p \in Programs, publishMsg(p) \/ Server(p) \/ Consume(p)
      PROVE  UNCHANGED Subscription!cvars
  BY <1>2 DEF publishMsg, Server, Consume, PassOnly, subscriptionVars, Subscription!cvars
<1>3. ASSUME NEW p \in Programs, SubscribeMSg(p) \/ CreateThread(p) \/ UnSubscribeMsg(p)
      PROVE  Subscription!CNext
  <2>1. 1 \in {1}
    OBVIOUS
  <2> QED
    BY <1>3, <2>1 DEF SubscribeMSg, CreateThread, UnSubscribeMsg, Subscription!CNext
<1>4. ASSUME NEW p \in Programs, Look(p) \/ PassFails(p) \/ FunLibAMQP(p) \/ PassEnds(p)
      PROVE  Subscription!CNext
  BY <1>4 DEF Look, PassFails, FunLibAMQP, PassEnds, Subscription!CNext
<1> QED
  BY <1>1, <1>2, <1>3, <1>4 DEF Next, consumer_thread

LEMMA ContractTypes ==
  ASSUME Subscription!CTypeOK, [Subscription!CNext]_(Subscription!cvars)
  PROVE  Subscription!CTypeOK'
<1>1. CASE UNCHANGED Subscription!cvars
  BY <1>1 DEF Subscription!CTypeOK, Subscription!cvars
<1>2. ASSUME NEW k \in {1}, NEW q \in Programs, Subscription!Subscribe(k, q) \/ Subscription!Forfeit(k, q)
      PROVE  Subscription!CTypeOK'
  BY <1>2 DEF Subscription!CTypeOK, Subscription!Subscribe, Subscription!Forfeit
<1>3. ASSUME NEW q \in Programs, Subscription!Unsubscribe(q)
      PROVE  Subscription!CTypeOK'
  BY <1>3 DEF Subscription!CTypeOK, Subscription!Unsubscribe
<1>4. ASSUME NEW k \in {1}, NEW q \in Programs, NEW p \in Programs, Subscription!Start(k, q, p)
      PROVE  Subscription!CTypeOK'
  BY <1>4 DEF Subscription!CTypeOK, Subscription!Start
<1>5. ASSUME NEW p \in Programs,
             \/ Subscription!Arm(p) \/ Subscription!Disarm(p) \/ Subscription!Deliver(p)
             \/ Subscription!Finish(p) \/ Subscription!Stop(p)
      PROVE  Subscription!CTypeOK'
  BY <1>5 DEF Subscription!CTypeOK, Subscription!Arm, Subscription!Disarm, Subscription!Deliver,
              Subscription!Finish, Subscription!Stop, Subscription!Move
<1> QED
  BY <1>1, <1>2, <1>3, <1>4, <1>5 DEF Subscription!CNext

-----------------------------------------------------------------------------
(* The invariant.                                                          *)

LEMMA InitInv == Init => IInv
<1> SUFFICES ASSUME Init PROVE IInv
  OBVIOUS
<1>1. Passes!Init /\ Subscription!CInit
  BY InitParts
<1>2. Passes!IInv
  BY <1>1, BoundsAreNat, Passes!InitInv
<1>3. Subscription!CTypeOK
  BY <1>1 DEF Subscription!CInit, Subscription!CTypeOK
<1>4. main \in [Programs -> 0 .. Calls + 1] /\ printed \in [Programs -> Nat]
  BY CallsIsNat DEF Init
<1>5. ASSUME NEW p \in Programs PROVE ProgramInv(p)
  BY <1>1, GetNumIsPositive DEF ProgramInv, Init, Passes!Init, Subscription!CInit
<1> QED
  BY <1>2, <1>3, <1>4, <1>5 DEF IInv, OwnTypes

\* Between two passes a thread has no connection and nothing in hand.
LEMMA CleanBetweenPasses ==
  ASSUME Passes!IInv, NEW p \in Programs
  PROVE  /\ Len(batch[p]) <= GetNum /\ Len(batch[p]) \in Nat
         /\ pc[p] = "start" => /\ link[p] = "none" /\ ~consuming[p]
                               /\ outstanding[p] = <<>> /\ batch[p] = <<>>
<1>1. Passes!TypeOK /\ Passes!WorkerInv(p)
  BY DEF Passes!IInv
<1>2. batch \in [Programs -> Seq(Passes!Msgs)]
  BY <1>1 DEF Passes!TypeOK
<1>3. batch[p] \in Seq(Passes!Msgs)
  BY <1>2
<1>4. Len(batch[p]) \in Nat
  BY <1>3
<1> QED
  BY <1>1, <1>4 DEF Passes!WorkerInv, Passes!PhaseInv

\* What a step of one program leaves alone for the others.
Apart(p) ==
  \A u \in Programs \ {p} :
    /\ worker'[u] = worker[u] /\ serves'[u] = serves[u] /\ pc'[u] = pc[u]
    /\ main'[u] = main[u] /\ printed'[u] = printed[u] /\ (u \in subscribed' <=> u \in subscribed)

LEMMA ApartKeeps ==
  ASSUME NEW p \in Programs, Apart(p), \A u \in Programs : ProgramInv(u), ProgramInv(p)'
  PROVE  \A u \in Programs : ProgramInv(u)'
<1>1. ASSUME NEW u \in Programs \ {p} PROVE ProgramInv(u)'
  BY DEF Apart, ProgramInv, Unsubscribed
<1> QED
  BY <1>1

LEMMA MainKeeps ==
  ASSUME IInv, NEW p \in Programs,
         publishMsg(p) \/ SubscribeMSg(p) \/ CreateThread(p) \/ UnSubscribeMsg(p)
  PROVE  main' \in [Programs -> 0 .. Calls + 1] /\ Apart(p) /\ ProgramInv(p)'
<1>1. pc' = pc /\ printed' = printed
  BY OutsideFacts
<1>2. OwnTypes /\ ProgramInv(p)
  BY DEF IInv
<1>3. CASE publishMsg(p)
  <2>1. /\ main[p] < Calls /\ main' = [main EXCEPT ![p] = @ + 1]
        /\ UNCHANGED <<subscribed, worker, serves>>
    BY <1>3 DEF publishMsg, subscriptionVars
  <2>2. printed[p] = 0
    BY <1>2, <2>1, CallsIsNat DEF OwnTypes, ProgramInv, Unsubscribed
  <2> QED
    BY <1>1, <1>2, <2>1, <2>2, CallsIsNat DEF OwnTypes, Apart, ProgramInv
<1>4. CASE SubscribeMSg(p)
  <2>1. /\ main[p] = Calls /\ main' = [main EXCEPT ![p] = Calls + 1]
        /\ subscribed' = subscribed \cup {p} /\ UNCHANGED <<worker, serves>>
    BY <1>4 DEF SubscribeMSg, Subscription!Subscribe
  <2>2. printed[p] = 0
    BY <1>2, <2>1, CallsIsNat DEF OwnTypes, ProgramInv, Unsubscribed
  <2> QED
    BY <1>1, <1>2, <2>1, <2>2, CallsIsNat DEF OwnTypes, Apart, ProgramInv
<1>5. CASE CreateThread(p)
  <2>1. /\ main' = main /\ subscribed' = subscribed
        /\ \/ UNCHANGED <<worker, serves>>
           \/ /\ worker[p] = "unborn" /\ worker' = [worker EXCEPT ![p] = "idle"]
              /\ serves' = [serves EXCEPT ![p] = p]
    BY <1>5 DEF CreateThread, Subscription!Start, Subscription!Forfeit
  <2> QED
    BY <1>1, <1>2, <2>1 DEF OwnTypes, Subscription!CTypeOK, Apart, ProgramInv, Unsubscribed
<1>6. CASE UnSubscribeMsg(p)
  <2>1. /\ main' = main /\ subscribed' = subscribed \ {p} /\ UNCHANGED <<worker, serves>>
    BY <1>6 DEF UnSubscribeMsg, Subscription!Unsubscribe
  <2> QED
    BY <1>1, <1>2, <2>1 DEF OwnTypes, Apart, ProgramInv, Unsubscribed
<1> QED
  BY <1>3, <1>4, <1>5, <1>6

\* The step of a subscription's thread from one state to another.
LEMMA MoveFacts ==
  ASSUME OwnTypes, NEW p \in Programs, NEW from, NEW to, Subscription!Move(p, from, to)
  PROVE  /\ worker[p] = from /\ worker'[p] = to /\ UNCHANGED <<subscribed, serves>>
         /\ \A u \in Programs \ {p} : worker'[u] = worker[u]
BY DEF OwnTypes, Subscription!CTypeOK, Subscription!Move

LEMMA LookKeeps ==
  ASSUME IInv, NEW p \in Programs, Look(p)
  PROVE  main' = main /\ Apart(p) /\ ProgramInv(p)'
<1>1. pc' = pc /\ printed' = printed /\ main' = main
  BY OutsideFacts DEF Look
<1>2. OwnTypes /\ ProgramInv(p)
  BY DEF IInv
<1>3. CASE Subscription!Arm(p)
  <2>1. serves[p] \in subscribed /\ Subscription!Move(p, "idle", "armed")
    BY <1>3 DEF Subscription!Arm
  <2>2. worker[p] = "idle" /\ worker'[p] = "armed" /\ UNCHANGED <<subscribed, serves>>
        /\ \A u \in Programs \ {p} : worker'[u] = worker[u]
    BY <1>2, <2>1, MoveFacts
  <2>3. printed[p] = 0
    BY <1>2, <2>1, <2>2 DEF ProgramInv, Unsubscribed
  <2> QED
    BY <1>1, <1>2, <2>2, <2>3 DEF Apart, ProgramInv
<1>4. CASE Subscription!Stop(p)
  <2>1. Subscription!Move(p, "idle", "gone")
    BY <1>4 DEF Subscription!Stop
  <2>2. worker[p] = "idle" /\ worker'[p] = "gone" /\ UNCHANGED <<subscribed, serves>>
        /\ \A u \in Programs \ {p} : worker'[u] = worker[u]
    BY <1>2, <2>1, MoveFacts
  <2> QED
    BY <1>1, <1>2, <2>2 DEF Apart, ProgramInv, Unsubscribed
<1> QED
  BY <1>3, <1>4 DEF Look

LEMMA ThreadKeeps ==
  ASSUME IInv, NEW p \in Programs, Consume(p) \/ PassFails(p) \/ FunLibAMQP(p) \/ PassEnds(p)
  PROVE  main' = main /\ printed' \in [Programs -> Nat] /\ Apart(p) /\ ProgramInv(p)'
<1>1. \A u \in Programs \ {p} : pc'[u] = pc[u]
  BY PassFacts, OthersStay DEF IInv, Passes!IInv
<1>2. OwnTypes /\ ProgramInv(p) /\ Passes!TypeOK
  BY DEF IInv, Passes!IInv
<1>3. CASE Consume(p)
  <2>1. worker[p] = "armed" /\ UNCHANGED <<subscribed, worker, serves, main, printed>>
    BY <1>3 DEF Consume, PassOnly, subscriptionVars
  <2> QED
    BY <1>1, <1>2, <2>1 DEF OwnTypes, Apart, ProgramInv
<1>4. CASE PassFails(p)
  <2>1. Subscription!Move(p, "armed", "idle") /\ UNCHANGED <<main, printed>>
    BY <1>4 DEF PassFails, Subscription!Disarm
  <2>2. pc'[p] = "start"
    BY <1>2, <1>4, SameActions DEF PassFails, Passes!PassFails, Passes!Goto, Passes!TypeOK
  <2>3. worker[p] = "armed" /\ worker'[p] = "idle" /\ UNCHANGED <<subscribed, serves>>
        /\ \A u \in Programs \ {p} : worker'[u] = worker[u]
    BY <1>2, <2>1, MoveFacts
  <2> QED
    BY <1>1, <1>2, <2>1, <2>2, <2>3 DEF OwnTypes, Apart, ProgramInv
<1>5. CASE FunLibAMQP(p)
  <2>1. /\ Subscription!Move(p, "armed", "delivering") /\ main' = main
        /\ printed' = [printed EXCEPT ![p] = IF Unsubscribed(p) THEN @ + Len(batch[p]) ELSE @]
    BY <1>5 DEF FunLibAMQP, Subscription!Deliver
  <2>2. worker[p] = "armed" /\ worker'[p] = "delivering" /\ UNCHANGED <<subscribed, serves>>
        /\ \A u \in Programs \ {p} : worker'[u] = worker[u]
    BY <1>2, <2>1, MoveFacts
  <2>3. printed[p] = 0 /\ Len(batch[p]) \in Nat /\ Len(batch[p]) <= GetNum
    BY <1>2, <2>2, CleanBetweenPasses DEF ProgramInv, IInv
  <2>4. /\ printed'[p] \in Nat /\ printed'[p] <= GetNum /\ (printed'[p] # 0 => Unsubscribed(p))
        /\ \A u \in Programs \ {p} : printed'[u] = printed[u]
        /\ printed' \in [Programs -> Nat]
    BY <1>2, <2>1, <2>3, GetNumIsPositive DEF OwnTypes
  <2> QED
    BY <1>1, <1>2, <2>1, <2>2, <2>4 DEF Apart, ProgramInv, Unsubscribed
<1>6. CASE PassEnds(p)
  <2>1. Subscription!Move(p, "delivering", "idle") /\ UNCHANGED <<main, printed>>
    BY <1>6 DEF PassEnds, Subscription!Finish
  <2>2. pc'[p] = "start"
    BY <1>2, <1>6, SameActions DEF PassEnds, Passes!PassEnds, Passes!Goto, Passes!TypeOK
  <2>3. worker[p] = "delivering" /\ worker'[p] = "idle" /\ UNCHANGED <<subscribed, serves>>
        /\ \A u \in Programs \ {p} : worker'[u] = worker[u]
    BY <1>2, <2>1, MoveFacts
  <2> QED
    BY <1>1, <1>2, <2>1, <2>2, <2>3 DEF OwnTypes, Apart, ProgramInv, Unsubscribed
<1> QED
  BY <1>3, <1>4, <1>5, <1>6

LEMMA StepKeeps == IInv /\ [Next]_vars => IInv'
<1> SUFFICES ASSUME IInv, [Next]_vars PROVE IInv'
  OBVIOUS
<1>1. Passes!IInv'
  <2>1. Passes!IInv /\ [Passes!Next]_(Passes!vars)
    BY PassStep DEF IInv
  <2> QED
    BY <2>1, BoundsAreNat, Passes!StepInv
<1>2. Subscription!CTypeOK'
  BY ContractStep, ContractTypes DEF IInv, OwnTypes
<1>3. main \in [Programs -> 0 .. Calls + 1] /\ printed \in [Programs -> Nat]
      /\ \A u \in Programs : ProgramInv(u)
  BY DEF IInv, OwnTypes
<1> DEFINE Goal == /\ main' \in [Programs -> 0 .. Calls + 1] /\ printed' \in [Programs -> Nat]
                   /\ \A u \in Programs : ProgramInv(u)'
<1>4. Goal
  <2>1. CASE UNCHANGED vars
    <3>1. UNCHANGED <<subscribed, worker, serves, pc, main, printed>>
      BY <2>1 DEF vars, subscriptionVars, queueVars
    <3> QED
      BY <1>3, <3>1 DEF ProgramInv, Unsubscribed
  <2>2. ASSUME NEW p \in Programs, publishMsg(p) \/ SubscribeMSg(p) \/ CreateThread(p) \/ UnSubscribeMsg(p)
        PROVE  Goal
    BY <1>3, <2>2, MainKeeps, OutsideFacts, ApartKeeps
  <2>3. ASSUME NEW p \in Programs, Look(p)
        PROVE  Goal
    BY <1>3, <2>3, LookKeeps, OutsideFacts, ApartKeeps
  <2>4. ASSUME NEW p \in Programs, Consume(p) \/ PassFails(p) \/ FunLibAMQP(p) \/ PassEnds(p)
        PROVE  Goal
    BY <1>3, <2>4, ThreadKeeps, ApartKeeps
  <2>5. ASSUME NEW p \in Programs, Server(p)
        PROVE  Goal
    BY <1>3, <2>5, ServerFacts DEF ProgramInv, Unsubscribed
  <2> QED
    BY <2>1, <2>2, <2>3, <2>4, <2>5 DEF Next, consumer_thread
<1> QED
  BY <1>1, <1>2, <1>4 DEF IInv, OwnTypes

LEMMA Invariance == Spec => []IInv
BY InitInv, StepKeeps, PTL DEF Spec

-----------------------------------------------------------------------------

\* Every variable keeps its type, those of the parts included.
THEOREM TypeCorrect == Spec => []TypeOK
<1>1. Passes!TypeOK <=> Queue!TypeOK
  BY DEF Passes!TypeOK, Queue!TypeOK, Passes!Msgs, Queue!Msgs
<1>2. IInv => TypeOK
  BY <1>1 DEF IInv, OwnTypes, TypeOK, Passes!IInv
<1> QED
  BY <1>2, Invariance, PTL

\* The passes of the programs' threads over their queue are behaviours of
\* ConsumerWorker (RabbitMq.cpp:50-73, LibRabbitMq.cpp:17-43).
THEOREM PassesAsSpecified == Spec => Passes!Spec
<1>1. Init => Passes!Init
  BY InitParts
<1> QED
  BY <1>1, PassStep, PTL DEF Spec, Passes!Spec

\* The programs' subscriptions keep the contract of ILibRabbitMqBase
\* (LibRabbitMq.h:70-81, LibRabbitMq.cpp:33-41).
THEOREM SubscriptionsAsPromised == Spec => Subscription!CSafety
<1>1. Init => Subscription!CInit
  BY InitParts
<1> QED
  BY <1>1, ContractStep, PTL DEF Spec, Subscription!CSafety

\* No message of the shared queue vanishes, whichever programs serve it and
\* whenever they unsubscribe: what ConsumerWorker promises of one queue.
THEOREM SystemLosesNothing == Spec => []Passes!NothingVanishes
BY PassesAsSpecified, BoundsAreNat, Passes!NothingIsLost, PTL

\* Each link that breaks costs the programs at most one batch, and makes at most one
\* more delivery of a message (RabbitMQ_Adapter.cpp:384-406, LibRabbitMq.cpp:17-43).
THEOREM SystemPaysPerLoss == Spec => [](Passes!EachLossOneBatch /\ Passes!RepeatsNeedLosses)
BY PassesAsSpecified, BoundsAreNat, Passes!OneBatchALoss, Passes!OneRepeatALoss, PTL

\* A thread that has stopped leaves no connection, holds no message and has none
\* reserved at the server (RabbitMq.cpp:60, 71-79).
THEOREM GoneIsClean == Spec => []GoneHoldsNothing
<1>1. ASSUME IInv, NEW p \in Programs, worker[p] = "gone"
      PROVE  link[p] = "none" /\ ~consuming[p] /\ outstanding[p] = <<>> /\ batch[p] = <<>>
  <2>1. pc[p] = "start"
    BY <1>1 DEF IInv, ProgramInv
  <2> QED
    BY <1>1, <2>1, CleanBetweenPasses DEF IInv
<1>2. IInv => GoneHoldsNothing
  BY <1>1 DEF GoneHoldsNothing
<1> QED
  BY <1>2, Invariance, PTL

\* After UnSubscribeMsg has returned a program prints at most one batch
\* (RabbitMq.cpp:43-80, 141-154).
THEOREM LastBatch == Spec => []OneBatchAfterUnsubscribe
<1>1. IInv => OneBatchAfterUnsubscribe
  BY DEF IInv, ProgramInv, OneBatchAfterUnsubscribe
<1> QED
  BY <1>1, Invariance, PTL

-----------------------------------------------------------------------------
(* The order of what is printed.                                           *)

\* At most one program has ever had a thread.
Alone == \A p, q \in Programs : p # q => worker[p] = "unborn" \/ worker[q] = "unborn"

OrderInv == Alone => Passes!OrderInv

\* Then passes do not overlap: a program without a thread is in none.
LEMMA AloneIsOnePass ==
  ASSUME IInv, Alone
  PROVE  Passes!OnePassAtATime
<1>1. \A p \in Programs : worker[p] = "unborn" => pc[p] = "start"
  BY DEF IInv, ProgramInv
<1> QED
  BY <1>1 DEF Alone, Passes!OnePassAtATime

\* A thread was created once and for all.
LEMMA BornStays ==
  ASSUME OwnTypes, [Subscription!CNext]_(Subscription!cvars), NEW p \in Programs, worker[p] # "unborn"
  PROVE  worker'[p] # "unborn"
<1>1. CASE UNCHANGED Subscription!cvars
  BY <1>1 DEF Subscription!cvars
<1>2. ASSUME NEW k \in {1}, NEW q \in Programs, Subscription!Subscribe(k, q) \/ Subscription!Forfeit(k, q)
      PROVE  worker' = worker
  BY <1>2 DEF Subscription!Subscribe, Subscription!Forfeit
<1>3. ASSUME NEW q \in Programs, Subscription!Unsubscribe(q)
      PROVE  worker' = worker
  BY <1>3 DEF Subscription!Unsubscribe
<1>4. ASSUME NEW k \in {1}, NEW q \in Programs, NEW u \in Programs, Subscription!Start(k, q, u)
      PROVE  worker'[p] # "unborn"
  BY <1>4 DEF OwnTypes, Subscription!CTypeOK, Subscription!Start
<1>5. ASSUME NEW u \in Programs,
             \/ Subscription!Arm(u) \/ Subscription!Disarm(u) \/ Subscription!Deliver(u)
             \/ Subscription!Finish(u) \/ Subscription!Stop(u)
      PROVE  worker'[p] # "unborn"
  <2>1. \E from, to \in {"idle", "armed", "delivering", "gone"} : Subscription!Move(u, from, to)
    BY <1>5 DEF Subscription!Arm, Subscription!Disarm, Subscription!Deliver, Subscription!Finish,
                Subscription!Stop
  <2> QED
    BY <2>1, MoveFacts
<1> QED
  BY <1>1, <1>2, <1>3, <1>4, <1>5 DEF Subscription!CNext

LEMMA OrderStep == IInv /\ OrderInv /\ [Next]_vars => OrderInv'
<1> SUFFICES ASSUME IInv, OrderInv, [Next]_vars, Alone'
             PROVE  Passes!OrderInv'
  BY DEF OrderInv
<1>1. Alone
  <2>1. \A p \in Programs : worker'[p] = "unborn" => worker[p] = "unborn"
    BY ContractStep, BornStays DEF IInv
  <2> QED
    BY <2>1 DEF Alone
<1>2. Passes!IInv /\ Passes!OrderInv /\ Passes!OnePassAtATime /\ [Passes!Next]_(Passes!vars)
  BY <1>1, AloneIsOnePass, PassStep DEF IInv, OrderInv
<1> QED
  BY <1>2, BoundsAreNat, Passes!OrderStep

\* While one program alone has ever had a thread it prints in the order of
\* publication, repeats aside, whoever published: what ConsumerWorker promises
\* while passes do not overlap (LibRabbitMq.cpp:17-43, RabbitMq.cpp:43-80).
THEOREM PrintsInOrder == Spec => []PrintedInOrder
<1>1. Init => OrderInv
  BY InitParts, BoundsAreNat, Passes!OrderInit DEF OrderInv
<1>2. ASSUME OrderInv PROVE PrintedInOrder
  BY <1>2 DEF OrderInv, Alone, PrintedInOrder, Passes!OrderInv, Passes!OutOfOrderIsRepeat,
              Queue!OutOfOrderIsRepeat
<1> QED
  BY <1>1, <1>2, OrderStep, Invariance, PTL DEF Spec
=============================================================================
