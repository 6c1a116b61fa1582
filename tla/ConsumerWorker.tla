--------------------------- MODULE ConsumerWorker ---------------------------
(***************************************************************************)
(* One pass of consumerWorker over its queue (RabbitMq.cpp:50-73) through  *)
(* CRabbitMQ_Adapter: Connect, consumer, the callback, Disconnect.  Several *)
(* workers may serve the queue (a queue that was unsubscribed and          *)
(* subscribed again keeps its old thread).                                 *)
(*                                                                         *)
(* The broker is external: a queue in publication order, to whose original *)
(* place unsettled messages return, deliveries up to the prefetch limit of *)
(* basic.qos, acknowledgements that travel and may be lost with the link.  *)
(* Both overloads of consumer have this control; they differ in the type   *)
(* of the message.  A Connect that fails changes nothing here: the pass    *)
(* returns true and is made again.                                         *)
(***************************************************************************)
EXTENDS Integers, Sequences, FiniteSets, Functions

CONSTANTS
  Workers,
  GetNum,     \* the messages of one pass (10 in the code), and the prefetch limit
  NumMsgs,    \* bound: messages published
  MaxLosses,  \* bound: links lost
  MaxDiscards \* bound: passes that find no callback

ASSUME GetNumIsPositive == GetNum \in Nat \ {0}
ASSUME BoundsAreNat == NumMsgs \in Nat /\ MaxLosses \in Nat /\ MaxDiscards \in Nat

Msgs == 1 .. NumMsgs

VARIABLES
  published,    \* messages 1 .. published have reached the queue
  ready,        \* those waiting in it
  outstanding,  \* delivered to a worker's consumer and not settled, in order
  wire,         \* deliveries its client has not read
  acks,         \* acknowledgements the broker has not processed
  consuming,    \* the broker knows a consumer of the worker
  link,         \* "none", "up", or "down" and the worker does not know
  losses,       \* history: links lost
  pc,
  batch,        \* vgetmsg
  ret,          \* what consumer returned
  delivered,    \* history: what the callback was given, in order
  dropped,      \* history: messages in batches that were thrown away
  discards      \* history: passes that found no callback

brokerVars == <<published, ready, outstanding, wire, acks, consuming, link, losses>>
clientVars == <<pc, batch, ret>>
vars == <<brokerVars, clientVars, delivered, dropped, discards>>

TypeOK ==
  /\ published \in 0 .. NumMsgs
  /\ ready \subseteq Msgs
  /\ outstanding \in [Workers -> Seq(Msgs)]
  /\ wire \in [Workers -> Seq(Msgs)]
  /\ acks \in [Workers -> 0 .. GetNum]
  /\ consuming \in [Workers -> BOOLEAN]
  /\ link \in [Workers -> {"none", "up", "down"}]
  /\ losses \in 0 .. MaxLosses
  /\ pc \in [Workers -> {"start", "open", "loop", "ack", "return", "close"}]
  /\ batch \in [Workers -> Seq(Msgs)]
  /\ ret \in [Workers -> -3 .. GetNum]
  /\ delivered \in Seq(Msgs)
  /\ dropped \subseteq Msgs
  /\ discards \in 0 .. MaxDiscards

Init ==
  /\ published = 0 /\ ready = {} /\ losses = 0
  /\ outstanding = [w \in Workers |-> <<>>]
  /\ wire = [w \in Workers |-> <<>>]
  /\ acks = [w \in Workers |-> 0]
  /\ consuming = [w \in Workers |-> FALSE]
  /\ link = [w \in Workers |-> "none"]
  /\ pc = [w \in Workers |-> "start"]
  /\ batch = [w \in Workers |-> <<>>]
  /\ ret = [w \in Workers |-> 0]
  /\ delivered = <<>>
  /\ dropped = {} /\ discards = 0

-----------------------------------------------------------------------------
(* The broker and the network.                                             *)

Publish ==
  /\ published < NumMsgs
  /\ published' = published + 1
  /\ ready' = ready \cup {published'}
  /\ UNCHANGED <<outstanding, wire, acks, consuming, link, losses, clientVars, delivered,
                 dropped, discards>>

BrokerDeliver(w) ==
  /\ link[w] = "up" /\ consuming[w]
  /\ Len(outstanding[w]) < GetNum
  /\ \E first \in ready :
       /\ \A m \in ready : first <= m
       /\ ready' = ready \ {first}
       /\ outstanding' = [outstanding EXCEPT ![w] = Append(@, first)]
       /\ wire' = [wire EXCEPT ![w] = Append(@, first)]
  /\ UNCHANGED <<published, acks, consuming, link, losses, clientVars, delivered, dropped,
                 discards>>

BrokerAck(w) ==
  /\ link[w] = "up"
  /\ acks[w] > 0
  /\ acks' = [acks EXCEPT ![w] = @ - 1]
  /\ outstanding' = [outstanding EXCEPT ![w] = Tail(@)]
  /\ UNCHANGED <<published, ready, wire, consuming, link, losses, clientVars, delivered,
                 dropped, discards>>

\* The consumer of w goes; its first n unsettled messages are settled and the
\* others return to the queue.
EndConsumer(w, n) ==
  /\ ready' = ready \cup Range(SubSeq(outstanding[w], n + 1, Len(outstanding[w])))
  /\ outstanding' = [outstanding EXCEPT ![w] = <<>>]
  /\ acks' = [acks EXCEPT ![w] = 0]
  /\ consuming' = [consuming EXCEPT ![w] = FALSE]

\* The acknowledgements under way are lost; what was read from the socket, or
\* waits in it, is not.
LinkLost(w) ==
  /\ link[w] = "up"
  /\ losses < MaxLosses
  /\ losses' = losses + 1
  /\ link' = [link EXCEPT ![w] = "down"]
  /\ EndConsumer(w, 0)
  /\ UNCHANGED <<published, wire, clientVars, delivered, dropped, discards>>

\* Closing the channel or the connection: the acknowledgements sent before
\* it arrive before it.
CloseChannel(w) ==
  /\ EndConsumer(w, acks[w])
  /\ wire' = [wire EXCEPT ![w] = <<>>]

-----------------------------------------------------------------------------
(* The worker.                                                             *)

Goto(w, from, to) ==
  /\ pc[w] = from
  /\ pc' = [pc EXCEPT ![w] = to]

Connect(w) ==
  /\ Goto(w, "start", "open")
  /\ link' = [link EXCEPT ![w] = "up"]
  /\ UNCHANGED <<published, ready, outstanding, wire, acks, consuming, losses, batch, ret,
                 delivered, dropped, discards>>

\* The channel is opened, the queue declared, the limit set and the consumer
\* registered; each of them may fail, with nothing got.
Consume(w) ==
  /\ Goto(w, "open", "loop")
  /\ link[w] = "up"
  /\ consuming' = [consuming EXCEPT ![w] = TRUE]
  /\ UNCHANGED <<published, ready, outstanding, wire, acks, link, losses, batch, ret,
                 delivered, dropped, discards>>

SetupFails(w) ==
  /\ Goto(w, "open", "return")
  /\ ret' = [ret EXCEPT ![w] = -1]
  /\ UNCHANGED <<brokerVars, batch, delivered, dropped, discards>>

\* Mutant: the body is put in front of the others.
Receive_PushesFront(w) ==
  /\ Len(batch[w]) < GetNum
  /\ wire[w] # <<>>
  /\ Goto(w, "loop", "ack")
  /\ batch' = [batch EXCEPT ![w] = <<Head(wire[w])>> \o @]
  /\ wire' = [wire EXCEPT ![w] = Tail(@)]
  /\ UNCHANGED <<published, ready, outstanding, acks, consuming, link, losses, ret,
                 delivered, dropped, discards>>

\* amqp_consume_message answers and the body is pushed back.
Receive(w) ==
  /\ Len(batch[w]) < GetNum
  /\ wire[w] # <<>>
  /\ Goto(w, "loop", "ack")
  /\ batch' = [batch EXCEPT ![w] = Append(@, Head(wire[w]))]
  /\ wire' = [wire EXCEPT ![w] = Tail(@)]
  /\ UNCHANGED <<published, ready, outstanding, acks, consuming, link, losses, ret,
                 delivered, dropped, discards>>

\* Mutant: everything prefetched is acknowledged (delivery tag 0).
Ack_AllDelivered(w) ==
  /\ Goto(w, "ack", "loop")
  /\ acks' = IF link[w] = "up" THEN [acks EXCEPT ![w] = Len(outstanding[w])] ELSE acks
  /\ UNCHANGED <<published, ready, outstanding, wire, consuming, link, losses, batch, ret,
                 delivered, dropped, discards>>

\* Mutant: nothing is acknowledged.
Ack_Forgotten(w) ==
  /\ Goto(w, "ack", "loop")
  /\ UNCHANGED <<brokerVars, batch, ret, delivered, dropped, discards>>

\* basic_ack with multiple = 1: this message, and all before it, which were
\* acknowledged already.  Written to a dead link it may still return 0.
Ack(w) ==
  /\ Goto(w, "ack", "loop")
  /\ acks' = IF link[w] = "up" THEN [acks EXCEPT ![w] = @ + 1] ELSE acks
  /\ UNCHANGED <<published, ready, outstanding, wire, consuming, link, losses, batch, ret,
                 delivered, dropped, discards>>

AckFails(w) ==
  /\ Goto(w, "ack", "return")
  /\ link[w] = "down"
  /\ ret' = [ret EXCEPT ![w] = -1]
  /\ CloseChannel(w)
  /\ UNCHANGED <<published, link, losses, batch, delivered, dropped, discards>>

\* The reply types that are not AMQP_RESPONSE_NORMAL: none, a library
\* exception (a timeout is one), a server exception.
Failures == {0, 2, 3}

\* Mutant: minus the type whether or not something was got.
ConsumeFails_IgnoresHasget(w) ==
  /\ Len(batch[w]) < GetNum
  /\ Goto(w, "loop", "return")
  /\ \E type \in Failures : ret' = [ret EXCEPT ![w] = -type]
  /\ CloseChannel(w)
  /\ UNCHANGED <<published, link, losses, batch, delivered, dropped, discards>>

\* Mutant: reply_type as it is.
ConsumeFails_Positive(w) ==
  /\ Len(batch[w]) < GetNum
  /\ Goto(w, "loop", "return")
  /\ IF batch[w] = <<>> THEN \E type \in Failures : ret' = [ret EXCEPT ![w] = type]
     ELSE ret' = [ret EXCEPT ![w] = Len(batch[w])]
  /\ CloseChannel(w)
  /\ UNCHANGED <<published, link, losses, batch, delivered, dropped, discards>>

\* With nothing in hand minus the type of the reply is returned (0 for none),
\* else what was got.
ConsumeFails(w) ==
  /\ Len(batch[w]) < GetNum
  /\ Goto(w, "loop", "return")
  /\ IF batch[w] = <<>> THEN \E type \in Failures : ret' = [ret EXCEPT ![w] = -type]
     ELSE ret' = [ret EXCEPT ![w] = Len(batch[w])]
  /\ CloseChannel(w)
  /\ UNCHANGED <<published, link, losses, batch, delivered, dropped, discards>>

\* GetNum messages: the channel stays open until Disconnect.
BatchFull(w) ==
  /\ Len(batch[w]) = GetNum
  /\ Goto(w, "loop", "return")
  /\ ret' = [ret EXCEPT ![w] = GetNum]
  /\ UNCHANGED <<brokerVars, batch, delivered, dropped, discards>>

\* Disconnect, from the code or from the destructor of the proxy.
Disconnect(w) ==
  /\ CloseChannel(w)
  /\ link' = [link EXCEPT ![w] = "none"]
  /\ batch' = [batch EXCEPT ![w] = <<>>]
  /\ ret' = [ret EXCEPT ![w] = 0]

\* consumer returned less than 0: vgetmsg goes with the pass.
PassFails(w) ==
  /\ ret[w] < 0
  /\ Goto(w, "return", "start")
  /\ dropped' = dropped \cup Range(batch[w])
  /\ Disconnect(w)
  /\ UNCHANGED <<published, losses, delivered, discards>>

\* Mutant: only a full batch is handed over.
Callback_FullOnly(w) ==
  /\ ret[w] >= 0
  /\ Goto(w, "return", "close")
  /\ delivered' = IF ret[w] = GetNum THEN delivered \o batch[w] ELSE delivered
  /\ UNCHANGED <<brokerVars, batch, ret, dropped, discards>>

Callback(w) ==
  /\ ret[w] >= 0
  /\ Goto(w, "return", "close")
  /\ delivered' = delivered \o batch[w]
  /\ UNCHANGED <<brokerVars, batch, ret, dropped, discards>>

\* There is no callback (pfunCB is 0): vgetmsg goes with the pass.
Discard(w) ==
  /\ ret[w] >= 0
  /\ discards < MaxDiscards
  /\ Goto(w, "return", "close")
  /\ discards' = discards + 1
  /\ dropped' = dropped \cup Range(batch[w])
  /\ UNCHANGED <<brokerVars, batch, ret, delivered>>

PassEnds(w) ==
  /\ Goto(w, "close", "start")
  /\ Disconnect(w)
  /\ UNCHANGED <<published, losses, delivered, dropped, discards>>

Pass(w) ==
  \/ Connect(w) \/ Consume(w) \/ SetupFails(w)
  \/ Receive(w) \/ Ack(w) \/ AckFails(w) \/ ConsumeFails(w) \/ BatchFull(w)
  \/ PassFails(w) \/ Callback(w) \/ Discard(w) \/ PassEnds(w)

Next ==
  \/ Publish
  \/ \E w \in Workers : BrokerDeliver(w) \/ BrokerAck(w) \/ LinkLost(w) \/ Pass(w)

Spec == Init /\ [][Next]_vars
-----------------------------------------------------------------------------
(* Safety.                                                                 *)

AtBroker == ready \cup UNION {Range(outstanding[w]) : w \in Workers}
InHand == UNION {Range(batch[w]) : w \in Workers}

\* No message vanishes: one the broker has settled was given to the callback,
\* is in the batch of a pass, or was in a batch that was thrown away
\* (RabbitMQ_Adapter.cpp:393-405, RabbitMq.cpp:56-70).
NothingVanishes ==
  1 .. published \subseteq AtBroker \cup InHand \cup Range(delivered) \cup dropped

\* Only a link lost in the midst of a batch and a pass without a callback throw
\* messages away, each at most one batch: a timeout or a server exception hands
\* over what was got before it (RabbitMQ_Adapter.cpp:384-391, 396-402,
\* RabbitMq.cpp:59-69).
EachLossOneBatch == Cardinality(dropped) <= (losses + discards) * GetNum

\* A message is delivered again at most once for each link lost, and never without,
\* whichever workers serve the queue and wherever their passes are cut short
\* (RabbitMQ_Adapter.cpp:384-405).
RepeatsNeedLosses ==
  \A m \in Msgs : Cardinality({i \in DOMAIN delivered : delivered[i] = m}) <= 1 + losses

\* With one worker, what the callback gets out of publication order it has been
\* given before: links lost repeat messages, they do not reorder them.
OutOfOrderIsRepeat ==
  \A i, j \in DOMAIN delivered :
    (i < j /\ delivered[j] < delivered[i]) => \E k \in 1 .. i : delivered[k] = delivered[j]

\* consumerWorker takes any return of at least 0 for a batch: it is then the
\* number of the messages in vgetmsg, 0 only when there is none.  A failure is
\* not taken for messages nor a batch for a failure, whichever reply ends the
\* loop (RabbitMQ_Adapter.cpp:388-391, 406, RabbitMq.cpp:59).
BatchReturned ==
  \A w \in Workers : pc[w] = "return" /\ ret[w] >= 0 => ret[w] = Len(batch[w])

\* What a user who need not care about the state of the connection expects
\* (LibRabbitMq.h:73): no published message is lost to the callback.
NoMessageLost ==
  1 .. published \subseteq AtBroker \cup InHand \cup Range(delivered)

-----------------------------------------------------------------------------
(* Liveness.                                                               *)

\* Every pass goes on.  Of the channels and consumers that are tried again and
\* again one succeeds at last, and of the deliveries that the broker can make
\* again and again one is made, and one read before the timeout; it need not be
\* the same worker's.
Fairness ==
  /\ \A w \in Workers : WF_vars(Pass(w))
  /\ SF_vars(\E w \in Workers : Consume(w))
  /\ SF_vars(\E w \in Workers : BrokerDeliver(w))
  /\ SF_vars(\E w \in Workers : Receive(w))

FairSpec == Spec /\ Fairness

\* Every message published reaches the callback in the end, or was in a batch that
\* was thrown away: no failing pass strands what it prefetched
\* (RabbitMQ_Adapter.cpp:384-391, RabbitMq.cpp:29-41).
EveryMessageArrives == []<>(1 .. published \subseteq Range(delivered) \cup dropped)
=============================================================================
