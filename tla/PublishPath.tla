---------------------------- MODULE PublishPath ----------------------------
(***************************************************************************)
(* publishMsg (RabbitMq.cpp:82-121) by several threads at once, through    *)
(* CRabbitMQ_Adapter: Connect, exchange_declare, queue_declare,            *)
(* queue_bind, publish, Disconnect, each call on a connection of its own.  *)
(*                                                                         *)
(* The broker is external: exchanges, queues and bindings that the calls   *)
(* share and that may exist beforehand with other attributes, and a link   *)
(* per call that may break.  queue_declare and queue_bind end without a    *)
(* return statement when they succeed (RabbitMQ_Adapter.cpp:133, 149): the *)
(* value their caller compares with 0 is any integer, so either branch is  *)
(* taken.                                                                  *)
(***************************************************************************)
EXTENDS Naturals, FiniteSets

CONSTANTS
  Publishers,
  Exchanges,
  DefaultExchange,  \* "cfdefault.direct", m_exchange of a new adapter
  Queues,
  None,
  Prior,            \* bindings that there may be beforehand
  MaxCalls,         \* bound: calls of one publisher
  MaxLosses         \* bound: links lost

ASSUME DefaultIsExchange == DefaultExchange \in Exchanges
ASSUME BoundsAreNat == MaxCalls \in Nat /\ MaxLosses \in Nat
\* Those of earlier calls.  With a binding of others under another key a message goes
\* where they want it.
ASSUME PriorIsOwn == Prior \subseteq {<<x, q, q>> : x \in Exchanges, q \in Queues}
ASSUME NoneIsNoQueue == None \notin Queues \cup Exchanges

\* The n-th call of a publisher and its message.
Messages == Publishers \X (1 .. MaxCalls)

VARIABLES
  kind,      \* per exchange: "absent", "direct" and durable, or "other", which
             \* publishMsg cannot declare
  declared,  \* per queue: "absent", "durable" or "other"
  bindings,  \* <<exchange, queue, key>>
  routed,    \* per message: the queues it was put into
  pc, call,  \* where a publisher is, and how many calls it began
  target,    \* per message: the exchange and the queue it was published to
  exchange,  \* m_exchange of the call's adapter
  link,      \* "none", "up" or "down"
  wire,      \* the exchange of a message that was written and not processed
  answer,    \* per message: what publishMsg returned
  broken,    \* history: messages whose link was lost
  ignored    \* history: messages whose exchange_declare or amqp_basic_publish failed,
             \* until their call returns false

topology == <<kind, declared, bindings>>
vars == <<topology, routed, pc, call, target, exchange, link, wire, answer, broken, ignored>>

TypeOK ==
  /\ kind \in [Exchanges -> {"absent", "direct", "other"}]
  /\ declared \in [Queues -> {"absent", "durable", "other"}]
  /\ bindings \subseteq Exchanges \X Queues \X Queues
  /\ routed \in [Messages -> SUBSET Queues]
  /\ pc \in [Publishers -> {"idle", "connect", "exchange", "queue", "bind", "open", "write", "close"}]
  /\ call \in [Publishers -> 0 .. MaxCalls]
  /\ target \in [Messages -> (Exchanges \X Queues) \cup {None}]
  /\ exchange \in [Publishers -> Exchanges]
  /\ link \in [Publishers -> {"none", "up", "down"}]
  /\ wire \in [Publishers -> Exchanges \cup {None}]
  /\ answer \in [Messages -> {"none", "true", "false"}]
  /\ broken \subseteq Messages /\ ignored \subseteq Messages

Init ==
  /\ kind \in [Exchanges -> {"absent", "direct", "other"}]
  /\ declared \in [Queues -> {"absent", "durable", "other"}]
  /\ bindings \in SUBSET {b \in Prior : kind[b[1]] # "absent" /\ declared[b[2]] # "absent"}
  /\ routed = [m \in Messages |-> {}]
  /\ pc = [p \in Publishers |-> "idle"]
  /\ call = [p \in Publishers |-> 0]
  /\ target = [m \in Messages |-> None]
  /\ exchange = [p \in Publishers |-> DefaultExchange]
  /\ link = [p \in Publishers |-> "none"]
  /\ wire = [p \in Publishers |-> None]
  /\ answer = [m \in Messages |-> "none"]
  /\ broken = {} /\ ignored = {}

message(p) == <<p, call[p]>>
exchangename(p) == target[message(p)][1]
queueName(p) == target[message(p)][2]

Goto(p, from, to) ==
  /\ pc[p] = from
  /\ pc' = [pc EXCEPT ![p] = to]
-----------------------------------------------------------------------------
(* The broker and the network.                                             *)

\* A direct exchange routes by the key, another one to all its queues, an
\* absent one nowhere (the channel is closed, and nobody asks why).
Matches(x, key) ==
  CASE kind[x] = "direct" -> {b[2] : b \in {c \in bindings : c[1] = x /\ c[3] = key}}
    [] kind[x] = "other" -> {b[2] : b \in {c \in bindings : c[1] = x}}
    [] kind[x] = "absent" -> {}

LinkLost(p) ==
  /\ link[p] = "up"
  /\ Cardinality(broken) < MaxLosses
  /\ link' = [link EXCEPT ![p] = "down"]
  /\ wire' = [wire EXCEPT ![p] = None]
  /\ broken' = broken \cup {message(p)}
  /\ UNCHANGED <<topology, routed, pc, call, target, exchange, answer, ignored>>

-----------------------------------------------------------------------------
(* publishMsg.                                                             *)

Begin(p, x, q) ==
  /\ call[p] < MaxCalls
  /\ Goto(p, "idle", "connect")
  /\ call' = [call EXCEPT ![p] = @ + 1]
  /\ target' = [target EXCEPT ![<<p, call[p] + 1>>] = <<x, q>>]
  /\ exchange' = [exchange EXCEPT ![p] = DefaultExchange]
  /\ UNCHANGED <<topology, routed, link, wire, answer, broken, ignored>>

\* Return, with Disconnect by the code or by the destructor of the proxy.
\* Locals die: m_exchange of the next call starts anew.
Return(p, from, result) ==
  /\ Goto(p, from, "idle")
  /\ answer' = [answer EXCEPT ![message(p)] = result]
  /\ link' = [link EXCEPT ![p] = "none"]
  /\ exchange' = [exchange EXCEPT ![p] = DefaultExchange]
  /\ ignored' = IF result = "false" THEN ignored \ {message(p)} ELSE ignored

Connect(p) ==
  /\ Goto(p, "connect", "exchange")
  /\ link' = [link EXCEPT ![p] = "up"]
  /\ UNCHANGED <<topology, routed, call, target, exchange, wire, answer, broken, ignored>>

ConnectFails(p) ==
  /\ Return(p, "connect", "false")
  /\ UNCHANGED <<topology, routed, call, target, wire, broken>>

\* Mutant: the adapter keeps the exchange it was built with.
DeclareExchange_Forgotten(p) ==
  LET x == exchangename(p) IN
  /\ Goto(p, "exchange", "queue")
  /\ link[p] = "up" /\ kind[x] \in {"absent", "direct"}
  /\ kind' = [kind EXCEPT ![x] = "direct"]
  /\ UNCHANGED <<declared, bindings, routed, call, target, exchange, link, wire, answer, broken, ignored>>

\* The adapter remembers an exchange that it declared.
DeclareExchange(p) ==
  LET x == exchangename(p) IN
  /\ Goto(p, "exchange", "queue")
  /\ link[p] = "up" /\ kind[x] \in {"absent", "direct"}
  /\ kind' = [kind EXCEPT ![x] = "direct"]
  /\ exchange' = [exchange EXCEPT ![p] = x]
  /\ UNCHANGED <<declared, bindings, routed, call, target, link, wire, answer, broken, ignored>>

\* Mutant: m_exchange is deleted before the reply is looked at.
DeclareExchangeFails_Deletes(p) ==
  /\ Goto(p, "exchange", "queue")
  /\ ignored' = ignored \cup {message(p)}
  /\ exchange' = [exchange EXCEPT ![p] = None]
  /\ UNCHANGED <<topology, routed, call, target, link, wire, answer, broken>>

\* Other attributes, a lost link, or a server that refuses for reasons of its own:
\* permissions, limits, a channel that it takes for closed.  It may have declared
\* the exchange and the answer not be understood.  publishMsg goes on.
DeclareExchangeFails(p) ==
  LET x == exchangename(p) IN
  /\ Goto(p, "exchange", "queue")
  /\ ignored' = ignored \cup {message(p)}
  /\ \/ link[p] = "up" /\ kind[x] = "absent" /\ kind' = [kind EXCEPT ![x] = "direct"]
     \/ UNCHANGED kind
  /\ UNCHANGED <<declared, bindings, routed, call, target, exchange, link, wire, answer, broken>>

DeclareQueue(p) ==
  LET q == queueName(p) IN
  /\ link[p] = "up" /\ declared[q] \in {"absent", "durable"}
  /\ declared' = [declared EXCEPT ![q] = "durable"]
  /\ \/ Goto(p, "queue", "bind") /\ UNCHANGED <<answer, link, exchange, ignored>>
     \/ Return(p, "queue", "false")
  /\ UNCHANGED <<kind, bindings, routed, call, target, wire, broken>>

\* As that of the exchange, but publishMsg looks at it.
DeclareQueueFails(p) ==
  /\ Return(p, "queue", "false")
  /\ UNCHANGED <<topology, routed, call, target, wire, broken>>

\* Mutant: one key for every queue.
RoutingKey_Shared(p) == CHOOSE q \in Queues : TRUE

\* The key a queue is bound with, and the one its messages are sent with.
RoutingKey(p) == queueName(p)

BindQueue(p) ==
  LET x == exchangename(p) IN
  /\ link[p] = "up" /\ kind[x] # "absent"
  /\ bindings' = bindings \cup {<<x, queueName(p), RoutingKey(p)>>}
  /\ \/ Goto(p, "bind", "open") /\ UNCHANGED <<answer, link, exchange, ignored>>
     \/ Return(p, "bind", "false")
  /\ UNCHANGED <<kind, declared, routed, call, target, wire, broken>>

BindQueueFails(p) ==
  /\ Return(p, "bind", "false")
  /\ UNCHANGED <<topology, routed, call, target, wire, broken>>

OpenChannel(p) ==
  /\ Goto(p, "open", "write")
  /\ link[p] = "up"
  /\ UNCHANGED <<topology, routed, call, target, exchange, link, wire, answer, broken, ignored>>

OpenChannelFails(p) ==
  /\ Return(p, "open", "false")
  /\ UNCHANGED <<topology, routed, call, target, wire, broken>>

Write(p) ==
  /\ Goto(p, "write", "close")
  /\ wire' = [wire EXCEPT ![p] = IF link[p] = "up" THEN exchange[p] ELSE None]
  /\ UNCHANGED <<topology, routed, call, target, exchange, link, answer, broken, ignored>>

\* amqp_basic_publish does not return 0, but the reply that AssertError looks
\* at is the one of the channel_open before it, also on a link that is up: publish
\* goes on.
WriteFails(p) ==
  /\ Goto(p, "write", "close")
  /\ ignored' = ignored \cup {message(p)}
  /\ UNCHANGED <<topology, routed, call, target, exchange, link, wire, answer, broken>>

\* The broker takes a message that was written before the close of the
\* channel, which the code waits for.
Route(p) ==
  /\ wire[p] # None
  /\ routed' = [routed EXCEPT ![message(p)] = Matches(wire[p], RoutingKey(p))]
  /\ wire' = [wire EXCEPT ![p] = None]
  /\ UNCHANGED <<topology, pc, call, target, exchange, link, answer, broken, ignored>>

\* Mutant: publishMsg returns what Disconnect does.
Finish_Disconnect(p) ==
  /\ wire[p] = None
  /\ Return(p, "close", IF link[p] = "up" THEN "true" ELSE "false")
  /\ UNCHANGED <<topology, routed, call, target, wire, broken>>

Finish(p) ==
  /\ wire[p] = None
  /\ Return(p, "close", "true")
  /\ UNCHANGED <<topology, routed, call, target, wire, broken>>

publishMsg(p) ==
  \/ \E x \in Exchanges, q \in Queues : Begin(p, x, q)
  \/ Connect(p) \/ ConnectFails(p)
  \/ DeclareExchange(p) \/ DeclareExchangeFails(p)
  \/ DeclareQueue(p) \/ DeclareQueueFails(p)
  \/ BindQueue(p) \/ BindQueueFails(p)
  \/ OpenChannel(p) \/ OpenChannelFails(p)
  \/ Write(p) \/ WriteFails(p) \/ Finish(p)

Next == \E p \in Publishers : publishMsg(p) \/ Route(p) \/ LinkLost(p)

Spec == Init /\ [][Next]_vars

-----------------------------------------------------------------------------
(* Safety.                                                                 *)

Target(m) == target[m][2]

\* A call that returned false queued nothing and never will: it may be made
\* again without a second copy (RabbitMq.cpp:90-117).
FalseMeansNotQueued ==
  \A m \in Messages : answer[m] = "false" => routed[m] = {}

\* A call that returned true put its message into its queue, unless one of the
\* failures that it does not report came about: of exchange_declare, whose result
\* is dropped, of amqp_basic_publish, judged by an earlier reply, or of the link.
\* No failure of queue_declare, queue_bind or channel_open, no garbage they
\* return and no other call makes a true answer wrong
\* (RabbitMq.cpp:90-120, RabbitMQ_Adapter.cpp:133, 149, 197-205).
TrueMeansQueuedOrIgnored ==
  \A m \in Messages :
    answer[m] = "true" => Target(m) \in routed[m] \/ m \in broken \cup ignored

\* A message is put into no queue but its own, although calls share exchanges
\* and one that could not declare its exchange publishes to cfdefault.direct,
\* unless that is not a direct exchange (RabbitMQ_Adapter.cpp:111-112, 193-197).
OnlyTheTarget ==
  kind[DefaultExchange] # "other" => \A m \in Messages : \A q \in routed[m] : q = Target(m)

\* What the comment in publishMsg says it does (RabbitMq.cpp:111): put the
\* message into the queue of the given route.
TrueMeansQueued ==
  \A m \in Messages : answer[m] = "true" => Target(m) \in routed[m]
=============================================================================
