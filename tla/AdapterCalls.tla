---------------------------- MODULE AdapterCalls ----------------------------
(***************************************************************************)
(* CRabbitMQ_Adapter, or the proxy before it, in the hands of a program    *)
(* that makes its calls in any order, one connection after the other.      *)
(* ConsumerWorker and PublishPath follow the two orders of CRabbitMq.      *)
(*                                                                         *)
(* The broker is external: queues and exchanges, durable or transient, a   *)
(* channel that can be opened once, is closed by a request that is refused *)
(* and takes its connection with it when it is opened twice; restarts,     *)
(* which what is durable and persistent survives; queues that go with      *)
(* their connection; others who delete what the program uses; requests     *)
(* refused for reasons of the server's own.                                *)
(*                                                                         *)
(* A call is one step, except publish, whose messages are written one by   *)
(* one.  exchange_declare, queue_declare, queue_bind and queue_unbind do   *)
(* not ask for a connection; without one they are undefined and not made   *)
(* here.  Three of them return no value on success: Garbage.               *)
(***************************************************************************)
EXTENDS Integers, Sequences, SequencesExt

CONSTANTS
  Queues,           \* queues, and the keys they are bound with
  Exchanges,
  DefaultExchange,  \* "cfdefault.direct"
  Nobody,
  MaxCalls,         \* bound: calls of publish
  MaxVector,        \* bound: messages of one
  MaxRestarts       \* bound: restarts of the server

ASSUME DefaultIsExchange == DefaultExchange \in Exchanges
ASSUME NobodyIsNoQueue == Nobody \notin Queues
\* A string is a vector of one.
ASSUME BoundsAreNat == MaxCalls \in Nat /\ MaxVector \in Nat \ {0} /\ MaxRestarts \in Nat

Garbage == -9
Lifetimes == {"absent", "durable", "transient"}

\* Delivery modes, m_durable of CMessage: 2 is persistent.
Modes == {1, 2}

\* The n-th message of a call of publish; plain if the call was given a string.
Messages == [call : 1 .. MaxCalls, n : 1 .. MaxVector, mode : Modes, plain : BOOLEAN]

\* Mutant: a message is transient unless the user says otherwise.
CMessage_Transient == 1

\* The mode of CMessage(data).  Copies and assignments keep it.
CMessage == 2

\* What CQueue and CExchange say of a declaration; copies and assignments keep it.
QueueAttributes ==
  [durable : {"durable", "transient"}, passive : BOOLEAN, exclusive : BOOLEAN, auto_delete : BOOLEAN]
ExchangeAttributes == [durable : {"durable", "transient"}, passive : BOOLEAN]

\* The queue of CQueue(name, durable), which is also the one that consumer declares
\* whatever its CQueue says; a consumer by name asks for a durable one.
CQueue(durable) == [durable |-> durable, passive |-> FALSE, exclusive |-> FALSE, auto_delete |-> FALSE]

\* reply_type of amqp_rpc_reply_t.
amqp_response_type_enum ==
  [NONE |-> 0, NORMAL |-> 1, LIBRARY_EXCEPTION |-> 2, SERVER_EXCEPTION |-> 3]

Failures == Range(amqp_response_type_enum) \ {amqp_response_type_enum.NORMAL}

\* The properties a basic.publish may carry, each announced by a flag.
amqp_basic_properties_t ==
  {"content_type", "content_encoding", "headers", "delivery_mode", "priority", "correlation_id",
   "reply_to", "expiration", "message_id", "timestamp", "type", "user_id", "app_id", "cluster_id"}

VARIABLES
  queues, exchanges,  \* their lifetimes
  exclusive,          \* queues that go with the connection of the program
  auto_delete,        \* queues that go with their last consumer
  bindings,           \* <<exchange, queue, key>>
  contents,           \* the messages ready in a queue
  m_conn,             \* "NULL", "up", or "down": set, and of no use
  account,            \* m_user and m_psw are an account of the server
  channel,            \* m_channel is open at the server
  consuming,          \* the queue of the consumer the connection has, or Nobody
  held,               \* messages sent ahead to it
  m_exchange,
  pc, publishing, written, to,  \* a publish in progress: its vector, how much of it is written, its key
  ret,                \* what the last call returned
  asked,              \* history: GetNum, if that was a consumer, or 0
  calls, restarts,
  arrived,            \* history: n of the messages of the last publish, per queue
  failed,             \* history: n of those whose own write failed
  cut, disturbed,     \* history: the connection went, the topology changed, during it
  kept,               \* history: messages of publish(string) that reached a queue that lasts
  gone                \* history: messages acknowledged, or in a queue that was deleted

topology == <<queues, exclusive, auto_delete, exchanges, bindings>>
session == <<m_conn, channel, consuming, held>>
progress == <<pc, publishing, written, to, calls, arrived, failed, cut, disturbed>>
vars == <<topology, contents, session, account, m_exchange, progress, ret, asked, restarts, kept, gone>>

TypeOK ==
  /\ queues \in [Queues -> Lifetimes] /\ exchanges \in [Exchanges -> Lifetimes]
  /\ exclusive \subseteq Queues /\ auto_delete \subseteq Queues
  /\ bindings \subseteq Exchanges \X Queues \X Queues
  /\ contents \in [Queues -> Seq(Messages)] /\ held \in Seq(Messages)
  /\ m_conn \in {"NULL", "up", "down"} /\ account \in BOOLEAN
  /\ channel \in BOOLEAN /\ (channel => m_conn = "up")
  /\ consuming \in Queues \cup {Nobody}
  /\ m_exchange \in Exchanges
  /\ pc \in {"idle", "publish"} /\ publishing \in Seq(Messages)
  /\ written \in 0 .. Len(publishing) /\ to \in Queues
  /\ ret \in {Garbage} \cup -4 .. MaxCalls * MaxVector
  /\ asked \in 0 .. MaxVector
  /\ calls \in 0 .. MaxCalls /\ restarts \in 0 .. MaxRestarts
  /\ arrived \in [Queues -> SUBSET (1 .. MaxVector)]
  /\ failed \subseteq 1 .. MaxVector /\ cut \in BOOLEAN /\ disturbed \in BOOLEAN
  /\ kept \subseteq Messages /\ gone \subseteq Messages

Init ==
  /\ queues = [q \in Queues |-> "absent"] /\ exchanges \in [Exchanges -> Lifetimes]
  /\ exclusive = {} /\ auto_delete = {} /\ bindings = {}
  /\ contents = [q \in Queues |-> <<>>] /\ held = <<>>
  /\ m_conn = "NULL" /\ account \in BOOLEAN /\ channel = FALSE /\ consuming = Nobody
  /\ m_exchange = DefaultExchange
  /\ pc = "idle" /\ publishing = <<>> /\ written = 0 /\ to \in Queues
  /\ ret = 0 /\ asked = 0 /\ calls = 0 /\ restarts = 0
  /\ arrived = [q \in Queues |-> {}] /\ failed = {} /\ cut = FALSE /\ disturbed = FALSE
  /\ kept = {} /\ gone = {}

-----------------------------------------------------------------------------
(* The broker and the network.                                             *)

\* What publish sends of a message's properties: those it assigns.  The rest of
\* the record is never initialised and not announced.
flags == {"content_type", "delivery_mode"} \cap amqp_basic_properties_t
props(m) == [p \in flags |-> IF p = "delivery_mode" THEN m.mode ELSE "text/plain"]

\* Its exclusive queues go with a connection.
WithoutExclusive(lives) == [q \in Queues |-> IF q \in exclusive THEN "absent" ELSE lives[q]]

\* So does the session; what was sent ahead returns to its place.
EndSession ==
  /\ channel' = FALSE /\ consuming' = Nobody /\ held' = <<>>
  /\ queues' = WithoutExclusive(queues)
  /\ exclusive' = {} /\ auto_delete' = auto_delete \ exclusive
  /\ bindings' = {b \in bindings : b[2] \notin exclusive}
  /\ contents' = [q \in Queues |-> CASE q \in exclusive -> <<>>
                                     [] q \notin exclusive /\ q = consuming -> held \o contents[q]
                                     [] q \notin exclusive /\ q # consuming -> contents[q]]

LinkLost ==
  /\ m_conn = "up" /\ m_conn' = "down"
  /\ EndSession
  /\ cut' = (pc = "publish")
  /\ UNCHANGED <<exchanges, account, m_exchange, pc, publishing, written, to, calls, arrived, failed, disturbed,
                 ret, asked, restarts, kept, gone>>

\* A message that does not say so is not persistent.
Survivor(m) == "delivery_mode" \in DOMAIN props(m) /\ props(m)["delivery_mode"] = 2

\* Those of a queue's messages, in order.
Survivors(s) ==
  LET upto[i \in 0 .. Len(s)] ==
        IF i = 0 THEN <<>> ELSE IF Survivor(s[i]) THEN Append(upto[i - 1], s[i]) ELSE upto[i - 1]
  IN upto[Len(s)]

\* Durable exclusive queues go with the connection that they belong to.
Restart ==
  LET stay == {q \in Queues : queues[q] = "durable" /\ q \notin exclusive}
      back(q) == IF consuming = q THEN held \o contents[q] ELSE contents[q]
  IN
  /\ restarts < MaxRestarts
  /\ restarts' = restarts + 1
  /\ queues' = [q \in Queues |-> IF q \in stay THEN "durable" ELSE "absent"]
  /\ exclusive' = {} /\ auto_delete' = auto_delete \cap stay
  /\ exchanges' = [x \in Exchanges |-> IF exchanges[x] = "durable" THEN "durable" ELSE "absent"]
  /\ bindings' = {b \in bindings : exchanges[b[1]] = "durable" /\ b[2] \in stay}
  /\ contents' = [q \in Queues |-> IF q \in stay THEN Survivors(back(q)) ELSE <<>>]
  /\ m_conn' = IF m_conn = "up" THEN "down" ELSE m_conn
  /\ channel' = FALSE /\ consuming' = Nobody /\ held' = <<>>
  /\ cut' = (pc = "publish")
  /\ UNCHANGED <<account, m_exchange, pc, publishing, written, to, calls, arrived, failed, disturbed, ret, asked,
                 kept, gone>>

Delete(q) ==
  /\ queues' = [queues EXCEPT ![q] = "absent"]
  /\ exclusive' = exclusive \ {q} /\ auto_delete' = auto_delete \ {q}
  /\ bindings' = {b \in bindings : b[2] # q}
  /\ contents' = [contents EXCEPT ![q] = <<>>]
  /\ gone' = gone \cup Range(contents[q]) \cup (IF consuming = q THEN Range(held) ELSE {})
  /\ held' = IF consuming = q THEN <<>> ELSE held
  /\ UNCHANGED exchanges

\* Others delete what the program uses, or stop to consume from an auto_delete
\* queue.  The program does not: consumer cannot declare one.
OthersDelete ==
  /\ \/ \E q \in Queues : Delete(q)
     \/ \E x \in Exchanges :
          /\ exchanges' = [exchanges EXCEPT ![x] = "absent"]
          /\ bindings' = {b \in bindings : b[1] # x}
          /\ UNCHANGED <<queues, exclusive, auto_delete, contents, held, gone>>
  /\ disturbed' = (pc = "publish")
  /\ UNCHANGED <<m_conn, channel, consuming, account, m_exchange, pc, publishing, written, to, calls,
                 arrived, failed, cut, ret, asked, restarts, kept>>

-----------------------------------------------------------------------------
(* Connections.                                                            *)

AnswerOf(GetNum, value) ==
  /\ pc = "idle"
  /\ asked' = GetNum /\ ret' = value
  /\ UNCHANGED <<progress, account, restarts, kept>>

\* The answer of a call that is not a consumer.
Answer(value) == AnswerOf(0, value)

\* A second Connect on a live connection, which would forget it, is not made.
Connect ==
  /\ m_conn # "up"
  /\ \/ Answer(-1) /\ m_conn' = "NULL"
     \/ \E code \in -4 .. -2 : Answer(code) /\ m_conn' = "down"
     \/ account /\ Answer(0) /\ m_conn' = "up"
  /\ UNCHANGED <<topology, contents, channel, consuming, held, m_exchange, gone>>

\* Mutant: the connection is forgotten, not closed.
Disconnect_OnlyForgets ==
  /\ Answer(0) /\ m_conn' = "NULL"
  /\ UNCHANGED <<topology, contents, channel, consuming, held, m_exchange, gone>>

\* It fails when the connection cannot be closed or not be destroyed.
Disconnect ==
  /\ \/ m_conn # "down" /\ Answer(0) /\ m_conn' = "NULL"
     \/ m_conn # "NULL" /\ Answer(-1) /\ m_conn' = "down"
  /\ EndSession
  /\ UNCHANGED <<exchanges, m_exchange, gone>>

\* setUser and setPassword take effect with the next Connect.
SetAccount ==
  /\ pc = "idle"
  /\ account' \in BOOLEAN
  /\ UNCHANGED <<topology, contents, session, m_exchange, progress, ret, asked, restarts, kept, gone>>

-----------------------------------------------------------------------------
(* Calls that fail.                                                        *)

\* 1 for a normal reply, -1 for none, a library or a server exception.
AssertError(reply_type) == IF reply_type = amqp_response_type_enum.NORMAL THEN 1 ELSE -1

CanOpen == m_conn = "up" /\ ~channel

\* The calls that look for a connection, and those that do not and fail with
\* their first request.  A channel opened twice costs the connection.
CannotOpen ==
  /\ ~CanOpen
  /\ Answer(AssertError(IF m_conn = "NULL" THEN amqp_response_type_enum.NONE
                                           ELSE amqp_response_type_enum.LIBRARY_EXCEPTION))
  /\ m_conn' = IF m_conn = "up" THEN "down" ELSE m_conn
  /\ EndSession
  /\ UNCHANGED <<exchanges, m_exchange, gone>>

\* Mutant: a call that fails leaves the channel as it is.
Refused_KeepsChannel ==
  /\ CanOpen
  /\ Answer(AssertError(amqp_response_type_enum.SERVER_EXCEPTION))
  /\ channel' = TRUE
  /\ UNCHANGED <<topology, contents, m_conn, consuming, held, m_exchange, gone>>

\* Any request may be refused; the channel is closed all the same.
Refused ==
  /\ CanOpen
  /\ Answer(AssertError(amqp_response_type_enum.SERVER_EXCEPTION))
  /\ UNCHANGED <<topology, contents, session, m_exchange, gone>>

-----------------------------------------------------------------------------
(* Calls that succeed.                                                     *)

Acceptable(life, a) == IF a.passive THEN life # "absent" ELSE life \in {"absent", a.durable}

Declared(life, a) == IF life = "absent" THEN a.durable ELSE life

exchange_declare(x, a) ==
  /\ CanOpen /\ Acceptable(exchanges[x], a)
  /\ Answer(0)
  /\ exchanges' = [exchanges EXCEPT ![x] = Declared(@, a)]
  /\ m_exchange' = x
  /\ UNCHANGED <<queues, exclusive, auto_delete, bindings, contents, session, gone>>

\* A queue that exists is declared again only as what it is.
AcceptableQueue(q, a) ==
  /\ Acceptable(queues[q], a)
  /\ (queues[q] # "absent" /\ ~a.passive) =>
        a.exclusive = (q \in exclusive) /\ a.auto_delete = (q \in auto_delete)

DeclaredIn(flagged, q, flag) == IF queues[q] = "absent" /\ flag THEN flagged \cup {q} ELSE flagged

\* Both declare the queue; the first answers no value, the second the number of
\* messages.
DeclareQueue(q, a, value) ==
  /\ CanOpen /\ AcceptableQueue(q, a)
  /\ Answer(value)
  /\ queues' = [queues EXCEPT ![q] = Declared(@, a)]
  /\ exclusive' = DeclaredIn(exclusive, q, a.exclusive)
  /\ auto_delete' = DeclaredIn(auto_delete, q, a.auto_delete)
  /\ UNCHANGED <<exchanges, bindings, contents, session, m_exchange, gone>>

queue_declare(q, a) == DeclareQueue(q, a, Garbage)

getMessageCount(q, a) == DeclareQueue(q, a, Len(contents[q]))

queue_bind(q, x, key) ==
  /\ CanOpen /\ queues[q] # "absent" /\ exchanges[x] # "absent"
  /\ Answer(Garbage)
  /\ bindings' = bindings \cup {<<x, q, key>>}
  /\ UNCHANGED <<queues, exclusive, auto_delete, exchanges, contents, session, m_exchange, gone>>

queue_unbind(q, x, key) ==
  /\ CanOpen
  /\ Answer(Garbage)
  /\ bindings' = bindings \ {<<x, q, key>>}
  /\ UNCHANGED <<queues, exclusive, auto_delete, exchanges, contents, session, m_exchange, gone>>

queue_delete(q) ==
  /\ CanOpen
  /\ Answer(0)
  /\ Delete(q)
  /\ UNCHANGED <<m_conn, channel, consuming, m_exchange>>

\* The first `got` messages of a queue are taken and acknowledged.
Rest(q, got) == SubSeq(contents[q], got + 1, Len(contents[q]))
Take(q, got) == got <= Len(contents[q]) /\ gone' = gone \cup Range(SubSeq(contents[q], 1, got))

\* The loop took all it was asked for: the channel stays open with its consumer,
\* to which as many again may have been sent ahead; any number if it asked for 0,
\* which sets no limit.
consumer_full(q, durable, GetNum) ==
  /\ Take(q, GetNum)
  /\ AnswerOf(GetNum, GetNum)
  /\ channel' = TRUE /\ consuming' = q
  /\ \E ahead \in 0 .. Len(Rest(q, GetNum)) :
       /\ GetNum = 0 \/ ahead <= GetNum
       /\ held' = SubSeq(Rest(q, GetNum), 1, ahead)
       /\ contents' = [contents EXCEPT ![q] = Rest(q, GetNum + ahead)]
  /\ queues' = [queues EXCEPT ![q] = Declared(@, CQueue(durable))]
  /\ UNCHANGED <<exclusive, auto_delete, bindings, m_conn>>

\* A timeout, or another reply that is not normal, ended it; or, with nothing
\* taken, the queue was declared and basic.consume refused.
consumer_short(q, durable, GetNum) ==
  /\ \E got \in 0 .. GetNum - 1, type \in Failures :
       /\ Take(q, got)
       /\ \E value \in IF got = 0 THEN {-type, AssertError(type)} ELSE {got} : AnswerOf(GetNum, value)
       /\ contents' = [contents EXCEPT ![q] = Rest(q, got)]
  /\ queues' = [queues EXCEPT ![q] = Declared(@, CQueue(durable))]
  /\ UNCHANGED <<exclusive, auto_delete, bindings, m_conn, channel, consuming, held>>

\* The link broke: an acknowledgement failed, or the loop ended as in the others;
\* of the messages in the vector the broker has seen some acknowledged.
consumer_broken(q, durable, GetNum) ==
  /\ \E read \in 0 .. GetNum : \E got \in 0 .. read :
       /\ read <= Len(contents[q]) /\ Take(q, got)
       /\ \E value \in IF read = 0 /\ GetNum > 0 THEN {-1, -amqp_response_type_enum.LIBRARY_EXCEPTION}
                       ELSE {-1, read} : AnswerOf(GetNum, value)
       /\ contents' = [p \in Queues |-> CASE p = q -> Rest(q, got)
                                          [] p # q /\ p \in exclusive -> <<>>
                                          [] p # q /\ p \notin exclusive -> contents[p]]
  /\ m_conn' = "down"
  /\ queues' = WithoutExclusive([queues EXCEPT ![q] = Declared(@, CQueue(durable))])
  /\ exclusive' = {} /\ auto_delete' = auto_delete \ exclusive
  /\ bindings' = {b \in bindings : b[2] \notin exclusive}
  /\ UNCHANGED <<channel, consuming, held>>

consumer(q, durable, GetNum) ==
  /\ CanOpen /\ AcceptableQueue(q, CQueue(durable))
  /\ \/ consumer_full(q, durable, GetNum)
     \/ consumer_short(q, durable, GetNum)
     \/ consumer_broken(q, durable, GetNum)
  /\ UNCHANGED <<exchanges, m_exchange>>

-----------------------------------------------------------------------------
(* publish.                                                                *)

\* The vector, and a CMessage or a string as a vector of one.
Vectors ==
  (UNION {[1 .. len -> [mode : Modes, plain : {FALSE}]] : len \in 0 .. MaxVector})
    \cup {<<[mode |-> CMessage, plain |-> TRUE]>>}

publish(vector, key) ==
  /\ pc = "idle" /\ pc' = "publish"
  /\ CanOpen /\ channel' = TRUE
  /\ calls < MaxCalls /\ calls' = calls + 1
  /\ publishing' = [n \in DOMAIN vector |->
       [call |-> calls', n |-> n, mode |-> vector[n].mode, plain |-> vector[n].plain]]
  /\ written' = 0 /\ to' = key
  /\ UNCHANGED <<topology, contents, m_conn, consuming, held, account, m_exchange, arrived, failed, cut,
                 disturbed, ret, asked, restarts, kept, gone>>

\* A queue that neither restarts nor other connections' ends remove.
Lasting(q) == queues[q] = "durable" /\ q \notin exclusive \cup auto_delete

Route(m) ==
  LET targets == {q \in Queues : <<m_exchange, q, to>> \in bindings} IN
  /\ contents' = [q \in Queues |-> IF q \in targets THEN Append(contents[q], m) ELSE contents[q]]
  /\ arrived' = [q \in Queues |-> IF q \in targets THEN arrived[q] \cup {m.n} ELSE arrived[q]]
  /\ kept' = IF m.plain /\ \E q \in targets : Lasting(q) THEN kept \cup {m} ELSE kept

WriteNext ==
  /\ written < Len(publishing)
  /\ written' = written + 1
  /\ UNCHANGED <<topology, m_conn, consuming, held, account, m_exchange, pc, publishing, to, calls, cut,
                 disturbed, ret, asked, restarts, gone>>

\* Mutant: the vector is written from its end.
Write_Backwards ==
  /\ WriteNext
  /\ IF channel /\ exchanges[m_exchange] # "absent"
     THEN \/ Route(Reverse(publishing)[written']) /\ UNCHANGED <<channel, failed>>
          \/ failed' = failed \cup {written'} /\ UNCHANGED <<channel, contents, arrived, kept>>
     ELSE channel' = FALSE /\ UNCHANGED <<contents, arrived, failed, kept>>

\* amqp_basic_publish may fail for one message, although the channel is open.  The
\* server closes the channel of a message for an exchange it does not have, and
\* takes no other.  A write that fails is judged by the reply to the request before
\* it, which opened the channel: publish goes on.
Write ==
  /\ WriteNext
  /\ IF channel /\ exchanges[m_exchange] # "absent"
     THEN \/ Route(publishing[written']) /\ UNCHANGED <<channel, failed>>
          \/ failed' = failed \cup {written'} /\ UNCHANGED <<channel, contents, arrived, kept>>
     ELSE channel' = FALSE /\ UNCHANGED <<contents, arrived, failed, kept>>

publish_end ==
  /\ pc = "publish" /\ written = Len(publishing)
  /\ pc' = "idle" /\ channel' = FALSE /\ asked' = 0 /\ ret' = 0
  /\ publishing' = <<>> /\ written' = 0
  /\ arrived' = [q \in Queues |-> {}] /\ failed' = {} /\ cut' = FALSE /\ disturbed' = FALSE
  /\ UNCHANGED <<topology, contents, m_conn, consuming, held, account, m_exchange, to, calls, restarts, kept,
                 gone>>

CRabbitMQ_Adapter ==
  \/ Connect \/ Disconnect \/ SetAccount \/ CannotOpen \/ Refused
  \/ \E x \in Exchanges, a \in ExchangeAttributes : exchange_declare(x, a)
  \/ \E q \in Queues, a \in QueueAttributes : queue_declare(q, a) \/ getMessageCount(q, a)
  \/ \E q \in Queues, x \in Exchanges, key \in Queues : queue_bind(q, x, key) \/ queue_unbind(q, x, key)
  \/ \E q \in Queues : queue_delete(q)
  \/ \E q \in Queues, durable \in {"durable", "transient"}, GetNum \in 0 .. MaxVector : consumer(q, durable, GetNum)
  \/ \E vector \in Vectors, key \in Queues : publish(vector, key)
  \/ Write \/ publish_end

\* It forwards every call.
CRabbitMQ_Proxy == CRabbitMQ_Adapter

Next == CRabbitMQ_Proxy \/ LinkLost \/ Restart \/ OthersDelete

Spec == Init /\ [][Next]_vars

-----------------------------------------------------------------------------
(* Safety.                                                                 *)

\* Between two calls the channel is open only behind a consumer that got exactly
\* what it asked for, be it nothing: no call but the one after it costs the
\* connection, however the calls before failed (RabbitMQ_Adapter.cpp:94-284,
\* 316-349, 380-406).
OpenOnlyBehindConsumer ==
  (pc = "idle" /\ channel) => consuming # Nobody /\ ret = asked

\* What publish(string) put into a durable queue that is neither exclusive nor
\* auto_delete is lost neither to restarts of the server nor to links and consumers
\* that go: it is in a queue until it is acknowledged or its queue deleted
\* (MessageBody.h:29, 77-78, RabbitMQ_Adapter.cpp:191, 219-223).
PlainMessagesSurvive ==
  kept \subseteq gone \cup Range(held) \cup UNION {Range(contents[q]) : q \in Queues}

\* Of the messages of a publish, those aside whose own write failed, a queue gets
\* the first ones in order, and all that were written or none while the connection
\* holds, although publish goes on after a write that failed and answers 0 in any
\* case; unless others change the topology meanwhile
\* (RabbitMQ_Adapter.cpp:184-209).
AllOrPrefix ==
  ~disturbed => \A q \in Queues :
    \E k \in 0 .. written : arrived[q] = (1 .. k) \ failed /\ (~cut => k \in {0, written})
=============================================================================
