------------------------ MODULE AdapterCalls_proofs ------------------------
(***************************************************************************)
(* Proofs about AdapterCalls for any queues, exchanges and bounds: the     *)
(* channel between two calls, and what a publish leaves in each queue.     *)
(***************************************************************************)
EXTENDS AdapterCalls, WireCodec_proofs

\* The types that the proofs need; the messages in queues are left out.
Types ==
  /\ queues \in [Queues -> Lifetimes] /\ exchanges \in [Exchanges -> Lifetimes]
  /\ bindings \subseteq Exchanges \X Queues \X Queues
  /\ m_conn \in {"NULL", "up", "down"} /\ channel \in BOOLEAN
  /\ consuming \in Queues \cup {Nobody}
  /\ m_exchange \in Exchanges /\ to \in Queues
  /\ pc \in {"idle", "publish"}
  /\ written \in Nat /\ arrived \in [Queues -> SUBSET Nat]
  /\ cut \in BOOLEAN /\ disturbed \in BOOLEAN

\* A channel is open on a connection that is up; nothing is bound to an exchange
\* that does not exist.
BrokerInv ==
  /\ channel => m_conn = "up"
  /\ \A x \in Exchanges, q \in Queues, key \in Queues :
       <<x, q, key>> \in bindings => exchanges[x] # "absent"

\* A publish in progress, and what there is of it between two.
VectorInv ==
  /\ pc = "idle" => /\ publishing = <<>> /\ written = 0 /\ ~cut /\ ~disturbed
                    /\ failed = {} /\ \A q \in Queues : arrived[q] = {}
  /\ failed \subseteq 1 .. written
  /\ pc = "publish" => /\ Len(publishing) \in Nat /\ DOMAIN publishing = 1 .. Len(publishing)
                       /\ \A n \in DOMAIN publishing : publishing[n].n = n

\* While the channel of a publish is open every queue it reaches has all that was
\* written and did not fail; when it was closed and the connection holds, no queue
\* has anything.
ArrivalInv ==
  (pc = "publish" /\ ~disturbed) =>
    /\ channel => \A q \in Queues :
         arrived[q] = IF <<m_exchange, q, to>> \in bindings THEN (1 .. written) \ failed ELSE {}
    /\ (~channel /\ ~cut) => \A q \in Queues : arrived[q] = {}
    /\ \A q \in Queues : \E k \in 0 .. written : arrived[q] = (1 .. k) \ failed

IInv == Types /\ BrokerInv /\ VectorInv /\ ArrivalInv /\ OpenOnlyBehindConsumer

-----------------------------------------------------------------------------

LEMMA InitInv == Init => IInv
<1> SUFFICES ASSUME Init PROVE IInv
  OBVIOUS
<1>1. Types
  BY DefaultIsExchange DEF Init, Types, Lifetimes
<1>2. BrokerInv /\ VectorInv /\ ArrivalInv /\ OpenOnlyBehindConsumer
  BY DEF Init, BrokerInv, VectorInv, ArrivalInv, OpenOnlyBehindConsumer
<1> QED
  BY <1>1, <1>2 DEF IInv

\* Calls that answer are made between two publishes, and leave none behind.
LEMMA AnswerOfKeeps ==
  ASSUME IInv, NEW GetNum, NEW value, AnswerOf(GetNum, value)
  PROVE  /\ pc = "idle" /\ pc' = "idle" /\ ret' = value /\ asked' = GetNum /\ VectorInv' /\ ArrivalInv'
         /\ UNCHANGED <<to, written, arrived, cut, disturbed>>
<1>1. /\ pc = "idle" /\ ret' = value /\ asked' = GetNum
      /\ UNCHANGED <<pc, publishing, written, to, calls, arrived, failed, cut, disturbed>>
  BY DEF AnswerOf, progress
<1>2. VectorInv' /\ ArrivalInv'
  BY <1>1 DEF IInv, VectorInv, ArrivalInv
<1> QED
  BY <1>1, <1>2

LEMMA AnswerKeeps ==
  ASSUME IInv, NEW value, Answer(value)
  PROVE  /\ pc = "idle" /\ pc' = "idle" /\ VectorInv' /\ ArrivalInv'
         /\ UNCHANGED <<to, written, arrived, cut, disturbed>>
BY AnswerOfKeeps DEF Answer

-----------------------------------------------------------------------------
(* The broker and the network.                                             *)

LEMMA EndSessionKeeps ==
  ASSUME Types, EndSession
  PROVE  /\ channel' = FALSE /\ consuming' = Nobody
         /\ queues' \in [Queues -> Lifetimes] /\ bindings' \subseteq bindings
BY DEF EndSession, WithoutExclusive, Types, Lifetimes

LEMMA LinkLostKeeps ==
  ASSUME IInv, LinkLost
  PROVE  IInv'
<1>1. /\ m_conn' = "down" /\ channel' = FALSE /\ consuming' = Nobody /\ cut' = (pc = "publish")
      /\ queues' \in [Queues -> Lifetimes] /\ bindings' \subseteq bindings
      /\ UNCHANGED <<exchanges, m_exchange, pc, publishing, written, to, arrived, failed, disturbed>>
  BY EndSessionKeeps DEF LinkLost, IInv
<1>2. Types'
  BY <1>1 DEF IInv, Types
<1>3. BrokerInv' /\ OpenOnlyBehindConsumer'
  BY <1>1 DEF IInv, BrokerInv, OpenOnlyBehindConsumer
<1>4. VectorInv' /\ ArrivalInv'
  BY <1>1 DEF IInv, VectorInv, ArrivalInv
<1> QED
  BY <1>2, <1>3, <1>4 DEF IInv

LEMMA RestartKeeps ==
  ASSUME IInv, Restart
  PROVE  IInv'
<1>1. /\ queues' \in [Queues -> Lifetimes]
      /\ exchanges' = [x \in Exchanges |-> IF exchanges[x] = "durable" THEN "durable" ELSE "absent"]
      /\ bindings' \subseteq bindings /\ \A b \in bindings' : exchanges[b[1]] = "durable"
      /\ m_conn' = (IF m_conn = "up" THEN "down" ELSE m_conn)
      /\ channel' = FALSE /\ consuming' = Nobody /\ cut' = (pc = "publish")
      /\ UNCHANGED <<m_exchange, pc, publishing, written, to, arrived, failed, disturbed>>
  BY DEF Restart, Lifetimes
<1>2. Types'
  <2>1. exchanges' \in [Exchanges -> Lifetimes]
    BY <1>1 DEF Lifetimes
  <2> QED
    BY <1>1, <2>1 DEF IInv, Types
<1>3. BrokerInv'
  <2>1. ASSUME NEW x \in Exchanges, NEW q \in Queues, NEW key \in Queues, <<x, q, key>> \in bindings'
        PROVE  exchanges'[x] # "absent"
    <3>1. <<x, q, key>>[1] = x
      OBVIOUS
    <3>2. exchanges[x] = "durable"
      BY <1>1, <2>1, <3>1
    <3> QED
      BY <1>1, <3>2
  <2> QED
    BY <1>1, <2>1 DEF BrokerInv
<1>4. VectorInv' /\ ArrivalInv'
  BY <1>1 DEF IInv, VectorInv, ArrivalInv
<1>5. OpenOnlyBehindConsumer'
  BY <1>1 DEF OpenOnlyBehindConsumer
<1> QED
  BY <1>2, <1>3, <1>4, <1>5 DEF IInv

LEMMA DeleteFacts ==
  ASSUME Types, BrokerInv, NEW q \in Queues, Delete(q)
  PROVE  /\ queues' \in [Queues -> Lifetimes] /\ exchanges' = exchanges /\ bindings' \subseteq bindings
BY DEF Delete, Types, Lifetimes

LEMMA OthersDeleteKeeps ==
  ASSUME IInv, OthersDelete
  PROVE  IInv'
<1>1. /\ disturbed' = (pc = "publish")
      /\ UNCHANGED <<m_conn, channel, consuming, m_exchange, pc, publishing, written, to, arrived, failed, cut,
                     ret, asked>>
  BY DEF OthersDelete
<1>2. /\ queues' \in [Queues -> Lifetimes] /\ exchanges' \in [Exchanges -> Lifetimes]
      /\ bindings' \subseteq bindings
      /\ \A x \in Exchanges, q \in Queues, key \in Queues :
           <<x, q, key>> \in bindings' => exchanges'[x] # "absent"
  <2>1. ASSUME NEW q \in Queues, Delete(q)
        PROVE  /\ queues' \in [Queues -> Lifetimes] /\ exchanges' = exchanges /\ bindings' \subseteq bindings
    BY <2>1, DeleteFacts DEF IInv
  <2>2. ASSUME NEW y \in Exchanges, exchanges' = [exchanges EXCEPT ![y] = "absent"],
               bindings' = {b \in bindings : b[1] # y}, UNCHANGED queues
        PROVE  /\ exchanges' \in [Exchanges -> Lifetimes]
               /\ \A x \in Exchanges, q \in Queues, key \in Queues :
                    <<x, q, key>> \in bindings' => exchanges'[x] # "absent"
    <3>1. exchanges' \in [Exchanges -> Lifetimes]
      BY <2>2 DEF IInv, Types, Lifetimes
    <3>2. ASSUME NEW x \in Exchanges, NEW q \in Queues, NEW key \in Queues, <<x, q, key>> \in bindings'
          PROVE  exchanges'[x] # "absent"
      <4>1. x # y /\ <<x, q, key>> \in bindings
        BY <2>2, <3>2
      <4> QED
        BY <2>2, <4>1 DEF IInv, BrokerInv, Types
    <3> QED
      BY <3>1, <3>2
  <2> QED
    BY <2>1, <2>2 DEF OthersDelete, IInv, Types, BrokerInv
<1>3. Types' /\ BrokerInv'
  BY <1>1, <1>2 DEF IInv, Types, BrokerInv
<1>4. VectorInv' /\ ArrivalInv' /\ OpenOnlyBehindConsumer'
  BY <1>1 DEF IInv, VectorInv, ArrivalInv, OpenOnlyBehindConsumer
<1> QED
  BY <1>3, <1>4 DEF IInv

-----------------------------------------------------------------------------
(* Calls other than publish.                                               *)

\* A call that declares nothing and leaves no channel open.
LEMMA ClosedKeeps ==
  ASSUME IInv, NEW value, Answer(value), ~channel', UNCHANGED exchanges,
         queues' \in [Queues -> Lifetimes], bindings' \subseteq bindings,
         m_conn' \in {"NULL", "up", "down"}, channel' \in BOOLEAN, consuming' \in Queues \cup {Nobody},
         m_exchange' \in Exchanges
  PROVE  IInv'
<1>1. /\ pc' = "idle" /\ VectorInv' /\ ArrivalInv' /\ pc = "idle"
      /\ UNCHANGED <<to, written, arrived, cut, disturbed>>
  BY AnswerKeeps
<1>2. Types' /\ BrokerInv' /\ OpenOnlyBehindConsumer'
  BY <1>1 DEF IInv, Types, BrokerInv, OpenOnlyBehindConsumer
<1> QED
  BY <1>1, <1>2 DEF IInv

LEMMA ConnectionKeeps ==
  ASSUME IInv, Connect \/ Disconnect \/ CannotOpen \/ Refused
  PROVE  IInv'
<1>1. /\ queues \in [Queues -> Lifetimes] /\ Types
      /\ m_conn \in {"NULL", "up", "down"} /\ channel \in BOOLEAN /\ consuming \in Queues \cup {Nobody}
      /\ m_exchange \in Exchanges /\ (channel => m_conn = "up")
  BY DEF IInv, Types, BrokerInv
<1>2. CASE Connect
  <2>1. /\ m_conn # "up" /\ m_conn' \in {"NULL", "up", "down"}
        /\ UNCHANGED <<queues, exchanges, bindings, channel, consuming, m_exchange>>
    BY <1>2 DEF Connect, topology
  <2>2. \E value : Answer(value)
    BY <1>2 DEF Connect
  <2> QED
    BY <1>1, <2>1, <2>2, ClosedKeeps
<1>3. CASE Disconnect
  <2>1. /\ m_conn' \in {"NULL", "up", "down"} /\ EndSession /\ UNCHANGED <<exchanges, m_exchange>>
    BY <1>3 DEF Disconnect
  <2>2. \E value : Answer(value)
    BY <1>3 DEF Disconnect
  <2> QED
    BY <1>1, <2>1, <2>2, EndSessionKeeps, ClosedKeeps
<1>4. CASE CannotOpen
  <2>1. /\ m_conn' \in {"NULL", "up", "down"} /\ EndSession /\ UNCHANGED <<exchanges, m_exchange>>
    BY <1>1, <1>4 DEF CannotOpen
  <2>2. \E value : Answer(value)
    BY <1>4 DEF CannotOpen
  <2> QED
    BY <1>1, <2>1, <2>2, EndSessionKeeps, ClosedKeeps
<1>5. CASE Refused
  <2>1. ~channel /\ UNCHANGED <<queues, exchanges, bindings, m_conn, channel, consuming, m_exchange>>
    BY <1>5 DEF Refused, CanOpen, session, topology
  <2>2. \E value : Answer(value)
    BY <1>5 DEF Refused
  <2> QED
    BY <1>1, <2>1, <2>2, ClosedKeeps
<1> QED
  BY <1>2, <1>3, <1>4, <1>5

LEMMA SetAccountKeeps ==
  ASSUME IInv, SetAccount
  PROVE  IInv'
<1>1. UNCHANGED <<queues, exchanges, bindings, m_conn, channel, consuming, m_exchange, pc, publishing,
                  written, to, arrived, failed, cut, disturbed, ret, asked>>
  BY DEF SetAccount, topology, session, progress
<1>2. Types' /\ BrokerInv'
  BY <1>1 DEF IInv, Types, BrokerInv
<1>3. VectorInv' /\ ArrivalInv' /\ OpenOnlyBehindConsumer'
  BY <1>1 DEF IInv, VectorInv, ArrivalInv, OpenOnlyBehindConsumer
<1> QED
  BY <1>2, <1>3 DEF IInv

\* A declared queue or exchange exists.
LEMMA DeclaredExists ==
  ASSUME NEW life \in Lifetimes, NEW a, a.durable \in {"durable", "transient"}
  PROVE  Declared(life, a) \in Lifetimes /\ Declared(life, a) # "absent"
BY DEF Declared, Lifetimes

LEMMA AttributesDurable ==
  /\ \A a \in QueueAttributes : a.durable \in {"durable", "transient"}
  /\ \A a \in ExchangeAttributes : a.durable \in {"durable", "transient"}
  /\ \A d \in {"durable", "transient"} : CQueue(d).durable \in {"durable", "transient"}
BY DEF QueueAttributes, ExchangeAttributes, CQueue

LEMMA ExchangeKeeps ==
  ASSUME IInv, NEW x \in Exchanges, NEW a \in ExchangeAttributes, exchange_declare(x, a)
  PROVE  IInv'
<1>1. /\ ~channel /\ Answer(0) /\ exchanges' = [exchanges EXCEPT ![x] = Declared(@, a)] /\ m_exchange' = x
      /\ UNCHANGED <<queues, bindings, m_conn, channel, consuming>>
  BY DEF exchange_declare, CanOpen, session
<1>2. pc' = "idle" /\ VectorInv' /\ ArrivalInv' /\ UNCHANGED <<to, written, arrived, cut, disturbed>>
  BY <1>1, AnswerKeeps
<1>3. Declared(exchanges[x], a) \in Lifetimes /\ Declared(exchanges[x], a) # "absent"
  BY DeclaredExists, AttributesDurable DEF IInv, Types
<1>4. Types'
  BY <1>1, <1>2, <1>3 DEF IInv, Types
<1>5. BrokerInv'
  BY <1>1, <1>3 DEF IInv, Types, BrokerInv
<1>6. OpenOnlyBehindConsumer'
  BY <1>1 DEF OpenOnlyBehindConsumer
<1> QED
  BY <1>2, <1>4, <1>5, <1>6 DEF IInv

LEMMA QueueKeeps ==
  ASSUME IInv, NEW q \in Queues, NEW a \in QueueAttributes, NEW value, DeclareQueue(q, a, value)
  PROVE  IInv'
<1>1. /\ ~channel /\ Answer(value) /\ queues' = [queues EXCEPT ![q] = Declared(@, a)]
      /\ UNCHANGED <<exchanges, bindings, m_conn, channel, consuming, m_exchange>>
  BY DEF DeclareQueue, CanOpen, session
<1>2. pc' = "idle" /\ VectorInv' /\ ArrivalInv' /\ UNCHANGED <<to, written, arrived, cut, disturbed>>
  BY <1>1, AnswerKeeps
<1>3. Declared(queues[q], a) \in Lifetimes
  BY DeclaredExists, AttributesDurable DEF IInv, Types
<1>4. Types'
  BY <1>1, <1>2, <1>3 DEF IInv, Types
<1>5. BrokerInv' /\ OpenOnlyBehindConsumer'
  BY <1>1 DEF IInv, BrokerInv, OpenOnlyBehindConsumer
<1> QED
  BY <1>2, <1>4, <1>5 DEF IInv

LEMMA BindingKeeps ==
  ASSUME IInv, NEW q \in Queues, NEW x \in Exchanges, NEW key \in Queues,
         queue_bind(q, x, key) \/ queue_unbind(q, x, key)
  PROVE  IInv'
<1>1. /\ ~channel /\ Answer(Garbage)
      /\ UNCHANGED <<queues, exchanges, m_conn, channel, consuming, m_exchange>>
  BY DEF queue_bind, queue_unbind, CanOpen, session
<1>2. pc' = "idle" /\ VectorInv' /\ ArrivalInv' /\ UNCHANGED <<to, written, arrived, cut, disturbed>>
  BY <1>1, AnswerKeeps
<1>3. \/ bindings' = bindings \cup {<<x, q, key>>} /\ exchanges[x] # "absent"
      \/ bindings' = bindings \ {<<x, q, key>>}
  BY DEF queue_bind, queue_unbind
<1>4. Types'
  BY <1>1, <1>2, <1>3 DEF IInv, Types
<1>5. BrokerInv'
  <2>1. ASSUME NEW y \in Exchanges, NEW r \in Queues, NEW k \in Queues, <<y, r, k>> \in bindings'
        PROVE  exchanges[y] # "absent"
    <3>1. CASE <<y, r, k>> \in bindings
      BY <3>1 DEF IInv, BrokerInv
    <3>2. CASE <<y, r, k>> \notin bindings
      <4>1. <<y, r, k>> = <<x, q, key>> /\ exchanges[x] # "absent"
        BY <1>3, <2>1, <3>2
      <4> QED
        BY <4>1
    <3> QED
      BY <3>1, <3>2
  <2> QED
    BY <1>1, <2>1 DEF BrokerInv
<1>6. OpenOnlyBehindConsumer'
  BY <1>1 DEF OpenOnlyBehindConsumer
<1> QED
  BY <1>2, <1>4, <1>5, <1>6 DEF IInv

LEMMA QueueDeleteKeeps ==
  ASSUME IInv, NEW q \in Queues, queue_delete(q)
  PROVE  IInv'
<1>1. ~channel /\ Answer(0) /\ Delete(q) /\ UNCHANGED <<m_conn, channel, consuming, m_exchange>>
  BY DEF queue_delete, CanOpen
<1>2. pc' = "idle" /\ VectorInv' /\ ArrivalInv' /\ UNCHANGED <<to, written, arrived, cut, disturbed>>
  BY <1>1, AnswerKeeps
<1>3. queues' \in [Queues -> Lifetimes] /\ exchanges' = exchanges /\ bindings' \subseteq bindings
  BY <1>1, DeleteFacts DEF IInv
<1>4. Types' /\ BrokerInv' /\ OpenOnlyBehindConsumer'
  BY <1>1, <1>2, <1>3 DEF IInv, Types, BrokerInv, OpenOnlyBehindConsumer
<1> QED
  BY <1>2, <1>4 DEF IInv

LEMMA ConsumerKeeps ==
  ASSUME IInv, NEW q \in Queues, NEW durable \in {"durable", "transient"}, NEW GetNum \in 0 .. MaxVector,
         consumer(q, durable, GetNum)
  PROVE  IInv'
<1> DEFINE declared == [queues EXCEPT ![q] = Declared(@, CQueue(durable))]
<1>1. m_conn = "up" /\ ~channel /\ UNCHANGED <<exchanges, m_exchange>>
  BY DEF consumer, CanOpen
<1>2. declared \in [Queues -> Lifetimes] /\ WithoutExclusive(declared) \in [Queues -> Lifetimes]
  <2>1. Declared(queues[q], CQueue(durable)) \in Lifetimes /\ queues \in [Queues -> Lifetimes]
    BY DeclaredExists, AttributesDurable DEF IInv, Types
  <2>2. declared \in [Queues -> Lifetimes]
    BY <2>1
  <2> HIDE DEF declared
  <2> QED
    BY <2>2 DEF WithoutExclusive, Lifetimes
<1>3. /\ queues' \in [Queues -> Lifetimes] /\ bindings' \subseteq bindings /\ m_conn' \in {"NULL", "up", "down"}
      /\ (channel' => m_conn' = "up") /\ channel' \in BOOLEAN
      /\ consuming' \in Queues \cup {Nobody}
      /\ \E value : AnswerOf(GetNum, value) /\ (channel' => consuming' = q /\ value = GetNum)
  <2>1. CASE consumer_full(q, durable, GetNum)
    BY <1>1, <1>2, <2>1 DEF consumer_full
  <2>2. CASE consumer_short(q, durable, GetNum)
    BY <1>1, <1>2, <2>2 DEF consumer_short, IInv, Types
  <2>3. CASE consumer_broken(q, durable, GetNum)
    BY <1>1, <1>2, <2>3 DEF consumer_broken, IInv, Types
  <2> QED
    BY <2>1, <2>2, <2>3 DEF consumer
<1>4. PICK value : AnswerOf(GetNum, value) /\ (channel' => consuming' = q /\ value = GetNum)
  BY <1>3
<1>5. /\ pc' = "idle" /\ ret' = value /\ asked' = GetNum /\ VectorInv' /\ ArrivalInv'
      /\ UNCHANGED <<to, written, arrived, cut, disturbed>>
  BY <1>4, AnswerOfKeeps
<1>6. Types' /\ BrokerInv'
  BY <1>1, <1>3, <1>5 DEF IInv, Types, BrokerInv
<1>7. OpenOnlyBehindConsumer'
  BY <1>4, <1>5, NobodyIsNoQueue DEF OpenOnlyBehindConsumer
<1> QED
  BY <1>5, <1>6, <1>7 DEF IInv

-----------------------------------------------------------------------------
(* publish.                                                                *)

\* A vector is a sequence.
LEMMA VectorFacts ==
  ASSUME NEW vector \in Vectors
  PROVE  \E len \in Nat : DOMAIN vector = 1 .. len
<1>1. CASE \E len \in 0 .. MaxVector : vector \in [1 .. len -> [mode : Modes, plain : {FALSE}]]
  BY <1>1, BoundsAreNat
<1>2. CASE vector = <<[mode |-> CMessage, plain |-> TRUE]>>
  <2>1. DOMAIN vector = 1 .. 1
    BY <1>2
  <2> QED
    BY <2>1
<1> QED
  BY <1>1, <1>2 DEF Vectors

LEMMA PublishKeeps ==
  ASSUME IInv, NEW vector \in Vectors, NEW key \in Queues, publish(vector, key)
  PROVE  IInv'
<1>1. /\ pc = "idle" /\ pc' = "publish" /\ m_conn = "up" /\ channel' = TRUE /\ written' = 0 /\ to' = key
      /\ UNCHANGED <<queues, exchanges, bindings, m_conn, consuming, m_exchange, arrived, failed, cut, disturbed>>
  BY DEF publish, CanOpen, topology
<1>2. publishing' = [n \in DOMAIN vector |->
        [call |-> calls', n |-> n, mode |-> vector[n].mode, plain |-> vector[n].plain]]
  BY DEF publish
<1>3. PICK len \in Nat : DOMAIN vector = 1 .. len
  BY VectorFacts
<1>4. /\ Len(publishing') \in Nat /\ DOMAIN publishing' = 1 .. Len(publishing')
      /\ \A n \in DOMAIN publishing' : publishing'[n].n = n
  <2>1. /\ DOMAIN publishing' = 1 .. len
        /\ \A n \in 1 .. len : publishing'[n] =
             [call |-> calls', n |-> n, mode |-> vector[n].mode, plain |-> vector[n].plain]
    BY <1>2, <1>3
  <2>2. \A n \in 1 .. len : publishing'[n].n = n
    BY <2>1
  <2>3. publishing' \in [1 .. len -> {publishing'[n] : n \in 1 .. len}]
    BY <1>2, <1>3
  <2>4. publishing' \in Seq({publishing'[n] : n \in 1 .. len})
    BY <2>3
  <2>5. Len(publishing') \in Nat /\ DOMAIN publishing' = 1 .. Len(publishing')
    BY <2>4, LenProperties
  <2> QED
    BY <2>1, <2>2, <2>5
<1>5. failed = {} /\ \A q \in Queues : arrived[q] = {}
  BY <1>1 DEF IInv, VectorInv
<1>6. Types' /\ BrokerInv' /\ OpenOnlyBehindConsumer'
  BY <1>1 DEF IInv, Types, BrokerInv, OpenOnlyBehindConsumer
<1>7. VectorInv'
  BY <1>1, <1>4, <1>5 DEF VectorInv
<1>8. ArrivalInv'
  <2>1. 1 .. 0 = {} /\ 0 \in 0 .. 0
    OBVIOUS
  <2> QED
    BY <1>1, <1>5, <2>1 DEF ArrivalInv
<1> QED
  BY <1>6, <1>7, <1>8 DEF IInv

\* Messages are written by a publish in progress.
LEMMA WriteInPublish ==
  ASSUME IInv, Write
  PROVE  pc = "publish"
<1>1. CASE pc = "idle"
  <2>1. publishing = <<>> /\ written = 0 /\ written < Len(publishing)
    BY <1>1 DEF Write, WriteNext, IInv, VectorInv
  <2> QED
    BY <2>1
<1> QED
  BY <1>1 DEF IInv, Types

\* A message that is routed: n of it is what has been written.
LEMMA RoutedKeeps ==
  ASSUME IInv, WriteNext, pc = "publish", channel, Route(publishing[written']), UNCHANGED <<channel, failed>>
  PROVE  ArrivalInv' /\ arrived' \in [Queues -> SUBSET Nat]
<1>1. /\ written' = written + 1 /\ written < Len(publishing)
      /\ UNCHANGED <<channel, bindings, m_exchange, pc, to, cut, disturbed>>
  BY DEF WriteNext, topology
<1>2. written \in Nat /\ arrived \in [Queues -> SUBSET Nat] /\ failed \subseteq 1 .. written
  BY DEF IInv, Types, VectorInv
<1>3. publishing[written'].n = written + 1
  BY <1>1, <1>2 DEF IInv, VectorInv
<1>4. \A q \in Queues :
        arrived'[q] = IF <<m_exchange, q, to>> \in bindings THEN arrived[q] \cup {written + 1} ELSE arrived[q]
  BY <1>3 DEF Route
<1>5. arrived' = [q \in Queues |-> arrived'[q]]
  BY DEF Route
<1>6. arrived' \in [Queues -> SUBSET Nat]
  <2>1. ASSUME NEW q \in Queues PROVE arrived'[q] \in SUBSET Nat
    <3>1. arrived[q] \in SUBSET Nat /\ written + 1 \in Nat
      BY <1>2
    <3>2. arrived'[q] = arrived[q] \cup {written + 1} \/ arrived'[q] = arrived[q]
      BY <1>4
    <3> QED
      BY <3>1, <3>2
  <2> QED
    BY <1>5, <2>1
<1>7. ASSUME ~disturbed
      PROVE  /\ \A q \in Queues :
                  arrived'[q] = IF <<m_exchange, q, to>> \in bindings THEN (1 .. written') \ failed ELSE {}
             /\ \A q \in Queues : \E k \in 0 .. written' : arrived'[q] = (1 .. k) \ failed
  <2>1. \A q \in Queues : arrived[q] = IF <<m_exchange, q, to>> \in bindings THEN (1 .. written) \ failed ELSE {}
    BY <1>7 DEF IInv, ArrivalInv
  <2>2. /\ (1 .. written') \ failed = ((1 .. written) \ failed) \cup {written + 1}
        /\ written' \in 0 .. written' /\ 0 \in 0 .. written' /\ (1 .. 0) \ failed = {}
    BY <1>1, <1>2
  <2>3. \A q \in Queues :
          arrived'[q] = IF <<m_exchange, q, to>> \in bindings THEN (1 .. written') \ failed ELSE {}
    BY <1>4, <2>1, <2>2
  <2>4. ASSUME NEW q \in Queues PROVE \E k \in 0 .. written' : arrived'[q] = (1 .. k) \ failed
    <3>1. CASE <<m_exchange, q, to>> \in bindings
      BY <2>2, <2>3, <3>1
    <3>2. CASE <<m_exchange, q, to>> \notin bindings
      BY <2>2, <2>3, <3>2
    <3> QED
      BY <3>1, <3>2
  <2> QED
    BY <2>3, <2>4
<1> QED
  BY <1>1, <1>6, <1>7 DEF ArrivalInv

\* A message whose write fails on an open channel is left out.
LEMMA FailedKeeps ==
  ASSUME IInv, WriteNext, pc = "publish", channel, failed' = failed \cup {written'}, UNCHANGED <<channel, arrived>>
  PROVE  ArrivalInv'
<1>1. /\ written' = written + 1
      /\ UNCHANGED <<channel, bindings, m_exchange, pc, to, cut, disturbed>>
  BY DEF WriteNext, topology
<1>2. written \in Nat /\ failed \subseteq 1 .. written
  BY DEF IInv, Types, VectorInv
<1>3. /\ (1 .. written') \ failed' = (1 .. written) \ failed
      /\ written' \in 0 .. written' /\ 0 \in 0 .. written' /\ (1 .. 0) \ failed' = {}
  BY <1>1, <1>2
<1>4. ASSUME ~disturbed', NEW q \in Queues
      PROVE  /\ arrived'[q] = IF <<m_exchange', q, to'>> \in bindings' THEN (1 .. written') \ failed' ELSE {}
             /\ \E k \in 0 .. written' : arrived'[q] = (1 .. k) \ failed'
  <2>1. arrived'[q] = IF <<m_exchange', q, to'>> \in bindings' THEN (1 .. written) \ failed ELSE {}
    BY <1>1, <1>4 DEF IInv, ArrivalInv
  <2>2. CASE <<m_exchange', q, to'>> \in bindings'
    BY <1>3, <2>1, <2>2
  <2>3. CASE <<m_exchange', q, to'>> \notin bindings'
    BY <1>3, <2>1, <2>3
  <2> QED
    BY <2>2, <2>3
<1>5. channel' = TRUE /\ pc' = "publish"
  BY <1>1
<1>6. ~disturbed' =>
        /\ \A q \in Queues :
             arrived'[q] = IF <<m_exchange', q, to'>> \in bindings' THEN (1 .. written') \ failed' ELSE {}
        /\ \A q \in Queues : \E k \in 0 .. written' : arrived'[q] = (1 .. k) \ failed'
  BY <1>4, Zenon
<1> QED
  BY <1>5, <1>6, Zenon DEF ArrivalInv

\* A message that the server does not take: either the channel was closed before,
\* or nothing was bound to the exchange it is for.
LEMMA UnroutedKeeps ==
  ASSUME IInv, WriteNext, pc = "publish", ~(channel /\ exchanges[m_exchange] # "absent"), channel' = FALSE,
         UNCHANGED <<arrived, failed>>
  PROVE  ArrivalInv'
<1>1. written' = written + 1 /\ UNCHANGED <<bindings, m_exchange, pc, to, cut, disturbed>>
  BY DEF WriteNext, topology
<1>2. written \in Nat /\ m_exchange \in Exchanges /\ to \in Queues
  BY DEF IInv, Types
<1>3. ASSUME ~disturbed
      PROVE  /\ ~cut => \A q \in Queues : arrived[q] = {}
             /\ \A q \in Queues : \E k \in 0 .. written + 1 : arrived[q] = (1 .. k) \ failed
  <2>1. /\ channel => \A q \in Queues :
             arrived[q] = IF <<m_exchange, q, to>> \in bindings THEN (1 .. written) \ failed ELSE {}
        /\ (~channel /\ ~cut) => \A q \in Queues : arrived[q] = {}
        /\ \A q \in Queues : \E k \in 0 .. written : arrived[q] = (1 .. k) \ failed
    BY <1>3 DEF IInv, ArrivalInv
  <2>2. channel => \A q \in Queues : <<m_exchange, q, to>> \notin bindings
    BY <1>2 DEF IInv, BrokerInv
  <2>3. \A k \in 0 .. written : k \in 0 .. written + 1
    BY <1>2
  <2> QED
    BY <2>1, <2>2, <2>3
<1> QED
  BY <1>1, <1>3 DEF ArrivalInv

LEMMA WriteKeeps ==
  ASSUME IInv, Write
  PROVE  IInv'
<1>1. /\ written' = written + 1 /\ WriteNext
      /\ UNCHANGED <<queues, exchanges, bindings, m_conn, consuming, m_exchange, pc, publishing, to, cut,
                     disturbed>>
  BY DEF Write, WriteNext, topology
<1>2. /\ pc = "publish" /\ written + 1 \in Nat /\ written \in Nat
      /\ arrived \in [Queues -> SUBSET Nat] /\ channel \in BOOLEAN
  BY WriteInPublish DEF IInv, Types
<1>3. /\ ArrivalInv' /\ arrived' \in [Queues -> SUBSET Nat] /\ channel' \in BOOLEAN /\ (channel' => channel)
      /\ failed' \in {failed, failed \cup {written'}}
  <2>1. CASE ~(channel /\ exchanges[m_exchange] # "absent")
    BY <1>1, <1>2, <2>1, UnroutedKeeps DEF Write
  <2>2. CASE channel /\ Route(publishing[written']) /\ UNCHANGED <<channel, failed>>
    BY <1>1, <1>2, <2>2, RoutedKeeps
  <2>3. CASE channel /\ failed' = failed \cup {written'} /\ UNCHANGED <<channel, contents, arrived, kept>>
    BY <1>1, <1>2, <2>3, FailedKeeps
  <2> QED
    BY <2>1, <2>2, <2>3 DEF Write
<1>4. Types'
  BY <1>1, <1>2, <1>3 DEF IInv, Types
<1>5. BrokerInv' /\ OpenOnlyBehindConsumer'
  BY <1>1, <1>2, <1>3 DEF IInv, BrokerInv, OpenOnlyBehindConsumer
<1>6. VectorInv'
  <2>1. failed' \subseteq 1 .. written'
    <3>1. failed \subseteq 1 .. written
      BY DEF IInv, VectorInv
    <3> QED
      BY <1>1, <1>2, <1>3, <3>1
  <2> QED
    BY <1>1, <1>2, <2>1 DEF IInv, VectorInv
<1> QED
  BY <1>3, <1>4, <1>5, <1>6 DEF IInv

LEMMA EndKeeps ==
  ASSUME IInv, publish_end
  PROVE  IInv'
<1>1. /\ pc' = "idle" /\ channel' = FALSE /\ publishing' = <<>> /\ written' = 0
      /\ arrived' = [q \in Queues |-> {}] /\ failed' = {} /\ cut' = FALSE /\ disturbed' = FALSE
      /\ UNCHANGED <<queues, exchanges, bindings, m_conn, consuming, m_exchange, to>>
  BY DEF publish_end, topology
<1>2. Types'
  BY <1>1 DEF IInv, Types
<1>3. BrokerInv' /\ OpenOnlyBehindConsumer'
  BY <1>1 DEF IInv, BrokerInv, OpenOnlyBehindConsumer
<1>4. VectorInv' /\ ArrivalInv'
  BY <1>1 DEF VectorInv, ArrivalInv
<1> QED
  BY <1>2, <1>3, <1>4 DEF IInv

-----------------------------------------------------------------------------

LEMMA StepKeeps ==
  ASSUME IInv, [Next]_vars
  PROVE  IInv'
<1>1. CASE CRabbitMQ_Adapter
  <2>1. CASE Connect \/ Disconnect \/ CannotOpen \/ Refused
    BY <2>1, ConnectionKeeps
  <2>2. CASE SetAccount
    BY <2>2, SetAccountKeeps
  <2>3. CASE \E x \in Exchanges, a \in ExchangeAttributes : exchange_declare(x, a)
    BY <2>3, ExchangeKeeps
  <2>4. CASE \E q \in Queues, a \in QueueAttributes : queue_declare(q, a) \/ getMessageCount(q, a)
    BY <2>4, QueueKeeps DEF queue_declare, getMessageCount
  <2>5. CASE \E q \in Queues, x \in Exchanges, key \in Queues : queue_bind(q, x, key) \/ queue_unbind(q, x, key)
    BY <2>5, BindingKeeps
  <2>6. CASE \E q \in Queues : queue_delete(q)
    BY <2>6, QueueDeleteKeeps
  <2>7. CASE \E q \in Queues, durable \in {"durable", "transient"}, GetNum \in 0 .. MaxVector :
               consumer(q, durable, GetNum)
    BY <2>7, ConsumerKeeps
  <2>8. CASE \E vector \in Vectors, key \in Queues : publish(vector, key)
    BY <2>8, PublishKeeps
  <2>9. CASE Write
    BY <2>9, WriteKeeps
  <2>10. CASE publish_end
    BY <2>10, EndKeeps
  <2> QED
    BY <1>1, <2>1, <2>2, <2>3, <2>4, <2>5, <2>6, <2>7, <2>8, <2>9, <2>10 DEF CRabbitMQ_Adapter
<1>2. CASE LinkLost
  BY <1>2, LinkLostKeeps
<1>3. CASE Restart
  BY <1>3, RestartKeeps
<1>4. CASE OthersDelete
  BY <1>4, OthersDeleteKeeps
<1>5. CASE UNCHANGED vars
  <2>1. UNCHANGED <<queues, exchanges, bindings, m_conn, channel, consuming, m_exchange, pc, publishing,
                    written, to, arrived, failed, cut, disturbed, ret, asked>>
    BY <1>5 DEF vars, topology, session, progress
  <2>2. Types' /\ BrokerInv'
    BY <2>1 DEF IInv, Types, BrokerInv
  <2>3. VectorInv' /\ ArrivalInv' /\ OpenOnlyBehindConsumer'
    BY <2>1 DEF IInv, VectorInv, ArrivalInv, OpenOnlyBehindConsumer
  <2> QED
    BY <2>2, <2>3 DEF IInv
<1> QED
  BY <1>1, <1>2, <1>3, <1>4, <1>5 DEF Next, CRabbitMQ_Proxy

LEMMA Invariance == Spec => []IInv
BY InitInv, StepKeeps, PTL DEF Spec

\* Between two calls the channel is open only behind a consumer that got exactly
\* what it asked for, be it nothing, however the calls before ended and whatever
\* the broker did (RabbitMQ_Adapter.cpp:94-284, 316-349, 380-406).
THEOREM ChannelsClosed == Spec => []OpenOnlyBehindConsumer
<1>1. IInv => OpenOnlyBehindConsumer
  BY DEF IInv
<1> QED
  BY <1>1, Invariance, PTL

\* But for those whose own write failed, each queue has the first messages of a
\* publish, and while the connection holds all that were written or none, for
\* vectors of any length, restarts and lost links included
\* (RabbitMQ_Adapter.cpp:184-209).
THEOREM PrefixArrives == Spec => []AllOrPrefix
<1>1. ASSUME IInv PROVE AllOrPrefix
  <2>1. written \in Nat /\ pc \in {"idle", "publish"} /\ (1 .. 0) \ failed = {} /\ 0 \in 0 .. written
        /\ written \in 0 .. written
    BY <1>1 DEF IInv, Types
  <2>2. ASSUME ~disturbed, NEW q \in Queues
        PROVE  \E k \in 0 .. written : arrived[q] = (1 .. k) \ failed /\ (~cut => k \in {0, written})
    <3>1. CASE pc = "idle"
      <4>1. arrived[q] = (1 .. 0) \ failed
        BY <1>1, <2>1, <3>1 DEF IInv, VectorInv
      <4> QED
        BY <2>1, <4>1
    <3>2. CASE pc = "publish" /\ cut
      BY <1>1, <2>2, <3>2 DEF IInv, ArrivalInv
    <3>3. CASE pc = "publish" /\ ~cut
      <4>1. arrived[q] = (1 .. written) \ failed \/ arrived[q] = (1 .. 0) \ failed
        BY <1>1, <2>1, <2>2, <3>3 DEF IInv, ArrivalInv
      <4> QED
        BY <2>1, <4>1
    <3> QED
      BY <2>1, <3>1, <3>2, <3>3
  <2> QED
    BY <2>2 DEF AllOrPrefix
<1> QED
  BY <1>1, Invariance, PTL

-----------------------------------------------------------------------------
(* What queues hold.  A second invariant, on top of the first: the types of *)
(* messages and of the calls' results, and the messages that must survive.  *)

\* What a queue holds and what was sent ahead of it, in order.
Backlog(q) == IF consuming = q THEN held \o contents[q] ELSE contents[q]

\* The messages of all calls of publish so far, as many as a call may write.
Sent == IF pc = "publish" THEN (calls - 1) * MaxVector + written ELSE calls * MaxVector

\* Messages are sent ahead to a consumer only, and there is one only on an open
\* channel, between two calls.
PushInv ==
  /\ consuming = Nobody => held = <<>>
  /\ consuming # Nobody => channel /\ pc = "idle"

\* The messages of a string are persistent.
PlainInv ==
  /\ \A n \in 1 .. Len(publishing) : publishing[n].plain => publishing[n].mode = CMessage
  /\ \A m \in kept : m.plain /\ m.mode = CMessage

\* No queue holds more than was sent.
CountInv ==
  /\ pc = "publish" => calls > 0 /\ Len(publishing) <= MaxVector
  /\ \A q \in Queues : Len(Backlog(q)) <= Sent

\* A message that reached a queue that lasts is in one until it is gone.
KeptInv ==
  \A m \in kept \ gone : \E q \in Queues : Lasting(q) /\ m \in Range(Backlog(q))

StoreInv == TypeOK /\ PushInv /\ PlainInv /\ CountInv /\ KeptInv

\* The part of TypeOK that the broker and the queues are about.
LEMMA BacklogFacts ==
  ASSUME TypeOK, NEW q \in Queues
  PROVE  /\ Backlog(q) \in Seq(Messages) /\ contents[q] \in Seq(Messages) /\ held \in Seq(Messages)
         /\ Len(Backlog(q)) = IF consuming = q THEN Len(held) + Len(contents[q]) ELSE Len(contents[q])
         /\ Range(Backlog(q)) = IF consuming = q THEN Range(held) \cup Range(contents[q])
                                ELSE Range(contents[q])
<1>1. held \in Seq(Messages) /\ contents[q] \in Seq(Messages)
  BY DEF TypeOK
<1>2. /\ held \o contents[q] \in Seq(Messages)
      /\ Len(held \o contents[q]) = Len(held) + Len(contents[q])
  BY <1>1, ConcatProperties
<1>3. Range(held \o contents[q]) = Range(held) \cup Range(contents[q])
  BY <1>1, RangeConcatenation
<1> QED
  BY <1>1, <1>2, <1>3 DEF Backlog

\* A step that adds no message to a queue and takes none that must survive out of
\* one that lasts.
LEMMA Carry ==
  ASSUME StoreInv, TypeOK', PushInv', UNCHANGED <<kept, calls, pc, written, publishing>>,
         gone \subseteq gone',
         \A q \in Queues : Len(Backlog(q)') <= Len(Backlog(q)),
         \A q \in Queues : \A m \in kept \cap Range(Backlog(q)) :
           Lasting(q) => m \in gone' \/ (Lasting(q)' /\ m \in Range(Backlog(q)'))
  PROVE  StoreInv'
<1>1. PlainInv'
  BY DEF StoreInv, PlainInv
<1>2. CountInv'
  <2>1. Sent' = Sent /\ Sent \in Int
    <3>1. calls \in Int /\ written \in Int /\ MaxVector \in Int
      BY BoundsAreNat DEF StoreInv, TypeOK
    <3> QED
      BY <3>1 DEF Sent
  <2>2. \A q \in Queues : Len(Backlog(q)) \in Nat /\ Len(Backlog(q)') \in Nat
    BY BacklogFacts DEF StoreInv
  <2>3. ASSUME NEW q \in Queues PROVE Len(Backlog(q)') <= Sent'
    <3>1. Len(Backlog(q)) <= Sent
      BY DEF StoreInv, CountInv
    <3> QED
      BY <2>1, <2>2, <3>1
  <2> QED
    BY <2>3 DEF StoreInv, CountInv
<1>3. KeptInv'
  <2>1. ASSUME NEW m \in kept' \ gone'
        PROVE  \E q \in Queues : Lasting(q)' /\ m \in Range(Backlog(q)')
    <3>1. PICK q \in Queues : Lasting(q) /\ m \in Range(Backlog(q))
      BY DEF StoreInv, KeptInv
    <3> QED
      BY <3>1
  <2> QED
    BY <2>1 DEF KeptInv
<1> QED
  BY <1>1, <1>2, <1>3 DEF StoreInv

\* A step that leaves the backlog of every queue, and those that last, as they are.
LEMMA CarryAll ==
  ASSUME StoreInv, TypeOK', PushInv', UNCHANGED <<kept, gone, calls, pc, written, publishing>>,
         \A q \in Queues : Backlog(q)' = Backlog(q),
         \A q \in Queues : Lasting(q) => Lasting(q)'
  PROVE  StoreInv'
<1>1. \A q \in Queues : Len(Backlog(q)) \in Nat
  BY BacklogFacts DEF StoreInv
<1> QED
  BY <1>1, Carry

\* What was sent ahead returns to its place; only exclusive queues go.
LEMMA EndSessionFacts ==
  ASSUME StoreInv, EndSession
  PROVE  /\ queues' \in [Queues -> Lifetimes] /\ exclusive' \subseteq Queues /\ auto_delete' \subseteq Queues
         /\ bindings' \subseteq Exchanges \X Queues \X Queues
         /\ contents' \in [Queues -> Seq(Messages)] /\ held' \in Seq(Messages)
         /\ channel' = FALSE /\ consuming' = Nobody /\ PushInv'
         /\ \A q \in Queues : Len(Backlog(q)') <= Len(Backlog(q))
         /\ \A q \in Queues : Lasting(q) => Lasting(q)' /\ Backlog(q)' = Backlog(q)
<1>1. TypeOK /\ PushInv
  BY DEF StoreInv
<1>2. channel' = FALSE /\ consuming' = Nobody /\ held' = <<>> /\ held' \in Seq(Messages) /\ PushInv'
  BY DEF EndSession, PushInv
<1>3. /\ queues' = [q \in Queues |-> IF q \in exclusive THEN "absent" ELSE queues[q]]
      /\ exclusive' = {} /\ auto_delete' = auto_delete \ exclusive /\ bindings' \subseteq bindings
  BY DEF EndSession, WithoutExclusive
<1>4. queues' \in [Queues -> Lifetimes]
  BY <1>1, <1>3 DEF TypeOK, Lifetimes
<1>5. exclusive' \subseteq Queues /\ auto_delete' \subseteq Queues /\ bindings' \subseteq Exchanges \X Queues \X Queues
  BY <1>1, <1>3 DEF TypeOK
<1>6. ASSUME NEW q \in Queues
      PROVE  /\ contents'[q] = (IF q \in exclusive THEN <<>> ELSE Backlog(q))
             /\ Backlog(q)' = contents'[q] /\ contents'[q] \in Seq(Messages)
             /\ Len(Backlog(q)') <= Len(Backlog(q))
             /\ Lasting(q) => Lasting(q)' /\ Backlog(q)' = Backlog(q)
  <2>1. Backlog(q)' = contents'[q]
    BY <1>2, NobodyIsNoQueue DEF Backlog
  <2>2. contents'[q] = (IF q \in exclusive THEN <<>> ELSE Backlog(q))
    BY DEF EndSession, Backlog
  <2>3. Backlog(q) \in Seq(Messages) /\ Len(Backlog(q)) \in Nat /\ <<>> \in Seq(Messages) /\ Len(<<>>) = 0
    BY <1>1, BacklogFacts
  <2>4. Lasting(q) => q \notin exclusive /\ Lasting(q)'
    BY <1>3 DEF Lasting
  <2> QED
    BY <2>1, <2>2, <2>3, <2>4
<1>7. contents' \in [Queues -> Seq(Messages)]
  <2>1. contents' = [q \in Queues |-> contents'[q]]
    BY DEF EndSession
  <2> QED
    BY <1>6, <2>1
<1> QED
  BY <1>2, <1>4, <1>5, <1>6, <1>7

\* The values that calls may return.
Returns == {Garbage} \cup -4 .. MaxCalls * MaxVector

LEMMA ReturnFacts == -9 \in Returns /\ -4 \in Returns /\ -3 \in Returns /\ -2 \in Returns /\ -1 \in Returns /\ 0 \in Returns
<1>1. MaxCalls * MaxVector \in Nat
  BY BoundsAreNat
<1> QED
  BY <1>1 DEF Returns, Garbage

LEMMA AnswerTypes ==
  ASSUME TypeOK, NEW value \in Returns, NEW GetNum \in 0 .. MaxVector, AnswerOf(GetNum, value)
  PROVE  /\ ret' \in Returns /\ asked' \in 0 .. MaxVector /\ pc = "idle"
         /\ UNCHANGED <<pc, publishing, written, to, calls, arrived, failed, cut, disturbed, account, restarts, kept>>
BY DEF AnswerOf, progress

\* A call that answers and leaves the queues that last, and what they hold, alone.
LEMMA CallStored ==
  ASSUME StoreInv, NEW value \in Returns, Answer(value), UNCHANGED gone,
         queues' \in [Queues -> Lifetimes], exchanges' \in [Exchanges -> Lifetimes],
         exclusive' \subseteq Queues, auto_delete' \subseteq Queues,
         bindings' \subseteq Exchanges \X Queues \X Queues,
         m_conn' \in {"NULL", "up", "down"}, m_exchange' \in Exchanges,
         channel' => m_conn' = "up",
         \A q \in Queues : Lasting(q) => Lasting(q)',
         UNCHANGED <<contents, channel, consuming, held>>
  PROVE  StoreInv'
<1>1. /\ ret' \in Returns /\ asked' \in 0 .. MaxVector
      /\ UNCHANGED <<pc, publishing, written, to, calls, arrived, failed, cut, disturbed, account, restarts, kept>>
  <2>1. AnswerOf(0, value) /\ 0 \in 0 .. MaxVector
    BY BoundsAreNat DEF Answer
  <2> QED
    BY <2>1, AnswerTypes DEF StoreInv
<1>2. PushInv' /\ \A q \in Queues : Backlog(q)' = Backlog(q)
  BY <1>1 DEF StoreInv, PushInv, Backlog
<1>3. TypeOK'
  BY <1>1, <1>2 DEF StoreInv, TypeOK, Returns
<1> QED
  BY <1>1, <1>2, <1>3, CarryAll

\* A call that answers and ends the session.
LEMMA EndStoredBy ==
  ASSUME StoreInv, NEW value \in Returns, Answer(value), EndSession, UNCHANGED <<exchanges, m_exchange, gone>>,
         m_conn' \in {"NULL", "up", "down"}
  PROVE  StoreInv'
<1>1. /\ ret' \in Returns /\ asked' \in 0 .. MaxVector
      /\ UNCHANGED <<pc, publishing, written, to, calls, arrived, failed, cut, disturbed, account, restarts, kept>>
  <2>1. AnswerOf(0, value) /\ 0 \in 0 .. MaxVector
    BY BoundsAreNat DEF Answer
  <2> QED
    BY <2>1, AnswerTypes DEF StoreInv
<1>2. /\ queues' \in [Queues -> Lifetimes] /\ exclusive' \subseteq Queues /\ auto_delete' \subseteq Queues
      /\ bindings' \subseteq Exchanges \X Queues \X Queues
      /\ contents' \in [Queues -> Seq(Messages)] /\ held' \in Seq(Messages)
      /\ channel' = FALSE /\ consuming' = Nobody /\ PushInv'
      /\ \A q \in Queues : Len(Backlog(q)') <= Len(Backlog(q))
      /\ \A q \in Queues : Lasting(q) => Lasting(q)' /\ Backlog(q)' = Backlog(q)
  BY EndSessionFacts
<1>3. TypeOK'
  BY <1>1, <1>2 DEF StoreInv, TypeOK, Returns
<1> QED
  BY <1>1, <1>2, <1>3, Carry

LEMMA ConnectionStored ==
  ASSUME StoreInv, Connect \/ Disconnect \/ CannotOpen \/ Refused
  PROVE  StoreInv'
<1>1. /\ queues \in [Queues -> Lifetimes] /\ exchanges \in [Exchanges -> Lifetimes]
      /\ exclusive \subseteq Queues /\ auto_delete \subseteq Queues
      /\ bindings \subseteq Exchanges \X Queues \X Queues
      /\ m_conn \in {"NULL", "up", "down"} /\ m_exchange \in Exchanges /\ (channel => m_conn = "up")
  BY DEF StoreInv, TypeOK
<1>2. CASE Connect
  <2>1. /\ m_conn # "up" /\ m_conn' \in {"NULL", "up", "down"}
        /\ UNCHANGED <<queues, exclusive, auto_delete, exchanges, bindings, contents, channel, consuming, held,
                       m_exchange, gone>>
    BY <1>2 DEF Connect, topology
  <2>2. \E value \in Returns : Answer(value)
    <3>1. -4 .. -2 = {-4, -3, -2}
      OBVIOUS
    <3> QED
      BY <1>2, <3>1, ReturnFacts DEF Connect
  <2>3. \A q \in Queues : Lasting(q) => Lasting(q)'
    BY <2>1 DEF Lasting
  <2> QED
    BY <1>1, <2>1, <2>2, <2>3, CallStored
<1>3. CASE Disconnect
  <2>1. m_conn' \in {"NULL", "up", "down"} /\ EndSession /\ UNCHANGED <<exchanges, m_exchange, gone>>
    BY <1>3 DEF Disconnect
  <2>2. \E value \in Returns : Answer(value)
    BY <1>3, ReturnFacts DEF Disconnect
  <2> QED
    BY <2>1, <2>2, EndStoredBy
<1>4. CASE CannotOpen
  <2>1. m_conn' \in {"NULL", "up", "down"} /\ EndSession /\ UNCHANGED <<exchanges, m_exchange, gone>>
    BY <1>1, <1>4 DEF CannotOpen
  <2>2. \E value \in Returns : Answer(value)
    <3>1. AssertError(IF m_conn = "NULL" THEN amqp_response_type_enum.NONE
                      ELSE amqp_response_type_enum.LIBRARY_EXCEPTION) = -1
      BY DEF AssertError, amqp_response_type_enum
    <3> QED
      BY <1>4, <3>1, ReturnFacts DEF CannotOpen
  <2> QED
    BY <2>1, <2>2, EndStoredBy
<1>5. CASE Refused
  <2>1. UNCHANGED <<queues, exclusive, auto_delete, exchanges, bindings, m_conn, contents, channel, consuming, held,
                    m_exchange, gone>>
    BY <1>5 DEF Refused, session, topology
  <2>2. \E value \in Returns : Answer(value)
    <3>1. AssertError(amqp_response_type_enum.SERVER_EXCEPTION) = -1
      BY DEF AssertError, amqp_response_type_enum
    <3> QED
      BY <1>5, <3>1, ReturnFacts DEF Refused
  <2>3. \A q \in Queues : Lasting(q) => Lasting(q)'
    BY <2>1 DEF Lasting
  <2> QED
    BY <1>1, <2>1, <2>2, <2>3, CallStored
<1> QED
  BY <1>2, <1>3, <1>4, <1>5

LEMMA SetAccountStored ==
  ASSUME StoreInv, SetAccount
  PROVE  StoreInv'
<1>1. /\ account' \in BOOLEAN
      /\ UNCHANGED <<queues, exclusive, auto_delete, exchanges, bindings, contents, m_conn, channel, consuming, held,
                     m_exchange, pc, publishing, written, to, calls, arrived, failed, cut, disturbed, ret, asked,
                     restarts, kept, gone>>
  BY DEF SetAccount, topology, session, progress
<1>2. TypeOK'
  BY <1>1 DEF StoreInv, TypeOK
<1>3. PushInv' /\ \A q \in Queues : Backlog(q)' = Backlog(q) /\ (Lasting(q) => Lasting(q)')
  BY <1>1 DEF StoreInv, PushInv, Backlog, Lasting
<1> QED
  BY <1>1, <1>2, <1>3, CarryAll

-----------------------------------------------------------------------------
(* What restarts spare.                                                    *)

\* g is the function that Survivors builds, up to n.
Upto(s, g, n) ==
  g = [i \in 0 .. n |->
        IF i = 0 THEN <<>> ELSE IF Survivor(s[i]) THEN Append(g[i - 1], s[i]) ELSE g[i - 1]]

\* A definition by recursion on the length is one: there is such a function.
LEMMA UptoExists ==
  ASSUME NEW S, NEW s \in Seq(S)
  PROVE  \A n \in Nat : \E g : Upto(s, g, n)
<1> DEFINE T == {n \in Nat : \E g : Upto(s, g, n)}
<1>1. 0 \in T
  <2> DEFINE g == [i \in 0 .. 0 |-> <<>>]
  <2>1. Upto(s, g, 0)
    <3>1. \A i \in 0 .. 0 : i = 0
      OBVIOUS
    <3> QED
    BY <3>1 DEF Upto
  <2> QED
    BY <2>1
<1>2. ASSUME NEW n \in T PROVE n + 1 \in T
  <2>1. PICK g : Upto(s, g, n)
    OBVIOUS
  <2> DEFINE last == IF Survivor(s[n + 1]) THEN Append(g[n], s[n + 1]) ELSE g[n]
             h == [i \in 0 .. n + 1 |-> IF i = n + 1 THEN last ELSE g[i]]
  <2>2. \A i \in 0 .. n :
          g[i] = IF i = 0 THEN <<>> ELSE IF Survivor(s[i]) THEN Append(g[i - 1], s[i]) ELSE g[i - 1]
    BY <2>1 DEF Upto
  <2>3. ASSUME NEW i \in 0 .. n + 1
        PROVE h[i] = IF i = 0 THEN <<>> ELSE IF Survivor(s[i]) THEN Append(h[i - 1], s[i]) ELSE h[i - 1]
    <3>1. CASE i = n + 1
      <4>1. i # 0 /\ i - 1 = n /\ n \in 0 .. n + 1 /\ n # n + 1
        BY <3>1
      <4>2. h[i - 1] = g[n] /\ h[i] = last
        BY <3>1, <4>1
      <4> QED
        BY <3>1, <4>1, <4>2
    <3>2. CASE i \in 0 .. n
      <4>1. h[i] = g[i] /\ (i # 0 => i - 1 \in 0 .. n /\ h[i - 1] = g[i - 1])
        BY <3>2
      <4> HIDE DEF h
      <4> QED
        BY <2>2, <3>2, <4>1
    <3> QED
      BY <3>1, <3>2
  <2>4. h = [i \in 0 .. n + 1 |-> h[i]]
    OBVIOUS
  <2>5. Upto(s, h, n + 1)
    <3> HIDE DEF h
    <3> QED
      BY <2>3, <2>4 DEF Upto
  <2> QED
    BY <2>5
<1> HIDE DEF T
<1>3. T = Nat
  <2>1. T \in SUBSET Nat
    BY DEF T
  <2> QED
  BY <1>1, <1>2, <2>1, Induction
<1> QED
  BY <1>3 DEF T

\* Of the messages of a queue, all that survive are kept, and no message comes in.
LEMMA SurvivorsFacts ==
  ASSUME NEW S, NEW s \in Seq(S)
  PROVE  /\ Survivors(s) \in Seq(S) /\ Len(Survivors(s)) <= Len(s)
         /\ \A x \in Range(s) : Survivor(x) => x \in Range(Survivors(s))
<1> DEFINE N == Len(s)
           g == CHOOSE f : Upto(s, f, N)
           T == {n \in Nat : n <= N =>
                  /\ g[n] \in Seq(S) /\ Len(g[n]) <= n
                  /\ \A i \in 1 .. n : Survivor(s[i]) => s[i] \in Range(g[n])}
<1>1. N \in Nat /\ Upto(s, g, N)
  BY UptoExists
<1>2. Survivors(s) = g[N]
  BY DEF Survivors, Upto
<1>3. \A i \in 0 .. N :
        g[i] = IF i = 0 THEN <<>> ELSE IF Survivor(s[i]) THEN Append(g[i - 1], s[i]) ELSE g[i - 1]
  <2> HIDE DEF g, N
  <2> QED
  BY <1>1 DEF Upto
<1> HIDE DEF g, N
<1>4. 0 \in T
  <2>1. g[0] = <<>>
    BY <1>1, <1>3
  <2>2. <<>> \in Seq(S) /\ Len(<<>>) = 0
    OBVIOUS
  <2>3. \A i \in 1 .. 0 : Survivor(s[i]) => s[i] \in Range(g[0])
    OBVIOUS
  <2>4. g[0] \in Seq(S) /\ Len(g[0]) <= 0
    BY <2>1, <2>2
  <2> QED
    BY <2>3, <2>4
<1>5. ASSUME NEW n \in T PROVE n + 1 \in T
  <2> SUFFICES ASSUME n + 1 <= N
               PROVE  /\ g[n + 1] \in Seq(S) /\ Len(g[n + 1]) <= n + 1
                      /\ \A i \in 1 .. n + 1 : Survivor(s[i]) => s[i] \in Range(g[n + 1])
    OBVIOUS
  <2> DEFINE a == g[n]
  <2>1. /\ n \in Nat /\ a \in Seq(S) /\ Len(a) <= n
        /\ \A i \in 1 .. n : Survivor(s[i]) => s[i] \in Range(a)
    BY <1>1
  <2>2. s[n + 1] \in S
    BY <2>1 DEF N
  <2>3. g[n + 1] = IF Survivor(s[n + 1]) THEN Append(a, s[n + 1]) ELSE a
    <3>1. n + 1 \in 0 .. N /\ n + 1 # 0 /\ n + 1 - 1 = n
      BY <1>1, <2>1
    <3> QED
      BY <1>3, <3>1
  <2> HIDE DEF a
  <2>4. CASE Survivor(s[n + 1])
    <3>1. /\ Append(a, s[n + 1]) \in Seq(S) /\ Len(Append(a, s[n + 1])) = Len(a) + 1
          /\ Range(Append(a, s[n + 1])) = Range(a) \cup {s[n + 1]}
      <4>1. /\ Append(a, s[n + 1]) = a \o <<s[n + 1]>> /\ <<s[n + 1]>> \in Seq(S)
            /\ Append(a, s[n + 1]) \in Seq(S) /\ Len(Append(a, s[n + 1])) = Len(a) + 1
        BY <2>1, <2>2, AppendIsConcat
      <4>2. Range(<<s[n + 1]>>) = {s[n + 1]}
        BY DEF Range
      <4>3. Range(a \o <<s[n + 1]>>) = Range(a) \cup Range(<<s[n + 1]>>)
        BY <2>1, <4>1, RangeConcatenation, ZenonT(30)
      <4> QED
        BY <4>1, <4>2, <4>3
    <3>2. \A i \in 1 .. n + 1 : i \in 1 .. n \/ i = n + 1
      BY <2>1
    <3> QED
      BY <2>1, <2>3, <2>4, <3>1, <3>2
  <2>5. CASE ~Survivor(s[n + 1])
    <3>1. \A i \in 1 .. n + 1 : i \in 1 .. n \/ i = n + 1
      BY <2>1
    <3> QED
    BY <2>1, <2>3, <2>5, <3>1
  <2> QED
    BY <2>4, <2>5
<1>6. T = Nat
  <2>1. T \in SUBSET Nat
    OBVIOUS
  <2> HIDE DEF T
  <2> QED
    BY <1>4, <1>5, <2>1, Induction
<1>7. /\ g[N] \in Seq(S) /\ Len(g[N]) <= N
      /\ \A i \in 1 .. N : Survivor(s[i]) => s[i] \in Range(g[N])
  BY <1>1, <1>6
<1> QED
  BY <1>2, <1>7 DEF Range, N

-----------------------------------------------------------------------------
(* Each step keeps what must survive.                                      *)

LEMMA LinkLostStored ==
  ASSUME StoreInv, LinkLost
  PROVE  StoreInv'
<1>1. /\ m_conn' = "down" /\ EndSession /\ cut' \in BOOLEAN
      /\ UNCHANGED <<exchanges, account, m_exchange, pc, publishing, written, to, calls,
                     arrived, failed, disturbed, ret, asked, restarts, kept, gone>>
  BY DEF LinkLost
<1>2. /\ queues' \in [Queues -> Lifetimes] /\ exclusive' \subseteq Queues /\ auto_delete' \subseteq Queues
      /\ bindings' \subseteq Exchanges \X Queues \X Queues
      /\ contents' \in [Queues -> Seq(Messages)] /\ held' \in Seq(Messages)
      /\ channel' = FALSE /\ consuming' = Nobody /\ PushInv'
      /\ \A q \in Queues : Len(Backlog(q)') <= Len(Backlog(q))
      /\ \A q \in Queues : Lasting(q) => Lasting(q)' /\ Backlog(q)' = Backlog(q)
  BY <1>1, EndSessionFacts
<1>3. TypeOK'
  BY <1>1, <1>2 DEF StoreInv, TypeOK
<1> QED
  BY <1>1, <1>2, <1>3, Carry

LEMMA RestartStored ==
  ASSUME StoreInv, Restart
  PROVE  StoreInv'
<1> DEFINE stay == {q \in Queues : queues[q] = "durable" /\ q \notin exclusive}
<1>1. TypeOK /\ restarts < MaxRestarts
  BY DEF StoreInv, Restart
<1>2. /\ restarts' = restarts + 1 /\ m_conn' \in {"NULL", "down"} /\ cut' \in BOOLEAN
      /\ channel' = FALSE /\ consuming' = Nobody /\ held' = <<>>
      /\ bindings' \subseteq bindings /\ exclusive' = {} /\ auto_delete' = auto_delete \cap stay
      /\ UNCHANGED <<account, m_exchange, pc, publishing, written, to, calls, arrived, failed, disturbed, ret, asked,
                     kept, gone>>
  BY <1>1 DEF Restart, TypeOK
<1>3. /\ queues' = [q \in Queues |-> IF q \in stay THEN "durable" ELSE "absent"]
      /\ exchanges' = [x \in Exchanges |-> IF exchanges[x] = "durable" THEN "durable" ELSE "absent"]
  BY DEF Restart
<1>4. queues' \in [Queues -> Lifetimes] /\ exchanges' \in [Exchanges -> Lifetimes]
  BY <1>3 DEF Lifetimes
<1>5. contents' = [q \in Queues |-> IF q \in stay THEN Survivors(Backlog(q)) ELSE <<>>]
  BY DEF Restart, Backlog
<1>6. ASSUME NEW q \in Queues
      PROVE  /\ contents'[q] \in Seq(Messages) /\ Backlog(q)' = contents'[q]
             /\ Len(Backlog(q)') <= Len(Backlog(q))
             /\ \A m \in kept \cap Range(Backlog(q)) :
                  Lasting(q) => Lasting(q)' /\ m \in Range(Backlog(q)')
  <2>1. Backlog(q) \in Seq(Messages) /\ Len(Backlog(q)) \in Nat
    BY <1>1, BacklogFacts
  <2>2. Backlog(q)' = contents'[q]
    BY <1>2, NobodyIsNoQueue DEF Backlog
  <2>3. /\ Survivors(Backlog(q)) \in Seq(Messages) /\ Len(Survivors(Backlog(q))) <= Len(Backlog(q))
        /\ \A m \in Range(Backlog(q)) : Survivor(m) => m \in Range(Survivors(Backlog(q)))
    BY <2>1, SurvivorsFacts
  <2>4. \A m \in kept : Survivor(m)
    <3>1. \A m \in kept : m.mode = 2
      BY DEF StoreInv, PlainInv, CMessage
    <3> QED
      BY <3>1 DEF Survivor, props, flags, amqp_basic_properties_t
  <2>5. CASE q \in stay
    <3>1. contents'[q] = Survivors(Backlog(q)) /\ (Lasting(q) => Lasting(q)')
      BY <1>2, <1>3, <1>5, <2>5 DEF Lasting
    <3> QED
      BY <2>2, <2>3, <2>4, <3>1
  <2>6. CASE q \notin stay
    <3>1. contents'[q] = <<>> /\ Len(<<>>) = 0 /\ <<>> \in Seq(Messages) /\ ~Lasting(q)
      BY <1>5, <2>6 DEF Lasting
    <3> QED
      BY <2>1, <2>2, <2>6, <3>1
  <2> QED
    BY <2>5, <2>6
<1>7. TypeOK'
  <2>1. contents' \in [Queues -> Seq(Messages)]
    BY <1>5, <1>6
  <2>2. restarts' \in 0 .. MaxRestarts
    BY <1>1, <1>2, BoundsAreNat DEF TypeOK
  <2>3. held' \in Seq(Messages)
    BY <1>2
  <2> QED
    BY <1>1, <1>2, <1>4, <2>1, <2>2, <2>3 DEF TypeOK
<1>8. PushInv'
  BY <1>2 DEF PushInv
<1> QED
  BY <1>2, <1>6, <1>7, <1>8, Carry

\* The backlog of a deleted queue is gone; those of the others are as they were.
LEMMA DeletionFacts ==
  ASSUME StoreInv, NEW q \in Queues, Delete(q), UNCHANGED <<consuming, channel, pc>>
  PROVE  /\ queues' \in [Queues -> Lifetimes] /\ exchanges' = exchanges
         /\ exclusive' \subseteq Queues /\ auto_delete' \subseteq Queues
         /\ bindings' \subseteq bindings
         /\ contents' \in [Queues -> Seq(Messages)] /\ held' \in Seq(Messages)
         /\ gone' \subseteq Messages /\ gone \subseteq gone' /\ PushInv'
         /\ \A p \in Queues : Len(Backlog(p)') <= Len(Backlog(p))
         /\ \A p \in Queues : \A m \in kept \cap Range(Backlog(p)) :
              Lasting(p) => m \in gone' \/ (Lasting(p)' /\ m \in Range(Backlog(p)'))
<1>1. TypeOK /\ PushInv
  BY DEF StoreInv
<1>2. /\ exclusive' = exclusive \ {q} /\ auto_delete' = auto_delete \ {q}
      /\ queues' = [queues EXCEPT ![q] = "absent"] /\ bindings' \subseteq bindings /\ exchanges' = exchanges
      /\ contents' = [contents EXCEPT ![q] = <<>>]
      /\ gone' = gone \cup Range(contents[q]) \cup (IF consuming = q THEN Range(held) ELSE {})
      /\ held' = IF consuming = q THEN <<>> ELSE held
  BY DEF Delete
<1>3. queues' \in [Queues -> Lifetimes]
  BY <1>1, <1>2 DEF TypeOK, Lifetimes
<1>4. contents' \in [Queues -> Seq(Messages)] /\ held' \in Seq(Messages)
  <2>1. <<>> \in Seq(Messages)
    OBVIOUS
  <2> QED
    BY <1>1, <1>2, <2>1 DEF TypeOK
<1>5. gone' = gone \cup Range(Backlog(q))
  BY <1>1, <1>2, BacklogFacts
<1>6. gone' \subseteq Messages
  <2>1. Range(Backlog(q)) \in SUBSET Messages
    BY <1>1, BacklogFacts, RangeOfSeq
  <2> QED
    BY <1>1, <1>5, <2>1 DEF TypeOK
<1>7. PushInv'
  BY <1>1, <1>2 DEF PushInv
<1>8. ASSUME NEW p \in Queues
      PROVE  Len(Backlog(p)') <= Len(Backlog(p)) /\ (p # q => (Lasting(p) => Lasting(p)') /\ Backlog(p)' = Backlog(p))
  <2>1. Len(Backlog(p)) \in Nat
    BY <1>1, BacklogFacts
  <2>2. CASE p = q
    <3>1. contents'[p] = <<>> /\ (consuming' = p => held' = <<>>)
      BY <1>1, <1>2, <2>2 DEF TypeOK
    <3>2. Backlog(p)' = <<>> /\ Len(<<>>) = 0
      <4>1. <<>> \o <<>> = <<>>
        OBVIOUS
      <4> QED
        BY <3>1, <4>1 DEF Backlog
    <3> QED
      BY <2>1, <2>2, <3>2
  <2>3. CASE p # q
    <3>1. contents'[p] = contents[p] /\ queues'[p] = queues[p] /\ (consuming = p => held' = held)
      BY <1>1, <1>2, <2>3 DEF TypeOK
    <3>2. Backlog(p)' = Backlog(p) /\ (Lasting(p) => Lasting(p)')
      BY <1>2, <3>1 DEF Backlog, Lasting
    <3> QED
      BY <2>1, <3>1, <3>2
  <2> QED
    BY <2>2, <2>3
<1>9. exclusive' \subseteq Queues /\ auto_delete' \subseteq Queues
  BY <1>1, <1>2 DEF TypeOK
<1> QED
  BY <1>2, <1>3, <1>4, <1>5, <1>6, <1>7, <1>8, <1>9

LEMMA OthersDeleteStored ==
  ASSUME StoreInv, OthersDelete
  PROVE  StoreInv'
<1>1. /\ disturbed' \in BOOLEAN
      /\ UNCHANGED <<m_conn, channel, consuming, account, m_exchange, pc, publishing, written, to, calls,
                     arrived, failed, cut, ret, asked, restarts, kept>>
  BY DEF OthersDelete
<1>2. CASE \E q \in Queues : Delete(q)
  <2>1. PICK q \in Queues : Delete(q)
    BY <1>2
  <2>2. /\ queues' \in [Queues -> Lifetimes] /\ exchanges' = exchanges
        /\ exclusive' \subseteq Queues /\ auto_delete' \subseteq Queues
        /\ bindings' \subseteq bindings
        /\ contents' \in [Queues -> Seq(Messages)] /\ held' \in Seq(Messages)
        /\ gone' \subseteq Messages /\ gone \subseteq gone' /\ PushInv'
        /\ \A p \in Queues : Len(Backlog(p)') <= Len(Backlog(p))
        /\ \A p \in Queues : \A m \in kept \cap Range(Backlog(p)) :
             Lasting(p) => m \in gone' \/ (Lasting(p)' /\ m \in Range(Backlog(p)'))
    BY <1>1, <2>1, DeletionFacts
  <2>3. TypeOK'
    BY <1>1, <2>2 DEF StoreInv, TypeOK
  <2> QED
    BY <1>1, <2>2, <2>3, Carry
<1>3. CASE \E x \in Exchanges : /\ exchanges' = [exchanges EXCEPT ![x] = "absent"]
                                /\ bindings' = {b \in bindings : b[1] # x}
                                /\ UNCHANGED <<queues, exclusive, auto_delete, contents, held, gone>>
  <2>1. exchanges' \in [Exchanges -> Lifetimes] /\ bindings' \subseteq bindings
        /\ UNCHANGED <<queues, exclusive, auto_delete, contents, held, gone>>
    BY <1>3 DEF StoreInv, TypeOK, Lifetimes
  <2>2. TypeOK'
    BY <1>1, <2>1 DEF StoreInv, TypeOK
  <2>3. PushInv' /\ \A q \in Queues : Backlog(q)' = Backlog(q) /\ (Lasting(q) => Lasting(q)')
    BY <1>1, <2>1 DEF StoreInv, PushInv, Backlog, Lasting
  <2> QED
    BY <1>1, <2>1, <2>2, <2>3, CarryAll
<1> QED
  BY <1>2, <1>3 DEF OthersDelete

LEMMA ExchangeStored ==
  ASSUME StoreInv, NEW x \in Exchanges, NEW a \in ExchangeAttributes, exchange_declare(x, a)
  PROVE  StoreInv'
<1>1. /\ Answer(0) /\ exchanges' = [exchanges EXCEPT ![x] = Declared(@, a)] /\ m_exchange' = x
      /\ UNCHANGED <<queues, exclusive, auto_delete, bindings, contents, m_conn, channel, consuming, held, gone>>
  BY DEF exchange_declare, session
<1>2. exchanges' \in [Exchanges -> Lifetimes]
  BY <1>1 DEF StoreInv, TypeOK, Lifetimes, Declared, ExchangeAttributes
<1>3. \A q \in Queues : Lasting(q) => Lasting(q)'
  BY <1>1 DEF Lasting
<1> QED
  BY <1>1, <1>2, <1>3, ReturnFacts, CallStored DEF StoreInv, TypeOK

\* Between two calls no queue holds more than all calls may have sent.
LEMMA LengthBound ==
  ASSUME StoreInv, pc = "idle", NEW q \in Queues
  PROVE  Len(contents[q]) \in 0 .. MaxCalls * MaxVector
<1>1. calls \in Nat /\ MaxCalls \in Nat /\ MaxVector \in Nat /\ calls <= MaxCalls
  BY BoundsAreNat DEF StoreInv, TypeOK
<1>2. /\ Len(contents[q]) <= Len(Backlog(q)) /\ Len(Backlog(q)) <= calls * MaxVector
      /\ Len(contents[q]) \in Nat /\ Len(Backlog(q)) \in Nat
  <2>1. Len(Backlog(q)) <= calls * MaxVector
    BY DEF StoreInv, CountInv, Sent
  <2>2. /\ contents[q] \in Seq(Messages) /\ held \in Seq(Messages)
        /\ Len(Backlog(q)) = IF consuming = q THEN Len(held) + Len(contents[q]) ELSE Len(contents[q])
    BY BacklogFacts DEF StoreInv
  <2> QED
    BY <2>1, <2>2
<1>3. calls * MaxVector <= MaxCalls * MaxVector /\ calls * MaxVector \in Nat /\ MaxCalls * MaxVector \in Nat
  BY <1>1
<1> QED
  BY <1>2, <1>3

\* The queue as a declaration leaves it.
LEMMA DeclaredQueue ==
  ASSUME TypeOK, NEW q \in Queues, NEW a \in QueueAttributes,
         queues' = [queues EXCEPT ![q] = Declared(@, a)],
         exclusive' = DeclaredIn(exclusive, q, a.exclusive),
         auto_delete' = DeclaredIn(auto_delete, q, a.auto_delete)
  PROVE  /\ queues' \in [Queues -> Lifetimes] /\ exclusive' \subseteq Queues /\ auto_delete' \subseteq Queues
         /\ \A p \in Queues : Lasting(p) => Lasting(p)'
<1>1. queues' \in [Queues -> Lifetimes]
  BY AttributesDurable DEF TypeOK, Lifetimes, Declared
<1>2. exclusive' \subseteq Queues /\ auto_delete' \subseteq Queues
  BY DEF TypeOK, DeclaredIn
<1>3. ASSUME NEW p \in Queues, Lasting(p) PROVE Lasting(p)'
  <2>1. queues[p] = "durable" /\ p \notin exclusive /\ p \notin auto_delete
    BY <1>3 DEF Lasting
  <2>2. queues'[p] = "durable"
    BY <2>1 DEF TypeOK, Declared
  <2>3. p \notin exclusive' /\ p \notin auto_delete'
    BY <2>1 DEF DeclaredIn
  <2> QED
    BY <2>2, <2>3 DEF Lasting
<1> QED
  BY <1>1, <1>2, <1>3

LEMMA QueueStored ==
  ASSUME StoreInv, NEW q \in Queues, NEW a \in QueueAttributes, queue_declare(q, a) \/ getMessageCount(q, a)
  PROVE  StoreInv'
<1>1. PICK value \in {Garbage, Len(contents[q])} : DeclareQueue(q, a, value)
  BY DEF queue_declare, getMessageCount
<1>2. /\ Answer(value) /\ queues' = [queues EXCEPT ![q] = Declared(@, a)]
      /\ exclusive' = DeclaredIn(exclusive, q, a.exclusive)
      /\ auto_delete' = DeclaredIn(auto_delete, q, a.auto_delete)
      /\ UNCHANGED <<exchanges, bindings, contents, m_conn, channel, consuming, held, m_exchange, gone>>
  BY <1>1 DEF DeclareQueue, session
<1>3. value \in Returns
  <2>1. pc = "idle"
    BY <1>2 DEF Answer, AnswerOf
  <2> QED
    BY <2>1, LengthBound, BoundsAreNat DEF Returns
<1>4. /\ queues' \in [Queues -> Lifetimes] /\ exclusive' \subseteq Queues /\ auto_delete' \subseteq Queues
      /\ \A p \in Queues : Lasting(p) => Lasting(p)'
  <2>1. TypeOK
    BY DEF StoreInv
  <2>2. /\ queues' = [queues EXCEPT ![q] = Declared(@, a)]
        /\ exclusive' = DeclaredIn(exclusive, q, a.exclusive)
        /\ auto_delete' = DeclaredIn(auto_delete, q, a.auto_delete)
    BY <1>2
  <2> QED
    BY <2>1, <2>2, DeclaredQueue, Zenon
<1> QED
  BY <1>2, <1>3, <1>4, CallStored DEF StoreInv, TypeOK

LEMMA BindingStored ==
  ASSUME StoreInv, NEW q \in Queues, NEW x \in Exchanges, NEW key \in Queues,
         queue_bind(q, x, key) \/ queue_unbind(q, x, key)
  PROVE  StoreInv'
<1>1. /\ Answer(Garbage) /\ bindings' \in {bindings \cup {<<x, q, key>>}, bindings \ {<<x, q, key>>}}
      /\ UNCHANGED <<queues, exclusive, auto_delete, exchanges, contents, m_conn, channel, consuming, held, m_exchange, gone>>
  BY DEF queue_bind, queue_unbind, session
<1>2. Garbage \in Returns
  BY DEF Returns
<1>3. /\ bindings' \subseteq Exchanges \X Queues \X Queues /\ (channel' => m_conn' = "up")
      /\ queues' \in [Queues -> Lifetimes] /\ exchanges' \in [Exchanges -> Lifetimes]
      /\ m_conn' \in {"NULL", "up", "down"} /\ m_exchange' \in Exchanges
      /\ exclusive' \subseteq Queues /\ auto_delete' \subseteq Queues
  BY <1>1 DEF StoreInv, TypeOK
<1>4. \A p \in Queues : Lasting(p) => Lasting(p)'
  BY <1>1 DEF Lasting
<1> QED
  BY <1>1, <1>2, <1>3, <1>4, CallStored

LEMMA QueueDeleteStored ==
  ASSUME StoreInv, NEW q \in Queues, queue_delete(q)
  PROVE  StoreInv'
<1>1. Answer(0) /\ Delete(q) /\ UNCHANGED <<m_conn, channel, consuming, m_exchange>>
  BY DEF queue_delete
<1>2. /\ ret' \in Returns /\ asked' \in 0 .. MaxVector
      /\ UNCHANGED <<pc, publishing, written, to, calls, arrived, failed, cut, disturbed, account, restarts, kept>>
  <2>1. AnswerOf(0, 0) /\ 0 \in 0 .. MaxVector
    BY <1>1, BoundsAreNat DEF Answer
  <2> QED
    BY <2>1, ReturnFacts, AnswerTypes DEF StoreInv
<1>3. /\ queues' \in [Queues -> Lifetimes] /\ exchanges' = exchanges
      /\ exclusive' \subseteq Queues /\ auto_delete' \subseteq Queues
      /\ bindings' \subseteq bindings
      /\ contents' \in [Queues -> Seq(Messages)] /\ held' \in Seq(Messages)
      /\ gone' \subseteq Messages /\ gone \subseteq gone' /\ PushInv'
      /\ \A p \in Queues : Len(Backlog(p)') <= Len(Backlog(p))
      /\ \A p \in Queues : \A m \in kept \cap Range(Backlog(p)) :
           Lasting(p) => m \in gone' \/ (Lasting(p)' /\ m \in Range(Backlog(p)'))
  BY <1>1, <1>2, DeletionFacts
<1>4. TypeOK'
  BY <1>1, <1>2, <1>3 DEF StoreInv, TypeOK, Returns
<1> QED
  BY <1>2, <1>3, <1>4, Carry

\* A consumer takes from the front of its queue; what is sent ahead to it stays in
\* front of what is left.
LEMMA SplitFacts ==
  ASSUME NEW s \in Seq(Messages), NEW got \in 0 .. Len(s)
  PROVE  /\ SubSeq(s, got + 1, Len(s)) \in Seq(Messages)
         /\ Len(SubSeq(s, got + 1, Len(s))) = Len(s) - got
         /\ SubSeq(s, 1, got) \in Seq(Messages)
         /\ SubSeq(s, 1, got) \o SubSeq(s, got + 1, Len(s)) = s
         /\ Range(s) = Range(SubSeq(s, 1, got)) \cup Range(SubSeq(s, got + 1, Len(s)))
<1>1. Len(s) \in Nat /\ got \in Int /\ 0 <= got /\ got <= Len(s)
  BY LenProperties
<1>2. \A i \in got + 1 .. Len(s) : s[i] \in Messages
  BY <1>1, ElementOfSeq
<1>3. \A i \in 1 .. got : s[i] \in Messages
  BY <1>1, ElementOfSeq
<1>4. /\ SubSeq(s, got + 1, Len(s)) \in Seq(Messages)
      /\ Len(SubSeq(s, got + 1, Len(s))) = IF got + 1 <= Len(s) THEN Len(s) - (got + 1) + 1 ELSE 0
  BY <1>1, <1>2, SubSeqProperties
<1>5. SubSeq(s, 1, got) \in Seq(Messages)
  BY <1>1, <1>3, SubSeqProperties
<1>6. SubSeq(s, 1, got) \o SubSeq(s, got + 1, Len(s)) = s
  <2>1. SubSeq(s, 1, got) \o SubSeq(s, got + 1, Len(s)) = SubSeq(s, 1, Len(s))
    <3>1. 1 \in 1 .. Len(s) + 1 /\ got \in 1 - 1 .. Len(s) /\ Len(s) \in got .. Len(s)
      BY <1>1
    <3> QED
      BY <3>1, ConcatAdjacentSubSeq
  <2> QED
    BY <2>1, SubSeqFull
<1>7. Range(SubSeq(s, 1, got) \o SubSeq(s, got + 1, Len(s)))
        = Range(SubSeq(s, 1, got)) \cup Range(SubSeq(s, got + 1, Len(s)))
  BY <1>4, <1>5, RangeConcatenation, ZenonT(30)
<1>8. Len(SubSeq(s, got + 1, Len(s))) = Len(s) - got
  BY <1>1, <1>4
<1>9. Range(s) = Range(SubSeq(s, 1, got)) \cup Range(SubSeq(s, got + 1, Len(s)))
  BY <1>6, <1>7
<1> QED
  BY <1>4, <1>5, <1>6, <1>8, <1>9

LEMMA SubSeqOfTail ==
  ASSUME NEW s \in Seq(Messages), NEW m \in Nat, NEW n \in Nat, m + n <= Len(s)
  PROVE  SubSeq(s, m + n + 1, Len(s)) = SubSeq(SubSeq(s, m + 1, Len(s)), n + 1, Len(SubSeq(s, m + 1, Len(s))))
<1>1. Len(s) \in Nat /\ m \in 0 .. Len(s)
  BY LenProperties
<1>2. /\ SubSeq(s, m + 1, Len(s)) = [i \in 1 .. Len(s) - m |-> s[m + i]]
      /\ SubSeq(s, m + n + 1, Len(s)) = [i \in 1 .. Len(s) - m - n |-> s[m + n + i]]
  <2>1. \A k \in 0 .. Len(s) : SubSeq(s, k + 1, Len(s)) = [i \in 1 .. Len(s) - k |-> s[k + i]]
    <3>1. ASSUME NEW k \in 0 .. Len(s)
          PROVE  SubSeq(s, k + 1, Len(s)) = [i \in 1 .. Len(s) - k |-> s[k + i]]
      <4>1. SubSeq(s, k + 1, Len(s)) = [i \in 1 .. (1 + Len(s) - (k + 1)) |-> s[i + (k + 1) - 1]]
        BY <1>1, <3>1
      <4> QED
        BY <1>1, <4>1
    <3> QED
      BY <3>1
  <2> QED
    BY <1>1, <2>1
<1> DEFINE t == SubSeq(s, m + 1, Len(s))
<1>3. t \in Seq(Messages) /\ Len(t) = Len(s) - m
  BY <1>1, SplitFacts
<1>4. SubSeq(t, n + 1, Len(t)) = [i \in 1 .. Len(t) - n |-> t[n + i]]
  <2> HIDE DEF t
  <2>1. SubSeq(t, n + 1, Len(t)) = [i \in 1 .. (1 + Len(t) - (n + 1)) |-> t[i + (n + 1) - 1]]
    BY <1>1, <1>3
  <2> QED
    BY <1>1, <1>3, <2>1
<1>5. \A i \in 1 .. Len(s) - m - n : t[n + i] = s[m + n + i]
  BY <1>1, <1>2
<1> HIDE DEF t
<1>6. SubSeq(t, n + 1, Len(t)) = [i \in 1 .. Len(s) - m - n |-> s[m + n + i]]
  BY <1>1, <1>3, <1>4, <1>5
<1> QED
  BY <1>2, <1>6 DEF t

LEMMA TakeFacts ==
  ASSUME StoreInv, NEW q \in Queues, NEW got \in Nat, Take(q, got)
  PROVE  /\ Rest(q, got) \in Seq(Messages) /\ Len(Rest(q, got)) = Len(contents[q]) - got
         /\ got <= Len(contents[q]) /\ Len(contents[q]) \in Nat
         /\ Range(contents[q]) \subseteq gone' \cup Range(Rest(q, got))
         /\ gone' \subseteq Messages /\ gone \subseteq gone'
<1>1. TypeOK /\ contents[q] \in Seq(Messages)
  BY DEF StoreInv, TypeOK
<1>2. Len(contents[q]) \in Nat /\ got \in 0 .. Len(contents[q])
  BY <1>1, LenProperties DEF Take
<1>3. /\ Rest(q, got) \in Seq(Messages) /\ Len(Rest(q, got)) = Len(contents[q]) - got
      /\ SubSeq(contents[q], 1, got) \in Seq(Messages)
      /\ Range(contents[q]) = Range(SubSeq(contents[q], 1, got)) \cup Range(Rest(q, got))
  BY <1>1, <1>2, SplitFacts DEF Rest
<1>4. Range(SubSeq(contents[q], 1, got)) \in SUBSET Messages
  BY <1>3, RangeOfSeq
<1> QED
  BY <1>1, <1>2, <1>3, <1>4 DEF Take, TypeOK

\* A consumer that takes from its queue, and spares the others that last.
LEMMA TakenStored ==
  ASSUME StoreInv, NEW q \in Queues, NEW got \in Nat, Take(q, got),
         NEW GetNum \in 0 .. MaxVector, NEW value \in Returns, AnswerOf(GetNum, value),
         UNCHANGED <<exchanges, m_exchange>>,
         queues' \in [Queues -> Lifetimes], exclusive' \subseteq Queues, auto_delete' \subseteq Queues,
         bindings' \subseteq bindings, m_conn' \in {"NULL", "up", "down"},
         contents' \in [Queues -> Seq(Messages)], held' \in Seq(Messages),
         channel' \in BOOLEAN, channel' => m_conn' = "up", consuming' \in Queues \cup {Nobody}, PushInv',
         consuming = Nobody,
         \A p \in Queues : Len(Backlog(p)') <= Len(Backlog(p)),
         \A p \in Queues : Lasting(p) => Lasting(p)' /\ Backlog(p)' = IF p = q THEN Rest(q, got) ELSE Backlog(p)
  PROVE  StoreInv'
<1>1. /\ ret' \in Returns /\ asked' \in 0 .. MaxVector
      /\ UNCHANGED <<pc, publishing, written, to, calls, arrived, failed, cut, disturbed, account, restarts, kept>>
  BY AnswerTypes DEF StoreInv
<1>2. /\ Range(contents[q]) \subseteq gone' \cup Range(Rest(q, got))
      /\ gone' \subseteq Messages /\ gone \subseteq gone'
  BY TakeFacts
<1>3. TypeOK'
  BY <1>1, <1>2 DEF StoreInv, TypeOK, Returns
<1>4. Backlog(q) = contents[q]
  BY NobodyIsNoQueue DEF Backlog
<1>5. ASSUME NEW p \in Queues, NEW m \in kept \cap Range(Backlog(p)), Lasting(p)
      PROVE  m \in gone' \/ (Lasting(p)' /\ m \in Range(Backlog(p)'))
  <2>1. CASE p = q
    BY <1>2, <1>4, <1>5, <2>1
  <2>2. CASE p # q
    <3>1. Lasting(p)' /\ Backlog(p)' = Backlog(p)
      BY <1>5, <2>2
    <3> QED
      BY <1>5, <3>1
  <2> QED
    BY <2>1, <2>2
<1> QED
  BY <1>1, <1>2, <1>3, <1>5, Carry

\* What the three outcomes share: the state they start from, the queue they declare.
LEMMA ConsumerStart ==
  ASSUME StoreInv, NEW q \in Queues, NEW durable \in {"durable", "transient"}, NEW GetNum \in 0 .. MaxVector,
         CanOpen
  PROVE  /\ TypeOK /\ consuming = Nobody /\ held = <<>> /\ ~channel /\ m_conn = "up" /\ GetNum \in Nat
         /\ [queues EXCEPT ![q] = Declared(@, CQueue(durable))] \in [Queues -> Lifetimes]
         /\ \A p \in Queues : queues[p] = "durable" =>
              [queues EXCEPT ![q] = Declared(@, CQueue(durable))][p] = "durable"
         /\ \A p \in Queues : Backlog(p) = contents[p] /\ contents[p] \in Seq(Messages) /\ Len(contents[p]) \in Nat
<1>1. TypeOK /\ consuming = Nobody /\ held = <<>> /\ ~channel /\ m_conn = "up" /\ GetNum \in Nat
  BY BoundsAreNat DEF CanOpen, StoreInv, PushInv
<1>2. Declared(queues[q], CQueue(durable)) \in Lifetimes
      /\ (queues[q] = "durable" => Declared(queues[q], CQueue(durable)) = "durable")
  BY <1>1, DeclaredExists, AttributesDurable DEF TypeOK, Declared
<1>3. \A p \in Queues : Backlog(p) = contents[p] /\ contents[p] \in Seq(Messages) /\ Len(contents[p]) \in Nat
  BY <1>1, NobodyIsNoQueue, LenProperties DEF Backlog, TypeOK
<1>4. queues \in [Queues -> Lifetimes]
  BY <1>1 DEF TypeOK
<1> QED
  BY <1>1, <1>2, <1>3, <1>4

\* What a consumer took was in its queue, so the number is one that may be returned.
LEMMA TakenReturns ==
  ASSUME StoreInv, NEW q \in Queues, NEW n \in Nat, n <= Len(contents[q]), NEW GetNum, NEW value,
         AnswerOf(GetNum, value)
  PROVE  n \in Returns
<1>1. pc = "idle"
  BY DEF AnswerOf
<1>2. n \in 0 .. MaxCalls * MaxVector
  BY <1>1, LengthBound, BoundsAreNat
<1> QED
  BY <1>2, BoundsAreNat DEF Returns

LEMMA ConsumerFullStored ==
  ASSUME StoreInv, NEW q \in Queues, NEW durable \in {"durable", "transient"}, NEW GetNum \in 0 .. MaxVector,
         CanOpen, UNCHANGED <<exchanges, m_exchange>>, consumer_full(q, durable, GetNum)
  PROVE  StoreInv'
<1>1. /\ TypeOK /\ consuming = Nobody /\ held = <<>> /\ ~channel /\ m_conn = "up" /\ GetNum \in Nat
      /\ [queues EXCEPT ![q] = Declared(@, CQueue(durable))] \in [Queues -> Lifetimes]
      /\ \A p \in Queues : queues[p] = "durable" =>
           [queues EXCEPT ![q] = Declared(@, CQueue(durable))][p] = "durable"
      /\ \A p \in Queues : Backlog(p) = contents[p] /\ contents[p] \in Seq(Messages) /\ Len(contents[p]) \in Nat
  BY ConsumerStart
<1>2. /\ Take(q, GetNum) /\ AnswerOf(GetNum, GetNum) /\ channel' = TRUE /\ consuming' = q
      /\ queues' = [queues EXCEPT ![q] = Declared(@, CQueue(durable))]
      /\ UNCHANGED <<exclusive, auto_delete, bindings, m_conn>>
  BY DEF consumer_full
<1>3. PICK ahead \in 0 .. Len(Rest(q, GetNum)) :
        /\ held' = SubSeq(Rest(q, GetNum), 1, ahead)
        /\ contents' = [contents EXCEPT ![q] = Rest(q, GetNum + ahead)]
  BY DEF consumer_full
<1>4. /\ Rest(q, GetNum) \in Seq(Messages) /\ Len(Rest(q, GetNum)) = Len(contents[q]) - GetNum
      /\ GetNum <= Len(contents[q]) /\ Len(contents[q]) \in Nat
  BY <1>1, <1>2, TakeFacts
<1>5. Rest(q, GetNum + ahead) = SubSeq(Rest(q, GetNum), ahead + 1, Len(Rest(q, GetNum)))
  <2>1. contents[q] \in Seq(Messages)
    BY <1>1
  <2>2. /\ GetNum + 1 \in 1 .. Len(contents[q]) + 1 /\ ahead \in Nat
        /\ GetNum + ahead <= Len(contents[q])
    BY <1>1, <1>4
  <2> QED
    BY <2>1, <2>2, <1>1, <1>4, SubSeqOfTail DEF Rest
<1>6. /\ held' \in Seq(Messages) /\ Rest(q, GetNum + ahead) \in Seq(Messages)
      /\ held' \o Rest(q, GetNum + ahead) = Rest(q, GetNum)
  BY <1>3, <1>4, <1>5, SplitFacts
<1>7. contents' \in [Queues -> Seq(Messages)]
  BY <1>1, <1>3, <1>6 DEF TypeOK
<1>8. ASSUME NEW p \in Queues PROVE Backlog(p)' = IF p = q THEN Rest(q, GetNum) ELSE Backlog(p)
  <2>1. contents'[p] = IF p = q THEN Rest(q, GetNum + ahead) ELSE contents[p]
    BY <1>1, <1>3 DEF TypeOK
  <2> QED
    BY <1>1, <1>2, <1>6, <2>1 DEF Backlog
<1>9. \A p \in Queues : Len(Backlog(p)') <= Len(Backlog(p))
  BY <1>1, <1>4, <1>8
<1>10. \A p \in Queues : Lasting(p) => Lasting(p)'
  BY <1>1, <1>2 DEF Lasting
<1>11. GetNum \in Returns
  BY <1>1, <1>2, <1>4, TakenReturns
<1>12. PushInv'
  BY <1>2, NobodyIsNoQueue DEF PushInv, AnswerOf, progress
<1>13. /\ queues' \in [Queues -> Lifetimes] /\ exclusive' \subseteq Queues /\ auto_delete' \subseteq Queues
       /\ bindings' \subseteq bindings /\ m_conn' = "up"
  BY <1>1, <1>2 DEF TypeOK
<1> QED
  BY <1>1, <1>2, <1>6, <1>7, <1>8, <1>9, <1>10, <1>11, <1>12, <1>13, TakenStored

LEMMA ConsumerShortStored ==
  ASSUME StoreInv, NEW q \in Queues, NEW durable \in {"durable", "transient"}, NEW GetNum \in 0 .. MaxVector,
         CanOpen, UNCHANGED <<exchanges, m_exchange>>, consumer_short(q, durable, GetNum)
  PROVE  StoreInv'
<1>1. /\ TypeOK /\ consuming = Nobody /\ held = <<>> /\ ~channel /\ m_conn = "up" /\ GetNum \in Nat
      /\ [queues EXCEPT ![q] = Declared(@, CQueue(durable))] \in [Queues -> Lifetimes]
      /\ \A p \in Queues : queues[p] = "durable" =>
           [queues EXCEPT ![q] = Declared(@, CQueue(durable))][p] = "durable"
      /\ \A p \in Queues : Backlog(p) = contents[p] /\ contents[p] \in Seq(Messages) /\ Len(contents[p]) \in Nat
  BY ConsumerStart
<1>2. /\ queues' = [queues EXCEPT ![q] = Declared(@, CQueue(durable))]
      /\ UNCHANGED <<exclusive, auto_delete, bindings, m_conn, channel, consuming, held>>
  BY DEF consumer_short
<1>3. PICK got \in 0 .. GetNum - 1, type \in Failures :
        /\ Take(q, got)
        /\ \E value \in IF got = 0 THEN {-type, AssertError(type)} ELSE {got} : AnswerOf(GetNum, value)
        /\ contents' = [contents EXCEPT ![q] = Rest(q, got)]
  BY DEF consumer_short
<1>4. got \in Nat
  BY <1>1, <1>3
<1>5. /\ Rest(q, got) \in Seq(Messages) /\ Len(Rest(q, got)) = Len(contents[q]) - got
      /\ got <= Len(contents[q])
  BY <1>3, <1>4, TakeFacts
<1>6. PICK value \in IF got = 0 THEN {-type, AssertError(type)} ELSE {got} : AnswerOf(GetNum, value)
  BY <1>3
<1>7. value \in Returns
  <2>1. got \in Returns
    BY <1>4, <1>5, <1>6, TakenReturns
  <2>2. -type \in Returns /\ AssertError(type) \in Returns
    <3>1. type \in {0, 2, 3} /\ AssertError(type) \in {1, -1} /\ (type # 1 => AssertError(type) = -1)
      BY DEF Failures, Range, amqp_response_type_enum, AssertError
    <3> QED
      BY <3>1, ReturnFacts
  <2> QED
    BY <1>6, <2>1, <2>2
<1>8. contents' \in [Queues -> Seq(Messages)] /\ held' \in Seq(Messages)
  BY <1>1, <1>2, <1>3, <1>5 DEF TypeOK
<1>9. ASSUME NEW p \in Queues PROVE Backlog(p)' = IF p = q THEN Rest(q, got) ELSE Backlog(p)
  <2>1. contents'[p] = IF p = q THEN Rest(q, got) ELSE contents[p]
    BY <1>1, <1>3 DEF TypeOK
  <2> QED
    BY <1>1, <1>2, <2>1, NobodyIsNoQueue DEF Backlog
<1>10. \A p \in Queues : Len(Backlog(p)') <= Len(Backlog(p))
  BY <1>1, <1>4, <1>5, <1>9
<1>11. \A p \in Queues : Lasting(p) => Lasting(p)'
  BY <1>1, <1>2 DEF Lasting
<1>12. PushInv'
  BY <1>1, <1>2 DEF PushInv
<1>13. /\ queues' \in [Queues -> Lifetimes] /\ exclusive' \subseteq Queues /\ auto_delete' \subseteq Queues
       /\ bindings' \subseteq bindings /\ m_conn' = "up" /\ ~channel' /\ channel' \in BOOLEAN /\ consuming' = Nobody
  BY <1>1, <1>2 DEF TypeOK
<1> QED
  BY <1>1, <1>3, <1>4, <1>6, <1>7, <1>8, <1>9, <1>10, <1>11, <1>12, <1>13, TakenStored

LEMMA ConsumerBrokenStored ==
  ASSUME StoreInv, NEW q \in Queues, NEW durable \in {"durable", "transient"}, NEW GetNum \in 0 .. MaxVector,
         CanOpen, UNCHANGED <<exchanges, m_exchange>>, AcceptableQueue(q, CQueue(durable)),
         consumer_broken(q, durable, GetNum)
  PROVE  StoreInv'
<1> DEFINE declared == [queues EXCEPT ![q] = Declared(@, CQueue(durable))]
<1>1. /\ TypeOK /\ consuming = Nobody /\ held = <<>> /\ ~channel /\ m_conn = "up" /\ GetNum \in Nat
      /\ declared \in [Queues -> Lifetimes]
      /\ \A p \in Queues : queues[p] = "durable" => declared[p] = "durable"
      /\ \A p \in Queues : Backlog(p) = contents[p] /\ contents[p] \in Seq(Messages) /\ Len(contents[p]) \in Nat
  BY ConsumerStart
<1> HIDE DEF declared
<1>2. /\ queues' = [p \in Queues |-> IF p \in exclusive THEN "absent" ELSE declared[p]]
      /\ exclusive' = {} /\ auto_delete' = auto_delete \ exclusive
      /\ bindings' = {b \in bindings : b[2] \notin exclusive} /\ m_conn' = "down"
      /\ UNCHANGED <<channel, consuming, held>>
  BY DEF consumer_broken, WithoutExclusive, declared
<1>0. PICK read \in 0 .. GetNum : \E got \in 0 .. read :
        /\ read <= Len(contents[q]) /\ Take(q, got)
        /\ \E value \in IF read = 0 /\ GetNum > 0 THEN {-1, -amqp_response_type_enum.LIBRARY_EXCEPTION}
                         ELSE {-1, read} : AnswerOf(GetNum, value)
        /\ contents' = [p \in Queues |-> CASE p = q -> Rest(q, got)
                                           [] p # q /\ p \in exclusive -> <<>>
                                           [] p # q /\ p \notin exclusive -> contents[p]]
  BY DEF consumer_broken
<1>3. PICK got \in 0 .. read :
        /\ read <= Len(contents[q]) /\ Take(q, got)
        /\ \E value \in IF read = 0 /\ GetNum > 0 THEN {-1, -amqp_response_type_enum.LIBRARY_EXCEPTION}
                         ELSE {-1, read} : AnswerOf(GetNum, value)
        /\ contents' = [p \in Queues |-> CASE p = q -> Rest(q, got)
                                           [] p # q /\ p \in exclusive -> <<>>
                                           [] p # q /\ p \notin exclusive -> contents[p]]
  BY <1>0
<1>4. read \in Nat /\ got \in Nat
  BY <1>1, <1>3
<1>5. /\ Rest(q, got) \in Seq(Messages) /\ Len(Rest(q, got)) = Len(contents[q]) - got
      /\ got <= Len(contents[q])
  BY <1>3, <1>4, TakeFacts
<1>6. PICK value \in {-1, -2, read} : AnswerOf(GetNum, value)
  BY <1>3 DEF amqp_response_type_enum
<1>7. value \in Returns
  <2>1. read \in Returns
    BY <1>3, <1>4, <1>6, TakenReturns
  <2> QED
    BY <1>6, <2>1, ReturnFacts
<1>8. ASSUME NEW p \in Queues
      PROVE  /\ contents'[p] = IF p = q THEN Rest(q, got) ELSE IF p \in exclusive THEN <<>> ELSE contents[p]
             /\ Backlog(p)' = contents'[p] /\ contents'[p] \in Seq(Messages)
             /\ Len(Backlog(p)') <= Len(Backlog(p))
             /\ Lasting(p) => Lasting(p)' /\ Backlog(p)' = IF p = q THEN Rest(q, got) ELSE Backlog(p)
  <2>1. contents'[p] = IF p = q THEN Rest(q, got) ELSE IF p \in exclusive THEN <<>> ELSE contents[p]
    BY <1>3
  <2>2. Backlog(p)' = contents'[p]
    BY <1>1, <1>2, NobodyIsNoQueue DEF Backlog
  <2>3. <<>> \in Seq(Messages) /\ Len(<<>>) = 0
    OBVIOUS
  <2>4. Lasting(p) => p \notin exclusive /\ Lasting(p)'
    BY <1>1, <1>2 DEF Lasting
  <2>5. Backlog(p) = contents[p] /\ contents[p] \in Seq(Messages) /\ Len(contents[p]) \in Nat
    BY <1>1
  <2> QED
    BY <1>4, <1>5, <2>1, <2>2, <2>3, <2>4, <2>5
<1>9. contents' \in [Queues -> Seq(Messages)] /\ held' \in Seq(Messages)
  <2>1. contents' = [p \in Queues |-> contents'[p]]
    BY <1>3
  <2> QED
    BY <1>1, <1>2, <1>8, <2>1 DEF TypeOK
<1>10. PushInv'
  BY <1>1, <1>2 DEF PushInv
<1>11. /\ queues' \in [Queues -> Lifetimes] /\ exclusive' \subseteq Queues /\ auto_delete' \subseteq Queues
       /\ bindings' \subseteq bindings /\ ~channel' /\ channel' \in BOOLEAN /\ consuming' = Nobody
  BY <1>1, <1>2 DEF TypeOK, Lifetimes
<1> QED
  BY <1>1, <1>2, <1>3, <1>4, <1>6, <1>7, <1>8, <1>9, <1>10, <1>11, TakenStored

LEMMA ConsumerStored ==
  ASSUME StoreInv, NEW q \in Queues, NEW durable \in {"durable", "transient"}, NEW GetNum \in 0 .. MaxVector,
         consumer(q, durable, GetNum)
  PROVE  StoreInv'
BY ConsumerFullStored, ConsumerShortStored, ConsumerBrokenStored DEF consumer

LEMMA PublishStored ==
  ASSUME StoreInv, NEW vector \in Vectors, NEW key \in Queues, publish(vector, key)
  PROVE  StoreInv'
<1>1. TypeOK /\ PushInv
  BY DEF StoreInv
<1>2. /\ pc = "idle" /\ pc' = "publish" /\ m_conn = "up" /\ ~channel /\ channel' = TRUE
      /\ calls < MaxCalls /\ calls' = calls + 1 /\ written' = 0 /\ to' = key
      /\ UNCHANGED <<queues, exclusive, auto_delete, exchanges, bindings, contents, m_conn, consuming, held, account,
                     m_exchange, arrived, failed, cut, disturbed, ret, asked, restarts, kept, gone>>
  BY DEF publish, CanOpen, topology
<1>3. publishing' = [n \in DOMAIN vector |->
        [call |-> calls', n |-> n, mode |-> vector[n].mode, plain |-> vector[n].plain]]
  BY DEF publish
<1>4. PICK len \in 0 .. MaxVector :
        /\ DOMAIN vector = 1 .. len
        /\ \A n \in 1 .. len : /\ vector[n].mode \in Modes /\ vector[n].plain \in BOOLEAN
                               /\ vector[n].plain => vector[n].mode = CMessage
  <2>1. CASE \E len \in 0 .. MaxVector : vector \in [1 .. len -> [mode : Modes, plain : {FALSE}]]
    BY <2>1
  <2>2. CASE vector = <<[mode |-> CMessage, plain |-> TRUE]>>
    <3>1. DOMAIN vector = 1 .. 1 /\ vector[1] = [mode |-> CMessage, plain |-> TRUE]
      BY <2>2
    <3>2. \A n \in 1 .. 1 : n = 1
      OBVIOUS
    <3>3. 1 \in 0 .. MaxVector
      BY BoundsAreNat
    <3>4. vector[1].mode = 2 /\ vector[1].plain = TRUE
      BY <3>1 DEF CMessage
    <3>5. \A n \in 1 .. 1 : /\ vector[n].mode \in Modes /\ vector[n].plain \in BOOLEAN
                            /\ vector[n].plain => vector[n].mode = CMessage
      BY <3>2, <3>4 DEF Modes, CMessage
    <3> QED
      BY <3>1, <3>3, <3>5
  <2> QED
    BY <2>1, <2>2 DEF Vectors
<1>5. /\ DOMAIN publishing' = 1 .. len
      /\ \A n \in 1 .. len : publishing'[n] =
           [call |-> calls', n |-> n, mode |-> vector[n].mode, plain |-> vector[n].plain]
  BY <1>3, <1>4
<1>6. calls' \in 1 .. MaxCalls /\ len \in Nat /\ len <= MaxVector
  BY <1>1, <1>2, BoundsAreNat DEF TypeOK
<1>7. publishing' \in Seq(Messages) /\ Len(publishing') = len
  <2>1. \A n \in 1 .. len : n \in 1 .. MaxVector
    BY <1>6, BoundsAreNat
  <2>2. \A n \in 1 .. len : publishing'[n] \in Messages
    BY <1>4, <1>5, <1>6, <2>1 DEF Messages
  <2>3. publishing' \in [1 .. len -> Messages]
    BY <1>3, <1>5, <2>2
  <2> QED
    BY <1>6, <2>3
<1>8. TypeOK'
  <2>1. written' \in 0 .. Len(publishing') /\ calls' \in 0 .. MaxCalls
    BY <1>2, <1>6, <1>7
  <2> QED
    BY <1>1, <1>2, <1>7, <2>1 DEF TypeOK
<1>9. consuming = Nobody /\ PushInv'
  BY <1>1, <1>2 DEF PushInv
<1>10. PlainInv'
  <2>1. \A m \in kept' : m.plain /\ m.mode = CMessage
    BY <1>2 DEF StoreInv, PlainInv
  <2>2. \A n \in 1 .. len : publishing'[n].plain => publishing'[n].mode = CMessage
    BY <1>4, <1>5
  <2> QED
    BY <1>7, <2>1, <2>2 DEF PlainInv
<1>11. \A q \in Queues : Backlog(q)' = Backlog(q)
  BY <1>2 DEF Backlog
<1>12. CountInv'
  <2>1. calls \in Nat /\ MaxVector \in Nat
    BY <1>1, BoundsAreNat DEF TypeOK
  <2>2. Sent = calls * MaxVector /\ calls * MaxVector \in Nat
    BY <1>2, <2>1 DEF Sent
  <2>3. Sent' = Sent
    <3>1. Sent' = (calls' - 1) * MaxVector + 0
      BY <1>2 DEF Sent
    <3>2. calls' - 1 = calls
      BY <1>2, <2>1
    <3> QED
      BY <2>2, <3>1, <3>2
  <2>4. calls' > 0 /\ Len(publishing') <= MaxVector
    BY <1>6, <1>7
  <2>5. \A q \in Queues : Len(Backlog(q)) <= Sent
    BY DEF StoreInv, CountInv
  <2> QED
    BY <1>11, <2>3, <2>4, <2>5 DEF CountInv
<1>13. KeptInv'
  BY <1>2, <1>11 DEF StoreInv, KeptInv, Lasting
<1> QED
  BY <1>8, <1>9, <1>10, <1>12, <1>13 DEF StoreInv

\* A message that is routed: to the end of the queues it is bound to.
LEMMA RoutedStored ==
  ASSUME StoreInv, pc = "publish", written < Len(publishing), Route(publishing[written + 1]),
         UNCHANGED <<queues, exclusive, auto_delete, consuming, held>>
  PROVE  /\ contents' \in [Queues -> Seq(Messages)] /\ arrived' \in [Queues -> SUBSET (1 .. MaxVector)]
         /\ kept' \subseteq Messages
         /\ \A m \in kept' : m.plain /\ m.mode = CMessage
         /\ \A q \in Queues : Len(Backlog(q)') <= Len(Backlog(q)) + 1 /\ Range(Backlog(q)) \subseteq Range(Backlog(q)')
         /\ \A m \in kept' : m \in kept \/ \E q \in Queues : Lasting(q) /\ m \in Range(Backlog(q)')
<1> DEFINE msg == publishing[written + 1]
           targets == {q \in Queues : <<m_exchange, q, to>> \in bindings}
<1>1. TypeOK /\ PushInv
  BY DEF StoreInv
<1>2. written \in Nat /\ written + 1 \in 1 .. Len(publishing)
  BY <1>1, LenProperties DEF TypeOK
<1>3. msg \in Messages /\ msg.n \in 1 .. MaxVector /\ (msg.plain => msg.mode = CMessage)
  <2>1. msg \in Messages /\ (msg.plain => msg.mode = CMessage)
    BY <1>1, <1>2, ElementOfSeq DEF StoreInv, TypeOK, PlainInv
  <2> QED
    BY <2>1 DEF Messages
<1>4. /\ contents' = [q \in Queues |-> IF q \in targets THEN Append(contents[q], msg) ELSE contents[q]]
      /\ arrived' = [q \in Queues |-> IF q \in targets THEN arrived[q] \cup {msg.n} ELSE arrived[q]]
      /\ kept' = IF msg.plain /\ \E q \in targets : Lasting(q) THEN kept \cup {msg} ELSE kept
  BY DEF Route
<1> HIDE DEF msg
<1>5. ASSUME NEW q \in Queues
      PROVE  /\ Append(contents[q], msg) \in Seq(Messages) /\ contents[q] \in Seq(Messages)
             /\ Len(Append(contents[q], msg)) = Len(contents[q]) + 1 /\ Len(contents[q]) \in Nat
             /\ Range(Append(contents[q], msg)) = Range(contents[q]) \cup {msg}
  <2>1. contents[q] \in Seq(Messages)
    BY <1>1 DEF TypeOK
  <2>2. /\ Append(contents[q], msg) \in Seq(Messages) /\ Len(Append(contents[q], msg)) = Len(contents[q]) + 1
        /\ Append(contents[q], msg) = contents[q] \o <<msg>> /\ <<msg>> \in Seq(Messages)
    BY <1>3, <2>1, AppendProperties, AppendIsConcat
  <2>3. Range(contents[q] \o <<msg>>) = Range(contents[q]) \cup Range(<<msg>>)
    BY <2>1, <2>2, RangeConcatenation, ZenonT(30)
  <2>4. Range(<<msg>>) = {msg}
    BY DEF Range
  <2> QED
    BY <2>1, <2>2, <2>3, <2>4, LenProperties
<1>6. \A q \in Queues : Backlog(q) = contents[q] /\ Backlog(q)' = contents'[q]
  BY <1>1, NobodyIsNoQueue DEF PushInv, Backlog
<1>7. contents' \in [Queues -> Seq(Messages)]
  BY <1>4, <1>5
<1>8. arrived' \in [Queues -> SUBSET (1 .. MaxVector)]
  BY <1>1, <1>3, <1>4 DEF TypeOK
<1>9. kept' \subseteq Messages /\ \A m \in kept' : m.plain /\ m.mode = CMessage
  BY <1>1, <1>3, <1>4 DEF StoreInv, TypeOK, PlainInv
<1>10. \A q \in Queues : Len(Backlog(q)') <= Len(Backlog(q)) + 1 /\ Range(Backlog(q)) \subseteq Range(Backlog(q)')
  <2>1. ASSUME NEW q \in Queues
        PROVE Len(Backlog(q)') <= Len(Backlog(q)) + 1 /\ Range(Backlog(q)) \subseteq Range(Backlog(q)')
    <3>1. Backlog(q) = contents[q] /\ Backlog(q)' \in {contents[q], Append(contents[q], msg)}
      BY <1>4, <1>6
    <3>2. CASE Backlog(q)' = contents[q]
      BY <1>5, <3>1, <3>2
    <3>3. CASE Backlog(q)' = Append(contents[q], msg)
      <4>1. /\ Len(Append(contents[q], msg)) = Len(contents[q]) + 1
            /\ Range(Append(contents[q], msg)) = Range(contents[q]) \cup {msg}
        BY <1>5
      <4>2. Len(contents[q]) \in Nat
        BY <1>5
      <4>3. Len(Backlog(q)') <= Len(Backlog(q)) + 1
        BY <3>1, <3>3, <4>1, <4>2
      <4> QED
        BY <3>1, <3>3, <4>1, <4>3
    <3> QED
      BY <3>1, <3>2, <3>3
  <2> QED
    BY <2>1
<1>11. \A m \in kept' : m \in kept \/ \E q \in Queues : Lasting(q) /\ m \in Range(Backlog(q)')
  <2>1. CASE msg.plain /\ \E q \in targets : Lasting(q)
    <3>1. PICK q \in targets : Lasting(q)
      BY <2>1
    <3>2. q \in Queues /\ Backlog(q)' = Append(contents[q], msg)
      BY <1>4, <1>6, <3>1
    <3>3. msg \in Range(Backlog(q)') /\ kept' = kept \cup {msg}
      BY <1>4, <1>5, <2>1, <3>2
    <3> QED
      BY <3>1, <3>2, <3>3
  <2>2. CASE ~(msg.plain /\ \E q \in targets : Lasting(q))
    BY <1>4, <2>2
  <2> QED
    BY <2>1, <2>2
<1> QED
  BY <1>7, <1>8, <1>9, <1>10, <1>11

LEMMA WriteStored ==
  ASSUME IInv, StoreInv, Write
  PROVE  StoreInv'
<1>1. TypeOK /\ PushInv /\ pc = "publish" /\ written < Len(publishing)
  BY WriteInPublish DEF StoreInv, Write, WriteNext
<1>2. /\ written' = written + 1
      /\ UNCHANGED <<queues, exclusive, auto_delete, exchanges, bindings, m_conn, consuming, held, account, m_exchange,
                     pc, publishing, to, calls, cut, disturbed, ret, asked, restarts, gone>>
  BY DEF Write, WriteNext, topology
<1>3. /\ contents' \in [Queues -> Seq(Messages)] /\ arrived' \in [Queues -> SUBSET (1 .. MaxVector)]
      /\ kept' \subseteq Messages /\ channel' \in BOOLEAN /\ (channel' => channel)
      /\ \A m \in kept' : m.plain /\ m.mode = CMessage
      /\ \A q \in Queues : Len(Backlog(q)') <= Len(Backlog(q)) + 1 /\ Range(Backlog(q)) \subseteq Range(Backlog(q)')
      /\ \A m \in kept' : m \in kept \/ \E q \in Queues : Lasting(q) /\ m \in Range(Backlog(q)')
  <2>1. CASE Route(publishing[written + 1]) /\ UNCHANGED <<channel, failed>>
    BY <1>1, <1>2, <2>1, RoutedStored DEF TypeOK
  <2>2. CASE channel' \in {channel, FALSE} /\ UNCHANGED <<contents, arrived, kept>>
    <3>1. UNCHANGED <<contents, arrived, kept>> /\ channel' \in BOOLEAN /\ (channel' => channel)
      <4>1. channel \in BOOLEAN
        BY <1>1 DEF TypeOK
      <4>2. CASE channel' = channel
        BY <4>1, <4>2, <2>2, Zenon
      <4>3. CASE channel' = FALSE
        BY <4>3, <2>2, Zenon
      <4> QED
        BY <4>2, <4>3, <2>2
    <3>2. \A q \in Queues : Backlog(q)' = Backlog(q)
      BY <1>2, <3>1 DEF Backlog
    <3>3. \A q \in Queues : Len(Backlog(q)) \in Nat
      BY <1>1, BacklogFacts
    <3>4. \A q \in Queues : Len(Backlog(q)') <= Len(Backlog(q)) + 1 /\ Range(Backlog(q)) \subseteq Range(Backlog(q)')
      BY <3>2, <3>3
    <3>5. contents' \in [Queues -> Seq(Messages)] /\ arrived' \in [Queues -> SUBSET (1 .. MaxVector)] /\ kept' \subseteq Messages
      BY <1>1, <3>1 DEF TypeOK
    <3>6. \A m \in kept' : m.plain /\ m.mode = CMessage
      BY <3>1 DEF StoreInv, PlainInv
    <3> QED
      BY <3>1, <3>4, <3>5, <3>6
  <2> QED
    BY <1>2, <2>1, <2>2 DEF Write
<1>4. TypeOK'
  <2>2. failed' \subseteq 1 .. MaxVector
    <3>1. /\ failed \subseteq 1 .. MaxVector /\ failed' \in {failed, failed \cup {written'}}
      BY <1>1, <1>2 DEF TypeOK, Write
    <3>2. written' \in 1 .. MaxVector
      BY <1>1, <1>2, BoundsAreNat, LenProperties DEF StoreInv, CountInv, TypeOK
    <3> QED
      BY <3>1, <3>2
  <2>1. written' \in 0 .. Len(publishing')
    BY <1>1, <1>2, LenProperties DEF TypeOK
  <2> QED
    BY <1>1, <1>2, <1>3, <2>1, <2>2 DEF TypeOK
<1>5. PushInv' /\ PlainInv'
  BY <1>1, <1>2, <1>3 DEF StoreInv, PushInv, PlainInv
<1>6. CountInv'
  <2>1. Sent' = Sent + 1 /\ Sent \in Int
    <3>1. (calls - 1) * MaxVector \in Int /\ written \in Int
      BY <1>1, BoundsAreNat DEF TypeOK
    <3> QED
      BY <1>1, <1>2, <3>1 DEF Sent
  <2>2. ASSUME NEW q \in Queues PROVE Len(Backlog(q)') <= Sent'
    <3>1. Len(Backlog(q)) \in Nat /\ Len(Backlog(q)') \in Nat
      BY <1>1, <1>4, BacklogFacts
    <3>2. Len(Backlog(q)) <= Sent
      BY DEF StoreInv, CountInv
    <3> QED
      BY <1>3, <2>1, <3>1, <3>2
  <2> QED
    BY <1>2, <2>2 DEF StoreInv, CountInv
<1>7. KeptInv'
  <2>1. ASSUME NEW m \in kept' \ gone'
        PROVE  \E q \in Queues : Lasting(q)' /\ m \in Range(Backlog(q)')
    <3>1. \A q \in Queues : Lasting(q)' = Lasting(q)
      BY <1>2 DEF Lasting
    <3>2. CASE m \in kept
      <4>1. PICK q \in Queues : Lasting(q) /\ m \in Range(Backlog(q))
        BY <1>2, <2>1, <3>2 DEF StoreInv, KeptInv
      <4> QED
        BY <1>3, <3>1, <4>1
    <3>3. CASE m \notin kept
      <4>1. PICK q \in Queues : Lasting(q) /\ m \in Range(Backlog(q)')
        BY <1>3, <2>1, <3>3
      <4> QED
        BY <3>1, <4>1
    <3> QED
      BY <3>2, <3>3
  <2> QED
    BY <2>1 DEF KeptInv
<1> QED
  BY <1>4, <1>5, <1>6, <1>7 DEF StoreInv

LEMMA EndStored ==
  ASSUME StoreInv, publish_end
  PROVE  StoreInv'
<1>1. TypeOK /\ PushInv
  BY DEF StoreInv
<1>2. /\ pc = "publish" /\ written = Len(publishing) /\ pc' = "idle" /\ channel' = FALSE /\ ret' = 0 /\ asked' = 0
      /\ publishing' = <<>> /\ written' = 0
      /\ arrived' = [q \in Queues |-> {}] /\ failed' = {} /\ cut' = FALSE /\ disturbed' = FALSE
      /\ UNCHANGED <<queues, exclusive, auto_delete, exchanges, bindings, contents, m_conn, consuming, held, account,
                     m_exchange, to, calls, restarts, kept, gone>>
  BY DEF publish_end, topology
<1>3. TypeOK'
  <2>1. <<>> \in Seq(Messages) /\ Len(<<>>) = 0 /\ 0 \in 0 .. 0
    OBVIOUS
  <2>2. ret' \in {Garbage} \cup -4 .. MaxCalls * MaxVector /\ asked' \in 0 .. MaxVector
    BY <1>2, ReturnFacts, BoundsAreNat DEF Returns
  <2> QED
    BY <1>1, <1>2, <2>1, <2>2 DEF TypeOK
<1>4. consuming = Nobody /\ PushInv'
  BY <1>1, <1>2 DEF PushInv
<1>5. \A q \in Queues : Backlog(q)' = Backlog(q)
  BY <1>2 DEF Backlog
<1>6. PlainInv' /\ KeptInv'
  <2>1. Len(<<>>) = 0 /\ 1 .. 0 = {}
    OBVIOUS
  <2> QED
    BY <1>2, <1>5, <2>1 DEF StoreInv, PlainInv, KeptInv, Lasting
<1>7. CountInv'
  <2>1. calls \in Nat /\ MaxVector \in Nat /\ Len(publishing) \in Nat /\ Len(publishing) <= MaxVector
    BY <1>1, <1>2, BoundsAreNat, LenProperties DEF StoreInv, CountInv, TypeOK
  <2>2. Sent = (calls - 1) * MaxVector + Len(publishing) /\ Sent' = calls * MaxVector
    BY <1>2 DEF Sent
  <2>3. (calls - 1) * MaxVector = calls * MaxVector - MaxVector /\ calls * MaxVector \in Nat
    BY <2>1
  <2>4. Sent <= Sent' /\ Sent \in Int /\ Sent' \in Int
    BY <2>1, <2>2, <2>3
  <2>5. \A q \in Queues : Len(Backlog(q)) <= Sent /\ Len(Backlog(q)) \in Nat
    BY <1>1, BacklogFacts DEF StoreInv, CountInv
  <2> QED
    BY <1>2, <1>5, <2>4, <2>5 DEF CountInv
<1> QED
  BY <1>3, <1>4, <1>6, <1>7 DEF StoreInv

-----------------------------------------------------------------------------
(* The invariant and what follows from it.                                 *)

LEMMA InitStore == Init => StoreInv
<1> SUFFICES ASSUME Init PROVE StoreInv
  OBVIOUS
<1>1. <<>> \in Seq(Messages) /\ Len(<<>>) = 0 /\ 0 \in 0 .. 0 /\ 1 .. 0 = {}
  OBVIOUS
<1>2. /\ 0 \in {Garbage} \cup -4 .. MaxCalls * MaxVector
      /\ 0 \in 0 .. MaxCalls /\ 0 \in 0 .. MaxRestarts /\ 0 \in 0 .. MaxVector /\ MaxVector \in Nat
  BY ReturnFacts, BoundsAreNat DEF Returns
<1>3. TypeOK
  BY <1>1, <1>2, DefaultIsExchange DEF Init, TypeOK, Lifetimes
<1>4. PushInv /\ PlainInv /\ KeptInv
  BY <1>1 DEF Init, PushInv, PlainInv, KeptInv
<1>5. CountInv
  <2>1. Sent = 0
    BY <1>2 DEF Init, Sent
  <2>2. \A q \in Queues : Backlog(q) = <<>>
    BY NobodyIsNoQueue DEF Init, Backlog
  <2> QED
    BY <1>1, <2>1, <2>2 DEF Init, CountInv
<1> QED
  BY <1>3, <1>4, <1>5 DEF StoreInv

LEMMA StoreStep ==
  ASSUME IInv, StoreInv, [Next]_vars
  PROVE  StoreInv'
<1>1. CASE CRabbitMQ_Adapter
  <2>1. CASE Connect \/ Disconnect \/ CannotOpen \/ Refused
    BY <2>1, ConnectionStored
  <2>2. CASE SetAccount
    BY <2>2, SetAccountStored
  <2>3. CASE \E x \in Exchanges, a \in ExchangeAttributes : exchange_declare(x, a)
    BY <2>3, ExchangeStored
  <2>4. CASE \E q \in Queues, a \in QueueAttributes : queue_declare(q, a) \/ getMessageCount(q, a)
    BY <2>4, QueueStored
  <2>5. CASE \E q \in Queues, x \in Exchanges, key \in Queues : queue_bind(q, x, key) \/ queue_unbind(q, x, key)
    BY <2>5, BindingStored
  <2>6. CASE \E q \in Queues : queue_delete(q)
    BY <2>6, QueueDeleteStored
  <2>7. CASE \E q \in Queues, durable \in {"durable", "transient"}, GetNum \in 0 .. MaxVector :
               consumer(q, durable, GetNum)
    BY <2>7, ConsumerStored
  <2>8. CASE \E vector \in Vectors, key \in Queues : publish(vector, key)
    BY <2>8, PublishStored
  <2>9. CASE Write
    BY <2>9, WriteStored
  <2>10. CASE publish_end
    BY <2>10, EndStored
  <2> QED
    BY <1>1, <2>1, <2>2, <2>3, <2>4, <2>5, <2>6, <2>7, <2>8, <2>9, <2>10 DEF CRabbitMQ_Adapter
<1>2. CASE LinkLost
  BY <1>2, LinkLostStored
<1>3. CASE Restart
  BY <1>3, RestartStored
<1>4. CASE OthersDelete
  BY <1>4, OthersDeleteStored
<1>5. CASE UNCHANGED vars
  <2>1. UNCHANGED <<queues, exclusive, auto_delete, exchanges, bindings, contents, m_conn, channel, consuming, held,
                    account, m_exchange, pc, publishing, written, to, calls, arrived, failed, cut, disturbed, ret,
                    asked, restarts, kept, gone>>
    BY <1>5 DEF vars, topology, session, progress
  <2>2. TypeOK'
    BY <2>1 DEF StoreInv, TypeOK
  <2>3. PushInv' /\ \A q \in Queues : Backlog(q)' = Backlog(q) /\ (Lasting(q) => Lasting(q)')
    BY <2>1 DEF StoreInv, PushInv, Backlog, Lasting
  <2> QED
    BY <2>1, <2>2, <2>3, CarryAll
<1> QED
  BY <1>1, <1>2, <1>3, <1>4, <1>5 DEF Next, CRabbitMQ_Proxy

LEMMA StoreInvariance == Spec => []StoreInv
<1>1. Init => StoreInv
  BY InitStore
<1>2. IInv /\ StoreInv /\ [Next]_vars => StoreInv'
  BY StoreStep
<1> QED
  BY <1>1, <1>2, Invariance, PTL DEF Spec

\* Every value stays in its range, the answers of all calls included: a count of
\* messages, of a queue or of a consumer, is at most what was ever sent
\* (RabbitMQ_Adapter.cpp:286-306, 308-410).
THEOREM TypeCorrect == Spec => []TypeOK
<1>1. StoreInv => TypeOK
  BY DEF StoreInv
<1> QED
  BY <1>1, StoreInvariance, PTL

\* What publish(string) put into a durable queue that is neither exclusive nor
\* auto_delete is in a queue, or on its way to a consumer, until it is acknowledged
\* or its queue deleted: any number of restarts, lost links, exclusive queues,
\* consumers and publishes in any order (MessageBody.h:29, 77-78,
\* RabbitMQ_Adapter.cpp:191, 219-223).
THEOREM PlainSurvive == Spec => []PlainMessagesSurvive
<1>1. ASSUME StoreInv PROVE PlainMessagesSurvive
  <2>1. ASSUME NEW m \in kept, m \notin gone
        PROVE  m \in Range(held) \cup UNION {Range(contents[q]) : q \in Queues}
    <3>1. PICK q \in Queues : Lasting(q) /\ m \in Range(Backlog(q))
      BY <1>1, <2>1 DEF StoreInv, KeptInv
    <3>2. m \in Range(held) \/ m \in Range(contents[q])
      BY <1>1, <3>1, BacklogFacts DEF StoreInv
    <3> QED
      BY <3>2
  <2> QED
    BY <2>1 DEF PlainMessagesSurvive
<1> QED
  BY <1>1, StoreInvariance, PTL
=============================================================================
