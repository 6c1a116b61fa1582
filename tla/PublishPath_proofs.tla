------------------------- MODULE PublishPath_proofs -------------------------
(***************************************************************************)
(* Proofs about PublishPath for every set of publishers, exchanges and     *)
(* queues, every topology beforehand, and every bound.                     *)
(***************************************************************************)
EXTENDS PublishPath, TLAPS

-----------------------------------------------------------------------------
(* The inductive invariant.                                                *)

Busy(p) == pc[p] # "idle"

\* A publisher in a call has a message, with a target and no answer yet, and a
\* link once Connect succeeded; one outside has none.  A message under way is
\* one that the call has written.
Called(p) ==
  /\ Busy(p) =>
       /\ call[p] \in 1 .. MaxCalls
       /\ target[message(p)] \in Exchanges \X Queues
       /\ answer[message(p)] = "none"
  /\ link[p] # "none" <=> pc[p] \notin {"idle", "connect"}
  /\ wire[p] # None => pc[p] = "close"

CallInv == \A p \in Publishers : Called(p)

\* The n-th message of a publisher: before its call it has no answer and is
\* nowhere; it is put into queues only between its writing and the return of
\* its call, which can then only be true.
Placed(p, n) ==
  /\ n > call[p] =>
       answer[<<p, n>>] = "none" /\ routed[<<p, n>>] = {} /\ <<p, n>> \notin broken
  /\ routed[<<p, n>>] # {} =>
       answer[<<p, n>>] = "true" \/ (pc[p] = "close" /\ call[p] = n)

PlaceInv == \A p \in Publishers, n \in 1 .. MaxCalls : Placed(p, n)

\* Queues are bound with their own key.  An adapter publishes to the default
\* exchange or to one that it declared.
Bound == \A b \in bindings : b[2] = b[3]

Exchanged(p) ==
  /\ exchange[p] = DefaultExchange \/ kind[exchange[p]] = "direct"
  /\ wire[p] # None => wire[p] = exchange[p]

ExchangeInv == Bound /\ \A p \in Publishers : Exchanged(p)

\* What a call has achieved on which nothing failed so far that it ignores, nor its
\* link.
Achieved(p) ==
  LET x == exchangename(p)
      q == queueName(p) IN
  /\ pc[p] \notin {"connect", "exchange"} => kind[x] = "direct" /\ exchange[p] = x
  /\ pc[p] \in {"open", "write", "close"} => <<x, q, q>> \in bindings
  /\ pc[p] = "close" => wire[p] = x \/ q \in routed[message(p)]

Worked(p) ==
  Busy(p) =>
    /\ link[p] = "down" => message(p) \in broken
    /\ message(p) \notin broken \cup ignored => Achieved(p)

WorkInv == \A p \in Publishers : Worked(p)

\* A true answer, with the target that the call was given.
TrueInv ==
  \A m \in Messages : answer[m] = "true" =>
    /\ target[m] \in Exchanges \X Queues
    /\ m \notin broken \cup ignored => Target(m) \in routed[m]

IInv ==
  /\ TypeOK
  /\ CallInv
  /\ PlaceInv
  /\ ExchangeInv
  /\ WorkInv
  /\ TrueInv
  /\ OnlyTheTarget

-----------------------------------------------------------------------------
(* What every step of a publisher does.                                    *)

Step(p) == publishMsg(p) \/ Route(p) \/ LinkLost(p)

LEMMA NextStep == [Next]_vars => UNCHANGED vars \/ \E p \in Publishers : Step(p)
BY DEF Next, Step

LEMMA MessageTyped ==
  ASSUME TypeOK, CallInv, NEW p \in Publishers, Busy(p)
  PROVE  /\ message(p) \in Messages
         /\ exchangename(p) \in Exchanges
         /\ queueName(p) \in Queues
BY DEF CallInv, Called, Busy, message, Messages, exchangename, queueName

LEMMA MatchesTyped ==
  ASSUME TypeOK, NEW x \in Exchanges, NEW key
  PROVE  Matches(x, key) \subseteq Queues
<1>1. \A b \in bindings : b[2] \in Queues
  BY DEF TypeOK
<1>2. CASE kind[x] = "direct"
  BY <1>1, <1>2 DEF Matches
<1>3. CASE kind[x] = "other"
  BY <1>1, <1>3 DEF Matches
<1>4. CASE kind[x] = "absent"
  BY <1>4 DEF Matches
<1> QED
  BY <1>2, <1>3, <1>4 DEF TypeOK

LEMMA TypeStep ==
  ASSUME TypeOK, CallInv, NEW p \in Publishers, Step(p)
  PROVE  TypeOK'
<1> USE DefaultIsExchange, BoundsAreNat, NoneIsNoQueue DEF TypeOK
<1>1. ASSUME NEW x \in Exchanges, NEW q \in Queues, Begin(p, x, q) PROVE TypeOK'
  <2>1. target' \in [Messages -> (Exchanges \X Queues) \cup {None}]
    BY <1>1, ZenonT(30) DEF Begin
  <2>2. call' \in [Publishers -> 0 .. MaxCalls]
    BY <1>1 DEF Begin
  <2>3. pc' \in [Publishers -> {"idle", "connect", "exchange", "queue", "bind", "open", "write", "close"}]
    BY <1>1 DEF Begin, Goto
  <2>4. exchange' \in [Publishers -> Exchanges]
    BY <1>1 DEF Begin
  <2> QED
    BY <1>1, <2>1, <2>2, <2>3, <2>4 DEF Begin, topology
<1>2. CASE Connect(p)
  BY <1>2 DEF Connect, topology, Goto
<1>3. CASE ConnectFails(p)
  BY <1>3 DEF ConnectFails, topology, Return, Goto
<1>4. CASE DeclareExchange(p)
  <2>1. Busy(p) /\ message(p) \in Messages /\ exchangename(p) \in Exchanges /\ queueName(p) \in Queues
    BY <1>4, MessageTyped DEF DeclareExchange, topology, Goto, Busy
  <2>2. kind' \in [Exchanges -> {"absent", "direct", "other"}] /\ exchange' \in [Publishers -> Exchanges]
    BY <1>4, <2>1 DEF DeclareExchange
  <2> QED
    BY <1>4, <2>2 DEF DeclareExchange, topology, Goto
<1>5. CASE DeclareExchangeFails(p)
  <2>1. Busy(p) /\ message(p) \in Messages /\ exchangename(p) \in Exchanges /\ queueName(p) \in Queues
    BY <1>5, MessageTyped DEF DeclareExchangeFails, topology, Goto, Busy
  <2>2. kind' \in [Exchanges -> {"absent", "direct", "other"}] /\ ignored' \subseteq Messages
    BY <1>5, <2>1 DEF DeclareExchangeFails
  <2> QED
    BY <1>5, <2>2 DEF DeclareExchangeFails, topology, Goto
<1>6. CASE DeclareQueue(p)
  <2>1. Busy(p) /\ message(p) \in Messages /\ exchangename(p) \in Exchanges /\ queueName(p) \in Queues
    BY <1>6, MessageTyped DEF DeclareQueue, topology, Return, Goto, Busy
  <2>2. declared' \in [Queues -> {"absent", "durable", "other"}]
    BY <1>6, <2>1 DEF DeclareQueue
  <2>3. CASE Goto(p, "queue", "bind") /\ UNCHANGED <<answer, link, exchange, ignored>>
    BY <1>6, <2>2, <2>3 DEF DeclareQueue, Goto
  <2>4. CASE Return(p, "queue", "false")
    BY <1>6, <2>2, <2>4 DEF DeclareQueue, Return, Goto
  <2> QED
    BY <1>6, <2>3, <2>4 DEF DeclareQueue
<1>7. CASE DeclareQueueFails(p)
  BY <1>7 DEF DeclareQueueFails, topology, Return, Goto
<1>8. CASE BindQueue(p)
  <2>1. Busy(p) /\ message(p) \in Messages /\ exchangename(p) \in Exchanges /\ queueName(p) \in Queues
    BY <1>8, MessageTyped DEF BindQueue, topology, Return, Goto, Busy
  <2>2. bindings' \subseteq Exchanges \X Queues \X Queues
    BY <1>8, <2>1 DEF BindQueue, RoutingKey
  <2>3. CASE Goto(p, "bind", "open") /\ UNCHANGED <<answer, link, exchange, ignored>>
    BY <1>8, <2>2, <2>3 DEF BindQueue, Goto
  <2>4. CASE Return(p, "bind", "false")
    BY <1>8, <2>2, <2>4 DEF BindQueue, Return, Goto
  <2> QED
    BY <1>8, <2>3, <2>4 DEF BindQueue
<1>9. CASE BindQueueFails(p)
  BY <1>9 DEF BindQueueFails, topology, Return, Goto
<1>10. CASE OpenChannel(p)
  BY <1>10 DEF OpenChannel, topology, Goto
<1>11. CASE OpenChannelFails(p)
  BY <1>11 DEF OpenChannelFails, topology, Return, Goto
<1>12. CASE Write(p)
  BY <1>12 DEF Write, topology, Goto
<1>13. CASE WriteFails(p)
  <2>1. Busy(p) /\ message(p) \in Messages /\ exchangename(p) \in Exchanges /\ queueName(p) \in Queues
    BY <1>13, MessageTyped DEF WriteFails, topology, Goto, Busy
  <2> QED
    BY <1>13, <2>1 DEF WriteFails, topology, Goto
<1>14. CASE Finish(p)
  BY <1>14 DEF Finish, topology, Return, Goto
<1>15. CASE Route(p)
  <2>1. Busy(p) /\ message(p) \in Messages /\ exchangename(p) \in Exchanges /\ queueName(p) \in Queues
    BY <1>15, MessageTyped DEF Route, topology, CallInv, Called, Busy
  <2>2. Matches(wire[p], RoutingKey(p)) \subseteq Queues
    BY <1>15, MatchesTyped DEF Route
  <2> QED
    BY <1>15, <2>1, <2>2 DEF Route, topology
<1>16. CASE LinkLost(p)
  <2>1. Busy(p) /\ message(p) \in Messages /\ exchangename(p) \in Exchanges /\ queueName(p) \in Queues
    BY <1>16, MessageTyped DEF LinkLost, topology, CallInv, Called, Busy
  <2> QED
    BY <1>16, <2>1 DEF LinkLost, topology
<1> QED
  BY <1>1, <1>2, <1>3, <1>4, <1>5, <1>6, <1>7, <1>8, <1>9, <1>10, <1>11, <1>12, <1>13, <1>14, <1>15, <1>16 DEF Step, publishMsg

\* A step of p leaves the calls of others and all other messages alone.
Others(p) ==
  /\ \A r \in Publishers : r # p =>
       /\ pc'[r] = pc[r] /\ call'[r] = call[r] /\ exchange'[r] = exchange[r]
       /\ link'[r] = link[r] /\ wire'[r] = wire[r]
  /\ \A m \in Messages : m # message(p) =>
       /\ answer'[m] = answer[m] /\ routed'[m] = routed[m]
       /\ m \in broken' <=> m \in broken
       /\ m \in ignored' <=> m \in ignored

\* Of what is shared it adds, and never makes an exchange of another kind.
Shared(p) ==
  /\ \A x \in Exchanges :
       /\ kind'[x] = "other" <=> kind[x] = "other"
       /\ kind[x] = "direct" => kind'[x] = "direct"
  /\ bindings \subseteq bindings' /\ broken \subseteq broken'
  /\ \A m \in Messages : m # <<p, call[p] + 1>> => target'[m] = target[m]
  /\ call'[p] = call[p] \/ (call'[p] = call[p] + 1 /\ ~Busy(p))

\* Its own message is put into queues only while the call is in close, which
\* can only be left with true.
Own(p) ==
  /\ Busy(p) \/ (answer'[message(p)] = answer[message(p)] /\ ignored' = ignored)
  /\ \/ routed'[message(p)] = routed[message(p)]
     \/ pc[p] = "close" /\ pc'[p] = "close"
  /\ pc[p] = "close" => pc'[p] = "close" \/ answer'[message(p)] = "true"

LEMMA OthersKept ==
  ASSUME TypeOK, CallInv, NEW p \in Publishers, Step(p)
  PROVE  Others(p)
<1> USE DEF TypeOK, Others
<1>1. ASSUME NEW x \in Exchanges, NEW q \in Queues, Begin(p, x, q) PROVE Others(p)
  BY <1>1 DEF Begin, topology, Goto
<1>2. CASE Connect(p)
  BY <1>2 DEF Connect, topology, Goto
<1>3. CASE ConnectFails(p)
  BY <1>3 DEF ConnectFails, topology, Return, Goto
<1>4. CASE DeclareExchange(p)
  BY <1>4 DEF DeclareExchange, topology, Goto
<1>5. CASE DeclareExchangeFails(p)
  BY <1>5 DEF DeclareExchangeFails, topology, Goto
<1>6. CASE DeclareQueue(p)
  BY <1>6 DEF DeclareQueue, topology, Return, Goto
<1>7. CASE DeclareQueueFails(p)
  BY <1>7 DEF DeclareQueueFails, topology, Return, Goto
<1>8. CASE BindQueue(p)
  BY <1>8 DEF BindQueue, topology, Return, Goto
<1>9. CASE BindQueueFails(p)
  BY <1>9 DEF BindQueueFails, topology, Return, Goto
<1>10. CASE OpenChannel(p)
  BY <1>10 DEF OpenChannel, topology, Goto
<1>11. CASE OpenChannelFails(p)
  BY <1>11 DEF OpenChannelFails, topology, Return, Goto
<1>12. CASE Write(p)
  BY <1>12 DEF Write, topology, Goto
<1>13. CASE WriteFails(p)
  BY <1>13 DEF WriteFails, topology, Goto
<1>14. CASE Finish(p)
  BY <1>14 DEF Finish, topology, Return, Goto
<1>15. CASE Route(p)
  BY <1>15 DEF Route, topology
<1>16. CASE LinkLost(p)
  BY <1>16 DEF LinkLost, topology
<1> QED
  BY <1>1, <1>2, <1>3, <1>4, <1>5, <1>6, <1>7, <1>8, <1>9, <1>10, <1>11, <1>12, <1>13, <1>14, <1>15, <1>16 DEF Step, publishMsg

LEMMA SharedGrows ==
  ASSUME TypeOK, CallInv, NEW p \in Publishers, Step(p)
  PROVE  Shared(p)
<1> USE DEF TypeOK, Shared, Busy
<1>1. ASSUME NEW x \in Exchanges, NEW q \in Queues, Begin(p, x, q) PROVE Shared(p)
  BY <1>1 DEF Begin, topology, Goto
<1>2. CASE Connect(p)
  BY <1>2 DEF Connect, topology, Goto
<1>3. CASE ConnectFails(p)
  BY <1>3 DEF ConnectFails, topology, Return, Goto
<1>4. CASE DeclareExchange(p)
  <2>1. Busy(p) /\ message(p) \in Messages /\ exchangename(p) \in Exchanges /\ queueName(p) \in Queues
    BY <1>4, MessageTyped DEF DeclareExchange, topology, Goto, Busy
  <2> QED
    BY <1>4, <2>1 DEF DeclareExchange, topology, Goto
<1>5. CASE DeclareExchangeFails(p)
  BY <1>5 DEF DeclareExchangeFails, topology, Goto
<1>6. CASE DeclareQueue(p)
  BY <1>6 DEF DeclareQueue, topology, Return, Goto
<1>7. CASE DeclareQueueFails(p)
  BY <1>7 DEF DeclareQueueFails, topology, Return, Goto
<1>8. CASE BindQueue(p)
  BY <1>8 DEF BindQueue, topology, Return, Goto
<1>9. CASE BindQueueFails(p)
  BY <1>9 DEF BindQueueFails, topology, Return, Goto
<1>10. CASE OpenChannel(p)
  BY <1>10 DEF OpenChannel, topology, Goto
<1>11. CASE OpenChannelFails(p)
  BY <1>11 DEF OpenChannelFails, topology, Return, Goto
<1>12. CASE Write(p)
  BY <1>12 DEF Write, topology, Goto
<1>13. CASE WriteFails(p)
  BY <1>13 DEF WriteFails, topology, Goto
<1>14. CASE Finish(p)
  BY <1>14 DEF Finish, topology, Return, Goto
<1>15. CASE Route(p)
  BY <1>15 DEF Route, topology
<1>16. CASE LinkLost(p)
  BY <1>16 DEF LinkLost, topology
<1> QED
  BY <1>1, <1>2, <1>3, <1>4, <1>5, <1>6, <1>7, <1>8, <1>9, <1>10, <1>11, <1>12, <1>13, <1>14, <1>15, <1>16 DEF Step, publishMsg

LEMMA OwnDone ==
  ASSUME TypeOK, CallInv, NEW p \in Publishers, Step(p)
  PROVE  Own(p)
<1> USE DEF TypeOK, Own, Busy
<1>1. ASSUME NEW x \in Exchanges, NEW q \in Queues, Begin(p, x, q) PROVE Own(p)
  BY <1>1 DEF Begin, topology, Goto
<1>2. CASE Connect(p)
  BY <1>2 DEF Connect, topology, Goto
<1>3. CASE ConnectFails(p)
  BY <1>3 DEF ConnectFails, topology, Return, Goto
<1>4. CASE DeclareExchange(p)
  BY <1>4 DEF DeclareExchange, topology, Goto
<1>5. CASE DeclareExchangeFails(p)
  BY <1>5 DEF DeclareExchangeFails, topology, Goto
<1>6. CASE DeclareQueue(p)
  BY <1>6 DEF DeclareQueue, topology, Return, Goto
<1>7. CASE DeclareQueueFails(p)
  BY <1>7 DEF DeclareQueueFails, topology, Return, Goto
<1>8. CASE BindQueue(p)
  BY <1>8 DEF BindQueue, topology, Return, Goto
<1>9. CASE BindQueueFails(p)
  BY <1>9 DEF BindQueueFails, topology, Return, Goto
<1>10. CASE OpenChannel(p)
  BY <1>10 DEF OpenChannel, topology, Goto
<1>11. CASE OpenChannelFails(p)
  BY <1>11 DEF OpenChannelFails, topology, Return, Goto
<1>12. CASE Write(p)
  BY <1>12 DEF Write, topology, Goto
<1>13. CASE WriteFails(p)
  BY <1>13 DEF WriteFails, topology, Goto
<1>14. CASE Finish(p)
  <2>1. Busy(p) /\ message(p) \in Messages /\ exchangename(p) \in Exchanges /\ queueName(p) \in Queues
    BY <1>14, MessageTyped DEF Finish, topology, Return, Goto, Busy
  <2> QED
    BY <1>14, <2>1 DEF Finish, topology, Return, Goto
<1>15. CASE Route(p)
  BY <1>15 DEF Route, topology, CallInv, Called
<1>16. CASE LinkLost(p)
  BY <1>16 DEF LinkLost, topology, CallInv, Called
<1> QED
  BY <1>1, <1>2, <1>3, <1>4, <1>5, <1>6, <1>7, <1>8, <1>9, <1>10, <1>11, <1>12, <1>13, <1>14, <1>15, <1>16 DEF Step, publishMsg

\* Only the broker puts the message into queues, and only the return at the end
\* of the call answers true.
Causes(p) ==
  /\ routed'[message(p)] # routed[message(p)] => Route(p)
  /\ Busy(p) /\ answer'[message(p)] = "true" => Finish(p)

LEMMA OwnCauses ==
  ASSUME TypeOK, CallInv, NEW p \in Publishers, Step(p)
  PROVE  Causes(p)
<1> USE DEF TypeOK, Busy, CallInv, Called, Causes
<1>1. ASSUME NEW x \in Exchanges, NEW q \in Queues, Begin(p, x, q) PROVE Causes(p)
  BY <1>1 DEF Begin, topology, Goto
<1>2. CASE Connect(p)
  BY <1>2 DEF Connect, topology, Goto
<1>3. CASE ConnectFails(p)
  <2>1. Busy(p) /\ message(p) \in Messages /\ exchangename(p) \in Exchanges /\ queueName(p) \in Queues
    BY <1>3, MessageTyped DEF ConnectFails, topology, Return, Goto, Busy
  <2> QED
    BY <1>3, <2>1 DEF ConnectFails, topology, Return, Goto
<1>4. CASE DeclareExchange(p)
  BY <1>4 DEF DeclareExchange, topology, Goto
<1>5. CASE DeclareExchangeFails(p)
  BY <1>5 DEF DeclareExchangeFails, topology, Goto
<1>6. CASE DeclareQueue(p)
  <2>1. Busy(p) /\ message(p) \in Messages /\ exchangename(p) \in Exchanges /\ queueName(p) \in Queues
    BY <1>6, MessageTyped DEF DeclareQueue, topology, Return, Goto, Busy
  <2> QED
    BY <1>6, <2>1 DEF DeclareQueue, topology, Return, Goto
<1>7. CASE DeclareQueueFails(p)
  <2>1. Busy(p) /\ message(p) \in Messages /\ exchangename(p) \in Exchanges /\ queueName(p) \in Queues
    BY <1>7, MessageTyped DEF DeclareQueueFails, topology, Return, Goto, Busy
  <2> QED
    BY <1>7, <2>1 DEF DeclareQueueFails, topology, Return, Goto
<1>8. CASE BindQueue(p)
  <2>1. Busy(p) /\ message(p) \in Messages /\ exchangename(p) \in Exchanges /\ queueName(p) \in Queues
    BY <1>8, MessageTyped DEF BindQueue, topology, Return, Goto, Busy
  <2> QED
    BY <1>8, <2>1 DEF BindQueue, topology, Return, Goto
<1>9. CASE BindQueueFails(p)
  <2>1. Busy(p) /\ message(p) \in Messages /\ exchangename(p) \in Exchanges /\ queueName(p) \in Queues
    BY <1>9, MessageTyped DEF BindQueueFails, topology, Return, Goto, Busy
  <2> QED
    BY <1>9, <2>1 DEF BindQueueFails, topology, Return, Goto
<1>10. CASE OpenChannel(p)
  BY <1>10 DEF OpenChannel, topology, Goto
<1>11. CASE OpenChannelFails(p)
  <2>1. Busy(p) /\ message(p) \in Messages /\ exchangename(p) \in Exchanges /\ queueName(p) \in Queues
    BY <1>11, MessageTyped DEF OpenChannelFails, topology, Return, Goto, Busy
  <2> QED
    BY <1>11, <2>1 DEF OpenChannelFails, topology, Return, Goto
<1>12. CASE Write(p)
  BY <1>12 DEF Write, topology, Goto
<1>13. CASE WriteFails(p)
  BY <1>13 DEF WriteFails, topology, Goto
<1>14. CASE Finish(p)
  BY <1>14 DEF Finish, topology, Return, Goto
<1>15. CASE Route(p)
  BY <1>15 DEF Route, topology
<1>16. CASE LinkLost(p)
  BY <1>16 DEF LinkLost, topology
<1> QED
  BY <1>1, <1>2, <1>3, <1>4, <1>5, <1>6, <1>7, <1>8, <1>9, <1>10, <1>11, <1>12, <1>13, <1>14, <1>15, <1>16 DEF Step, publishMsg

\* Messages are told apart by their publisher and their number.
LEMMA Pairs ==
  ASSUME NEW p \in Publishers, NEW n \in 1 .. MaxCalls
  PROVE  /\ <<p, n>> \in Messages
         /\ \A r \in Publishers, k \in Nat : <<p, n>> = <<r, k>> <=> (p = r /\ n = k)
BY BoundsAreNat DEF Messages

\* A step of p changes neither the message nor the target of a call under way.
LEMMA SameCall ==
  ASSUME TypeOK, CallInv, NEW p \in Publishers, Step(p), NEW r \in Publishers, Busy(r)
  PROVE  /\ message(r) \in Messages /\ (r # p => message(r) # message(p))
         /\ message(r)' = message(r)
         /\ exchangename(r)' = exchangename(r) /\ queueName(r)' = queueName(r)
<1>1. call[r] \in 1 .. MaxCalls /\ call[p] \in Nat
  BY DEF CallInv, Called, TypeOK
<1>2. message(r) \in Messages /\ message(r) # <<p, call[p] + 1>> /\ (r # p => message(r) # message(p))
  BY <1>1, Pairs DEF message
<1>3. call'[r] = call[r]
  BY OthersKept, SharedGrows DEF Others, Shared
<1>4. target'[message(r)] = target[message(r)]
  BY <1>2, SharedGrows DEF Shared
<1> QED
  BY <1>2, <1>3, <1>4 DEF message, exchangename, queueName

LEMMA CallStepOwn ==
  ASSUME TypeOK, CallInv, PlaceInv, NEW p \in Publishers, Step(p)
  PROVE  Called(p)'
<1>20. Called(p) /\ (Busy(p) => message(p) \in Messages)
  BY MessageTyped DEF CallInv
<1>21. ASSUME Busy(p), Busy(p)' PROVE target'[message(p)'] = target[message(p)] /\ call'[p] = call[p]
  <2>1. message(p) \in Messages /\ message(p)' = message(p)
    BY <1>21, SameCall
  <2>2. message(p) # <<p, call[p] + 1>> /\ call'[p] = call[p]
    BY <1>21, SharedGrows DEF message, Shared, TypeOK
  <2> QED
    BY <2>1, <2>2, SharedGrows DEF Shared
<1> USE <1>20 DEF TypeOK, Called, Busy
<1>1. ASSUME NEW x \in Exchanges, NEW q \in Queues, Begin(p, x, q) PROVE Called(p)'
  <2>1. call[p] + 1 \in 1 .. MaxCalls
    BY <1>1, BoundsAreNat DEF Begin
  <2>2. answer[<<p, call[p] + 1>>] = "none" /\ <<p, call[p] + 1>> \in Messages
    BY <2>1, Pairs DEF PlaceInv, Placed
  <2>3. message(p)' = <<p, call[p] + 1>> /\ call'[p] = call[p] + 1
    BY <1>1 DEF Begin, message
  <2>4. target'[<<p, call[p] + 1>>] = <<x, q>>
    BY <1>1, <2>2 DEF Begin
  <2>5. answer' = answer /\ link' = link /\ wire' = wire /\ pc[p] = "idle" /\ pc'[p] = "connect"
    BY <1>1 DEF Begin, Goto
  <2> QED
    BY <2>1, <2>2, <2>3, <2>4, <2>5
<1>2. CASE Connect(p)
  BY <1>2, <1>21 DEF Connect, topology, Goto, message
<1>3. CASE ConnectFails(p)
  BY <1>3, <1>21 DEF ConnectFails, topology, Return, Goto, message
<1>4. CASE DeclareExchange(p)
  BY <1>4, <1>21 DEF DeclareExchange, topology, Goto, message
<1>5. CASE DeclareExchangeFails(p)
  BY <1>5, <1>21 DEF DeclareExchangeFails, topology, Goto, message
<1>6. CASE DeclareQueue(p)
  BY <1>6, <1>21 DEF DeclareQueue, topology, Return, Goto, message
<1>7. CASE DeclareQueueFails(p)
  BY <1>7, <1>21 DEF DeclareQueueFails, topology, Return, Goto, message
<1>8. CASE BindQueue(p)
  BY <1>8, <1>21 DEF BindQueue, topology, Return, Goto, message
<1>9. CASE BindQueueFails(p)
  BY <1>9, <1>21 DEF BindQueueFails, topology, Return, Goto, message
<1>10. CASE OpenChannel(p)
  BY <1>10, <1>21 DEF OpenChannel, topology, Goto, message
<1>11. CASE OpenChannelFails(p)
  BY <1>11, <1>21 DEF OpenChannelFails, topology, Return, Goto, message
<1>12. CASE Write(p)
  BY <1>12, <1>21 DEF Write, topology, Goto, message
<1>13. CASE WriteFails(p)
  BY <1>13, <1>21 DEF WriteFails, topology, Goto, message
<1>14. CASE Finish(p)
  BY <1>14, <1>21 DEF Finish, topology, Return, Goto, message
<1>15. CASE Route(p)
  BY <1>15, <1>21 DEF Route, topology, message
<1>16. CASE LinkLost(p)
  BY <1>16, <1>21 DEF LinkLost, topology, message
<1> QED
  BY <1>1, <1>2, <1>3, <1>4, <1>5, <1>6, <1>7, <1>8, <1>9, <1>10, <1>11, <1>12, <1>13, <1>14, <1>15, <1>16 DEF Step, publishMsg

LEMMA CallStep ==
  ASSUME TypeOK, CallInv, PlaceInv, NEW p \in Publishers, Step(p)
  PROVE  CallInv'
<1> SUFFICES ASSUME NEW r \in Publishers PROVE Called(r)'
  BY DEF CallInv
<1>20. CASE r # p
  <2>1. Called(r) /\ (Busy(r)' <=> Busy(r)) /\ call'[r] = call[r] /\ pc'[r] = pc[r] /\ link'[r] = link[r] /\ wire'[r] = wire[r]
    BY <1>20, OthersKept DEF CallInv, Others, Busy
  <2>2. ASSUME Busy(r) PROVE target'[message(r)'] = target[message(r)] /\ answer'[message(r)'] = answer[message(r)]
    <3>1. message(r) \in Messages /\ message(r) # message(p) /\ message(r)' = message(r)
      BY <1>20, <2>2, SameCall
    <3>2. answer'[message(r)] = answer[message(r)]
      BY <3>1, OthersKept DEF Others
    <3>3. message(r) # <<p, call[p] + 1>>
      BY <1>20 DEF message
    <3>4. target'[message(r)] = target[message(r)]
      BY <3>1, <3>3, SharedGrows DEF Shared
    <3> QED
      BY <3>1, <3>2, <3>4
  <2> QED
    BY <2>1, <2>2 DEF Called
<1>21. CASE r = p
  BY <1>21, CallStepOwn
<1> QED
  BY <1>20, <1>21

LEMMA PlaceStep ==
  ASSUME TypeOK, CallInv, PlaceInv, NEW p \in Publishers, Step(p)
  PROVE  PlaceInv'
<1> SUFFICES ASSUME NEW r \in Publishers, NEW n \in 1 .. MaxCalls PROVE Placed(r, n)'
  BY DEF PlaceInv
<1>1. Placed(r, n) /\ <<r, n>> \in Messages /\ call[p] \in Nat /\ call[r] \in Nat
  BY Pairs DEF PlaceInv, TypeOK
<1>2. CASE <<r, n>> # message(p)
  <2>1. answer'[<<r, n>>] = answer[<<r, n>>] /\ routed'[<<r, n>>] = routed[<<r, n>>] /\ (<<r, n>> \in broken' <=> <<r, n>> \in broken)
    BY <1>1, <1>2, OthersKept DEF Others
  <2>2. CASE r = p
    <3>1. n # call[p] /\ (call'[p] = call[p] \/ call'[p] = call[p] + 1)
      BY <1>2, <2>2, SharedGrows DEF message, Shared
    <3> QED
      BY <1>1, <2>1, <2>2, <3>1 DEF Placed
  <2>3. CASE r # p
    <3>1. call'[r] = call[r] /\ pc'[r] = pc[r]
      BY <2>3, OthersKept DEF Others
    <3> QED
      BY <1>1, <2>1, <3>1 DEF Placed
  <2> QED
    BY <2>2, <2>3
<1>3. CASE <<r, n>> = message(p)
  <2>1. r = p /\ n = call[p]
    BY <1>1, <1>3, Pairs DEF message
  <2>2. call'[p] = call[p] \/ (call'[p] = call[p] + 1 /\ ~Busy(p))
    BY SharedGrows DEF Shared
  <2>3. Busy(p) => answer[message(p)] = "none"
    BY DEF CallInv, Called
  <2>4. Own(p)
    BY OwnDone
  <2>5. routed'[message(p)] # {} => answer'[message(p)] = "true" \/ (pc'[p] = "close" /\ call'[p] = n)
    BY <1>1, <1>3, <2>1, <2>2, <2>3, <2>4 DEF Own, Placed, Busy
  <2> QED
    BY <1>1, <1>3, <2>1, <2>2, <2>5 DEF Placed
<1> QED
  BY <1>2, <1>3

LEMMA ExchangedOwn ==
  ASSUME TypeOK, CallInv, ExchangeInv, NEW p \in Publishers, Step(p)
  PROVE  Exchanged(p)'
<1>20. Exchanged(p) /\ Called(p)
  BY DEF ExchangeInv, CallInv
<1>21. (kind[exchange[p]] = "direct" => kind'[exchange[p]] = "direct") /\ (Busy(p) => exchangename(p) \in Exchanges)
  BY SharedGrows, MessageTyped DEF Shared, TypeOK
<1> USE <1>20, <1>21 DEF TypeOK, Exchanged, Called, Busy
<1>1. ASSUME NEW x \in Exchanges, NEW q \in Queues, Begin(p, x, q) PROVE Exchanged(p)'
  BY <1>1 DEF Begin, topology, Goto
<1>2. CASE Connect(p)
  BY <1>2 DEF Connect, topology, Goto
<1>3. CASE ConnectFails(p)
  BY <1>3 DEF ConnectFails, topology, Return, Goto
<1>4. CASE DeclareExchange(p)
  BY <1>4 DEF DeclareExchange, topology, Goto
<1>5. CASE DeclareExchangeFails(p)
  BY <1>5 DEF DeclareExchangeFails, topology, Goto
<1>6. CASE DeclareQueue(p)
  BY <1>6 DEF DeclareQueue, topology, Return, Goto
<1>7. CASE DeclareQueueFails(p)
  BY <1>7 DEF DeclareQueueFails, topology, Return, Goto
<1>8. CASE BindQueue(p)
  BY <1>8 DEF BindQueue, topology, Return, Goto
<1>9. CASE BindQueueFails(p)
  BY <1>9 DEF BindQueueFails, topology, Return, Goto
<1>10. CASE OpenChannel(p)
  BY <1>10 DEF OpenChannel, topology, Goto
<1>11. CASE OpenChannelFails(p)
  BY <1>11 DEF OpenChannelFails, topology, Return, Goto
<1>12. CASE Write(p)
  BY <1>12 DEF Write, topology, Goto
<1>13. CASE WriteFails(p)
  BY <1>13 DEF WriteFails, topology, Goto
<1>14. CASE Finish(p)
  BY <1>14 DEF Finish, topology, Return, Goto
<1>15. CASE Route(p)
  BY <1>15 DEF Route, topology
<1>16. CASE LinkLost(p)
  BY <1>16 DEF LinkLost, topology
<1> QED
  BY <1>1, <1>2, <1>3, <1>4, <1>5, <1>6, <1>7, <1>8, <1>9, <1>10, <1>11, <1>12, <1>13, <1>14, <1>15, <1>16 DEF Step, publishMsg

LEMMA BoundStep ==
  ASSUME TypeOK, CallInv, ExchangeInv, NEW p \in Publishers, Step(p)
  PROVE  Bound'
<1> USE DEF ExchangeInv, Bound
<1>1. ASSUME NEW x \in Exchanges, NEW q \in Queues, Begin(p, x, q) PROVE Bound'
  BY <1>1 DEF Begin, topology, Goto
<1>2. CASE Connect(p)
  BY <1>2 DEF Connect, topology, Goto
<1>3. CASE ConnectFails(p)
  BY <1>3 DEF ConnectFails, topology, Return, Goto
<1>4. CASE DeclareExchange(p)
  BY <1>4 DEF DeclareExchange, topology, Goto
<1>5. CASE DeclareExchangeFails(p)
  BY <1>5 DEF DeclareExchangeFails, topology, Goto
<1>6. CASE DeclareQueue(p)
  BY <1>6 DEF DeclareQueue, topology, Return, Goto
<1>7. CASE DeclareQueueFails(p)
  BY <1>7 DEF DeclareQueueFails, topology, Return, Goto
<1>8. CASE BindQueue(p)
  BY <1>8 DEF BindQueue, topology, Return, Goto, RoutingKey
<1>9. CASE BindQueueFails(p)
  BY <1>9 DEF BindQueueFails, topology, Return, Goto
<1>10. CASE OpenChannel(p)
  BY <1>10 DEF OpenChannel, topology, Goto
<1>11. CASE OpenChannelFails(p)
  BY <1>11 DEF OpenChannelFails, topology, Return, Goto
<1>12. CASE Write(p)
  BY <1>12 DEF Write, topology, Goto
<1>13. CASE WriteFails(p)
  BY <1>13 DEF WriteFails, topology, Goto
<1>14. CASE Finish(p)
  BY <1>14 DEF Finish, topology, Return, Goto
<1>15. CASE Route(p)
  BY <1>15 DEF Route, topology
<1>16. CASE LinkLost(p)
  BY <1>16 DEF LinkLost, topology
<1> QED
  BY <1>1, <1>2, <1>3, <1>4, <1>5, <1>6, <1>7, <1>8, <1>9, <1>10, <1>11, <1>12, <1>13, <1>14, <1>15, <1>16 DEF Step, publishMsg

LEMMA ExchangeStep ==
  ASSUME TypeOK, CallInv, ExchangeInv, NEW p \in Publishers, Step(p)
  PROVE  ExchangeInv'
<1>1. ASSUME NEW r \in Publishers, r # p PROVE Exchanged(r)'
  <2>1. Exchanged(r) /\ exchange'[r] = exchange[r] /\ wire'[r] = wire[r] /\ exchange[r] \in Exchanges
    BY <1>1, OthersKept DEF ExchangeInv, Others, TypeOK
  <2>2. kind[exchange[r]] = "direct" => kind'[exchange[r]] = "direct"
    BY <2>1, SharedGrows DEF Shared
  <2> QED
    BY <2>1, <2>2 DEF Exchanged
<1> QED
  BY <1>1, ExchangedOwn, BoundStep DEF ExchangeInv

-----------------------------------------------------------------------------
(* What becomes of a message.                                              *)

LEMMA MatchesOwn ==
  ASSUME TypeOK, NEW x \in Exchanges, NEW key
  PROVE  /\ Bound /\ kind[x] # "other" => \A q \in Matches(x, key) : q = key
         /\ kind[x] = "direct" /\ <<x, key, key>> \in bindings => key \in Matches(x, key)
<1>1. CASE kind[x] = "direct"
  <2>1. Matches(x, key) = {b[2] : b \in {c \in bindings : c[1] = x /\ c[3] = key}}
    BY <1>1, Zenon DEF Matches
  <2> QED
    BY <1>1, <2>1 DEF Bound
<1>2. CASE kind[x] = "absent"
  BY <1>2 DEF Matches
<1> QED
  BY <1>1, <1>2 DEF TypeOK

LEMMA WorkedOwn ==
  ASSUME TypeOK, CallInv, ExchangeInv, WorkInv, NEW p \in Publishers, Step(p)
  PROVE  Worked(p)'
<1>20. Worked(p) /\ Called(p) /\ Exchanged(p)
  BY DEF WorkInv, CallInv, ExchangeInv
<1>21. ASSUME Busy(p)
       PROVE  /\ message(p) \in Messages /\ exchangename(p) \in Exchanges /\ queueName(p) \in Queues
              /\ message(p)' = message(p)
              /\ exchangename(p)' = exchangename(p) /\ queueName(p)' = queueName(p)
  BY <1>21, SameCall, MessageTyped
<1>22. Shared(p)
  BY SharedGrows
<1> USE <1>20, <1>22 DEF TypeOK, Worked, Achieved, Called, Busy
<1>1. ASSUME NEW x \in Exchanges, NEW q \in Queues, Begin(p, x, q) PROVE Worked(p)'
  BY <1>1 DEF Begin, topology, Goto
<1>2. CASE Connect(p)
  BY <1>2, <1>21 DEF Connect, topology, Goto, Shared
<1>3. CASE ConnectFails(p)
  BY <1>3, <1>21 DEF ConnectFails, topology, Return, Goto, Shared
<1>4. CASE DeclareExchange(p)
  BY <1>4, <1>21 DEF DeclareExchange, topology, Goto, Shared
<1>5. CASE DeclareExchangeFails(p)
  BY <1>5, <1>21 DEF DeclareExchangeFails, topology, Goto, Shared
<1>6. CASE DeclareQueue(p)
  BY <1>6, <1>21 DEF DeclareQueue, topology, Return, Goto, Shared
<1>7. CASE DeclareQueueFails(p)
  BY <1>7, <1>21 DEF DeclareQueueFails, topology, Return, Goto, Shared
<1>8. CASE BindQueue(p)
  BY <1>8, <1>21 DEF BindQueue, topology, Return, Goto, Shared, RoutingKey
<1>9. CASE BindQueueFails(p)
  BY <1>9, <1>21 DEF BindQueueFails, topology, Return, Goto, Shared
<1>10. CASE OpenChannel(p)
  BY <1>10, <1>21 DEF OpenChannel, topology, Goto, Shared
<1>11. CASE OpenChannelFails(p)
  BY <1>11, <1>21 DEF OpenChannelFails, topology, Return, Goto, Shared
<1>12. CASE Write(p)
  BY <1>12, <1>21 DEF Write, topology, Goto, Shared
<1>13. CASE WriteFails(p)
  BY <1>13, <1>21 DEF WriteFails, topology, Goto, Shared
<1>14. CASE Finish(p)
  BY <1>14, <1>21 DEF Finish, topology, Return, Goto, Shared
<1>15. CASE Route(p)
  <2>1. Busy(p) /\ pc[p] = "close"
    BY <1>15 DEF Route
  <2>2. wire[p] = exchange[p] /\ wire[p] \in Exchanges
    BY <1>15 DEF Route, Exchanged
  <2>3. routed'[message(p)] = Matches(wire[p], queueName(p))
    BY <1>15, <1>21, <2>1 DEF Route, RoutingKey
  <2>4. ASSUME message(p) \notin broken \cup ignored PROVE queueName(p) \in routed'[message(p)]
    <3>1. kind[wire[p]] = "direct" /\ <<wire[p], queueName(p), queueName(p)>> \in bindings
      BY <2>1, <2>2, <2>4
    <3> QED
      BY <2>2, <2>3, <3>1, MatchesOwn
  <2>5. UNCHANGED <<topology, pc, link, broken, ignored, exchange>>
    BY <1>15 DEF Route
  <2> QED
    BY <1>21, <2>1, <2>4, <2>5 DEF topology
<1>16. CASE LinkLost(p)
  BY <1>16, <1>21 DEF LinkLost, topology, Shared
<1> QED
  BY <1>1, <1>2, <1>3, <1>4, <1>5, <1>6, <1>7, <1>8, <1>9, <1>10, <1>11, <1>12, <1>13, <1>14, <1>15, <1>16 DEF Step, publishMsg

LEMMA WorkStep ==
  ASSUME TypeOK, CallInv, ExchangeInv, WorkInv, NEW p \in Publishers, Step(p)
  PROVE  WorkInv'
<1>1. ASSUME NEW r \in Publishers, r # p PROVE Worked(r)'
  <2>1. Worked(r) /\ pc'[r] = pc[r] /\ link'[r] = link[r] /\ wire'[r] = wire[r] /\ exchange'[r] = exchange[r]
    BY <1>1, OthersKept DEF WorkInv, Others
  <2>2. CASE Busy(r)
    <3>1. /\ message(r) \in Messages /\ message(r) # message(p)
          /\ message(r)' = message(r)
          /\ exchangename(r)' = exchangename(r) /\ queueName(r)' = queueName(r)
          /\ exchangename(r) \in Exchanges
      BY <1>1, <2>2, SameCall, MessageTyped
    <3>2. /\ routed'[message(r)] = routed[message(r)]
          /\ (message(r) \in broken' <=> message(r) \in broken) /\ (message(r) \in ignored' <=> message(r) \in ignored)
      BY <3>1, OthersKept DEF Others
    <3> QED
      BY <2>1, <2>2, <3>1, <3>2, SharedGrows DEF Worked, Achieved, Shared, Busy
  <2>3. CASE ~Busy(r)
    BY <2>1, <2>3 DEF Worked, Busy
  <2> QED
    BY <2>2, <2>3
<1> QED
  BY <1>1, WorkedOwn DEF WorkInv

\* A message with an answer, or in a queue, keeps its target.
LEMMA TargetKept ==
  ASSUME TypeOK, CallInv, PlaceInv, NEW p \in Publishers, Step(p)
  PROVE  \A m \in Messages :
           (answer[m] # "none" \/ routed[m] # {} \/ m = message(p)) => target'[m] = target[m]
<1> SUFFICES ASSUME NEW m \in Messages, answer[m] # "none" \/ routed[m] # {} \/ m = message(p)
             PROVE  target'[m] = target[m]
  OBVIOUS
<1>1. m # <<p, call[p] + 1>>
  <2>1. ASSUME m = <<p, call[p] + 1>> PROVE FALSE
    <3>1. call[p] \in Nat /\ call[p] + 1 \in 1 .. MaxCalls
      BY <2>1 DEF Messages, TypeOK
    <3>2. answer[m] = "none" /\ routed[m] = {}
      BY <2>1, <3>1 DEF PlaceInv, Placed
    <3>3. m # message(p)
      BY <2>1, <3>1 DEF message
    <3> QED
      BY <3>2, <3>3
  <2> QED
    BY <2>1
<1> QED
  BY <1>1, SharedGrows DEF Shared

LEMMA TrueStep ==
  ASSUME TypeOK, CallInv, PlaceInv, WorkInv, TrueInv, NEW p \in Publishers, Step(p)
  PROVE  TrueInv'
<1> SUFFICES ASSUME NEW m \in Messages, answer'[m] = "true"
             PROVE  /\ target'[m] \in Exchanges \X Queues
                    /\ m \notin broken' \cup ignored' => target'[m][2] \in routed'[m]
  BY DEF TrueInv, Target
<1>1. Shared(p) /\ Others(p) /\ Own(p) /\ Causes(p)
  BY SharedGrows, OthersKept, OwnDone, OwnCauses
<1>2. CASE m # message(p) \/ ~Busy(p)
  <2>1. answer[m] = "true"
    BY <1>1, <1>2 DEF Others, Own
  <2>2. target'[m] = target[m]
    BY <2>1, TargetKept
  <2>3. routed'[m] = routed[m]
    BY <1>1, <1>2 DEF Others, Own, Busy
  <2>4. /\ target[m] \in Exchanges \X Queues
        /\ m \notin broken \cup ignored => target[m][2] \in routed[m]
    BY <2>1 DEF TrueInv, Target
  <2>5. m \notin broken' \cup ignored' => m \notin broken \cup ignored
    BY <1>1, <1>2 DEF Shared, Others, Own
  <2> QED
    BY <2>2, <2>3, <2>4, <2>5
<1>3. CASE m = message(p) /\ Busy(p)
  <2>1. Finish(p)
    BY <1>1, <1>3 DEF Causes
  <2>2. /\ pc[p] = "close" /\ wire[p] = None
        /\ UNCHANGED <<topology, routed, target, broken, ignored>>
    BY <2>1 DEF Finish, Return, Goto
  <2>3. target[m] \in Exchanges \X Queues /\ exchangename(p) = target[m][1] /\ queueName(p) = target[m][2]
    BY <1>3 DEF CallInv, Called, exchangename, queueName
  <2>4. exchangename(p) # None
    BY <2>3, NoneIsNoQueue
  <2>5. m \notin broken \cup ignored => target[m][2] \in routed[m]
    BY <1>3, <2>2, <2>3, <2>4 DEF WorkInv, Worked, Achieved
  <2> QED
    BY <2>2, <2>3, <2>5 DEF topology
<1> QED
  BY <1>2, <1>3

LEMMA TargetStep ==
  ASSUME TypeOK, CallInv, PlaceInv, ExchangeInv, OnlyTheTarget, NEW p \in Publishers, Step(p)
  PROVE  OnlyTheTarget'
<1> SUFFICES ASSUME kind'[DefaultExchange] # "other", NEW m \in Messages, NEW q \in routed'[m]
             PROVE  q = target'[m][2]
  BY DEF OnlyTheTarget, Target
<1>1. Shared(p) /\ Others(p) /\ Causes(p)
  BY SharedGrows, OthersKept, OwnCauses
<1>2. kind[DefaultExchange] # "other"
  BY <1>1, DefaultIsExchange DEF Shared
<1>3. CASE routed'[m] = routed[m]
  <2>1. target'[m] = target[m]
    BY <1>3, TargetKept
  <2> QED
    BY <1>2, <1>3, <2>1 DEF OnlyTheTarget, Target
<1>4. CASE routed'[m] # routed[m]
  <2>1. m = message(p) /\ Route(p)
    BY <1>1, <1>4 DEF Others, Causes
  <2>2. wire[p] = exchange[p] /\ wire[p] \in Exchanges /\ kind[wire[p]] # "other"
    BY <1>2, <2>1 DEF Route, ExchangeInv, Exchanged, TypeOK
  <2>3. routed'[m] = Matches(wire[p], target[m][2])
    BY <2>1 DEF Route, RoutingKey, queueName, TypeOK
  <2>4. Bound /\ q \in Matches(wire[p], target[m][2])
    BY <2>3 DEF ExchangeInv
  <2>5. target'[m] = target[m]
    BY <2>1 DEF Route
  <2> QED
    BY <2>2, <2>4, <2>5, MatchesOwn
<1> QED
  BY <1>3, <1>4

-----------------------------------------------------------------------------
(* The theorems.                                                           *)

LEMMA InitInv == Init => IInv
<1> SUFFICES ASSUME Init PROVE IInv
  OBVIOUS
<1> USE DefaultIsExchange, BoundsAreNat, NoneIsNoQueue, PriorIsOwn DEF Init
<1>1. TypeOK
  BY DEF TypeOK
<1>2. CallInv
  BY DEF CallInv, Called, Busy
<1>3. PlaceInv
  BY Pairs DEF PlaceInv, Placed
<1>4. ExchangeInv
  BY DEF ExchangeInv, Bound, Exchanged
<1>5. WorkInv
  BY DEF WorkInv, Worked, Busy
<1>6. TrueInv /\ OnlyTheTarget
  BY DEF TrueInv, OnlyTheTarget
<1> QED
  BY <1>1, <1>2, <1>3, <1>4, <1>5, <1>6 DEF IInv

LEMMA StepInv == IInv /\ [Next]_vars => IInv'
<1> SUFFICES ASSUME IInv, [Next]_vars PROVE IInv'
  OBVIOUS
<1> USE DEF IInv
<1>1. CASE UNCHANGED vars
  <2>1. UNCHANGED <<kind, declared, bindings, routed, pc, call, target, exchange, link, wire, answer, broken,
                   ignored>>
    BY <1>1 DEF vars, topology
  <2>2. TypeOK' /\ CallInv'
    BY <2>1 DEF TypeOK, CallInv, Called, Busy, message
  <2>3. PlaceInv'
    BY <2>1 DEF PlaceInv, Placed
  <2>4. ExchangeInv' /\ WorkInv'
    BY <2>1 DEF ExchangeInv, Bound, Exchanged, WorkInv, Worked, Achieved, Busy, message, exchangename, queueName
  <2>5. TrueInv' /\ OnlyTheTarget'
    BY <2>1 DEF TrueInv, OnlyTheTarget, Target
  <2> QED
    BY <2>2, <2>3, <2>4, <2>5
<1>2. CASE ~UNCHANGED vars
  <2>1. PICK p \in Publishers : Step(p)
    BY <1>2, NextStep
  <2>2. TypeOK' /\ CallInv' /\ PlaceInv'
    BY <2>1, TypeStep, CallStep, PlaceStep
  <2>3. ExchangeInv' /\ WorkInv'
    BY <2>1, ExchangeStep, WorkStep
  <2>4. TrueInv' /\ OnlyTheTarget'
    BY <2>1, TrueStep, TargetStep
  <2> QED
    BY <2>2, <2>3, <2>4
<1> QED
  BY <1>1, <1>2

THEOREM Invariance == Spec => []IInv
BY InitInv, StepInv, PTL DEF Spec

\* Every variable keeps its type: an adapter has an exchange at every step, also
\* when it cannot declare one.
THEOREM TypeCorrect == Spec => []TypeOK
<1>1. IInv => TypeOK
  BY DEF IInv
<1> QED
  BY Invariance, <1>1, PTL

\* A call that returned false queued nothing, whatever garbage queue_declare and
\* queue_bind returned: it may be made again.
THEOREM FalseIsSafe == Spec => []FalseMeansNotQueued
<1>1. IInv => FalseMeansNotQueued
  <2> SUFFICES ASSUME IInv, NEW m \in Messages, answer[m] = "false" PROVE routed[m] = {}
    BY DEF FalseMeansNotQueued
  <2>1. PICK p \in Publishers, n \in 1 .. MaxCalls : m = <<p, n>>
    BY DEF Messages
  <2>2. pc[p] = "close" /\ call[p] = n => answer[m] = "none"
    BY <2>1 DEF IInv, CallInv, Called, Busy, message
  <2> QED
    BY <2>1, <2>2 DEF IInv, PlaceInv, Placed
<1> QED
  BY Invariance, <1>1, PTL

\* A call that returned true queued its message, unless exchange_declare or
\* amqp_basic_publish failed and was ignored or its link was lost: whatever else
\* failed, whatever garbage was returned, for any number of publishers.
THEOREM TrueIsQueued == Spec => []TrueMeansQueuedOrIgnored
<1>1. IInv => TrueMeansQueuedOrIgnored
  BY DEF IInv, TrueInv, TrueMeansQueuedOrIgnored
<1> QED
  BY Invariance, <1>1, PTL

\* A message is put into no queue but its own unless the default exchange is of
\* another kind.
THEOREM OthersAreSpared == Spec => []OnlyTheTarget
<1>1. IInv => OnlyTheTarget
  BY DEF IInv
<1> QED
  BY Invariance, <1>1, PTL
=============================================================================
