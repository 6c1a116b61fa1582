------------------------ MODULE ConsumerWorker_proofs ------------------------
(***************************************************************************)
(* Proofs about ConsumerWorker for any number of workers, messages, losses *)
(* and any size of a pass.                                                 *)
(***************************************************************************)
EXTENDS ConsumerWorker, SequenceTheorems, FiniteSetTheorems, TLAPS

Phases == {"start", "open", "loop", "ack", "return", "close"}

\* 1 while a message was received and is not acknowledged.
Received(w) == IF pc[w] = "ack" THEN 1 ELSE 0

\* While the link is up the broker's unsettled messages are those whose
\* acknowledgement is under way and the one received last, all of them in the
\* batch, and then those the client has not read.
LinkInv(w) ==
  link[w] = "up" =>
    /\ Len(outstanding[w]) = acks[w] + Received(w) + Len(wire[w])
    /\ \A j \in 1 .. Len(wire[w]) : wire[w][j] = outstanding[w][acks[w] + Received(w) + j]
    /\ \A i \in 1 .. acks[w] + Received(w) : outstanding[w][i] \in Range(batch[w])

\* How the phase of a pass, its link and its consumer go together.
PhaseInv(w) ==
  /\ Len(outstanding[w]) <= GetNum /\ Len(batch[w]) <= GetNum
  /\ (pc[w] = "start") <=> (link[w] = "none")
  /\ link[w] # "up" => ~consuming[w]
  /\ ~consuming[w] => outstanding[w] = <<>> /\ acks[w] = 0
  /\ pc[w] \in {"start", "open"} => batch[w] = <<>> /\ wire[w] = <<>> /\ ~consuming[w]
  /\ pc[w] = "ack" => batch[w] # <<>>

\* What a return of consumer means: with something in the batch it is an error
\* only when the link was lost and the pass had not noticed.
ReturnInv(w) ==
  /\ (pc[w] = "return" /\ ret[w] >= 0) => ret[w] = Len(batch[w])
  /\ (pc[w] = "return" /\ ret[w] < 0 /\ batch[w] # <<>>) => link[w] = "down"
  /\ pc[w] = "close" => Range(batch[w]) \subseteq Range(delivered) \cup dropped

WorkerInv(w) == LinkInv(w) /\ PhaseInv(w) /\ ReturnInv(w)

IInv ==
  /\ TypeOK
  /\ \A w \in Workers : WorkerInv(w)
  /\ NothingVanishes

\* The worker's own state stays, and what it relies on grows.
Same(w) ==
  /\ outstanding'[w] = outstanding[w] /\ wire'[w] = wire[w] /\ acks'[w] = acks[w]
  /\ consuming'[w] = consuming[w] /\ link'[w] = link[w] /\ pc'[w] = pc[w]
  /\ batch'[w] = batch[w] /\ ret'[w] = ret[w]
Grows == Range(delivered) \subseteq Range(delivered') /\ dropped \subseteq dropped'
OthersSame(w) == \A u \in Workers \ {w} : Same(u)

-----------------------------------------------------------------------------
(* Sequences.                                                              *)

LEMMA RangeFacts ==
  ASSUME NEW S, NEW s \in Seq(S), NEW t \in Seq(S)
  PROVE  /\ Range(s) \subseteq S
         /\ \A i \in 1 .. Len(s) : s[i] \in Range(s)
         /\ \A x \in Range(s) : \E i \in 1 .. Len(s) : s[i] = x
         /\ \A e \in S : Range(Append(s, e)) = Range(s) \cup {e}
         /\ Range(s \o t) = Range(s) \cup Range(t)
<1>1. /\ Range(s) \subseteq S
      /\ \A i \in 1 .. Len(s) : s[i] \in Range(s)
      /\ \A x \in Range(s) : \E i \in 1 .. Len(s) : s[i] = x
  BY DEF Range
<1>2. ASSUME NEW e \in S PROVE Range(Append(s, e)) = Range(s) \cup {e}
  <2>1. /\ Append(s, e) \in Seq(S) /\ Len(Append(s, e)) = Len(s) + 1
        /\ \A i \in 1 .. Len(s) : Append(s, e)[i] = s[i]
        /\ Append(s, e)[Len(s) + 1] = e
    OBVIOUS
  <2>2. DOMAIN Append(s, e) = 1 .. Len(s) + 1 /\ DOMAIN s = 1 .. Len(s)
    OBVIOUS
  <2>3. ASSUME NEW x \in Range(Append(s, e)) PROVE x \in Range(s) \cup {e}
    <3>1. PICK i \in 1 .. Len(s) + 1 : x = Append(s, e)[i]
      BY <2>2 DEF Range
    <3>2. i = Len(s) + 1 \/ i \in 1 .. Len(s)
      OBVIOUS
    <3> QED
      BY <1>1, <2>1, <3>1, <3>2
  <2>4. ASSUME NEW x \in Range(s) \cup {e} PROVE x \in Range(Append(s, e))
    <3>1. \E i \in 1 .. Len(s) + 1 : Append(s, e)[i] = x
      BY <1>1, <2>1
    <3> QED
      BY <2>2, <3>1 DEF Range
  <2> QED
    BY <2>3, <2>4
<1>3. Range(s \o t) = Range(s) \cup Range(t)
  <2>1. /\ s \o t \in Seq(S) /\ Len(s \o t) = Len(s) + Len(t)
        /\ \A i \in 1 .. Len(s) + Len(t) :
             (s \o t)[i] = IF i <= Len(s) THEN s[i] ELSE t[i - Len(s)]
    BY ConcatProperties
  <2>2. DOMAIN (s \o t) = 1 .. Len(s) + Len(t) /\ DOMAIN s = 1 .. Len(s) /\ DOMAIN t = 1 .. Len(t)
    BY <2>1
  <2> DEFINE c == s \o t
  <2> HIDE DEF c
  <2>3. ASSUME NEW x \in Range(c) PROVE x \in Range(s) \cup Range(t)
    <3>1. PICK i \in 1 .. Len(s) + Len(t) : x = c[i]
      BY <2>2 DEF Range, c
    <3>2. CASE i <= Len(s)
      BY <1>1, <2>1, <3>1, <3>2 DEF c
    <3>3. CASE i > Len(s)
      <4>1. i - Len(s) \in 1 .. Len(t) /\ x = t[i - Len(s)]
        BY <2>1, <3>1, <3>3 DEF c
      <4> QED
        BY <2>2, <4>1 DEF Range
    <3> QED
      BY <3>2, <3>3
  <2>4. ASSUME NEW x \in Range(s) PROVE x \in Range(c)
    <3>1. PICK i \in 1 .. Len(s) : s[i] = x
      BY <1>1
    <3>2. i \in 1 .. Len(s) + Len(t) /\ c[i] = x
      BY <2>1, <3>1 DEF c
    <3> QED
      BY <2>2, <3>2 DEF Range, c
  <2>5. ASSUME NEW x \in Range(t) PROVE x \in Range(c)
    <3>1. PICK j \in 1 .. Len(t) : t[j] = x
      BY <2>2 DEF Range
    <3>2. Len(s) + j \in 1 .. Len(s) + Len(t) /\ c[Len(s) + j] = x
      BY <2>1, <3>1 DEF c
    <3> QED
      BY <2>2, <3>2 DEF Range, c
  <2> QED
    BY <2>3, <2>4, <2>5 DEF c
<1> QED
  BY <1>1, <1>2, <1>3

LEMMA EmptyRange == Range(<<>>) = {}
BY DEF Range

\* What is left of a sequence after its first n elements.
LEMMA RestFacts ==
  ASSUME NEW S, NEW s \in Seq(S), NEW n \in 0 .. Len(s)
  PROVE  /\ Range(SubSeq(s, n + 1, Len(s))) \subseteq S
         /\ \A i \in n + 1 .. Len(s) : s[i] \in Range(SubSeq(s, n + 1, Len(s)))
         /\ \A x \in Range(SubSeq(s, n + 1, Len(s))) : \E i \in n + 1 .. Len(s) : s[i] = x
<1> DEFINE r == SubSeq(s, n + 1, Len(s))
<1>1. \A i \in n + 1 .. Len(s) : s[i] \in S
  OBVIOUS
<1>2. n + 1 \in Int /\ Len(s) \in Int
  OBVIOUS
<1>3. /\ r \in Seq(S)
      /\ Len(r) = IF n + 1 <= Len(s) THEN Len(s) - (n + 1) + 1 ELSE 0
      /\ \A i \in 1 .. Len(s) - (n + 1) + 1 : r[i] = s[n + 1 + i - 1]
  BY <1>1, <1>2, SubSeqProperties
<1> HIDE DEF r
<1>4. DOMAIN r = 1 .. Len(s) - n
  BY <1>3
<1>5. ASSUME NEW i \in n + 1 .. Len(s) PROVE s[i] \in Range(r)
  <2>1. i - n \in 1 .. Len(s) - n /\ r[i - n] = s[i]
    BY <1>3
  <2> QED
    BY <1>4, <2>1 DEF Range
<1>6. ASSUME NEW x \in Range(r) PROVE \E i \in n + 1 .. Len(s) : s[i] = x
  <2>1. PICK j \in 1 .. Len(s) - n : r[j] = x
    BY <1>4 DEF Range
  <2>2. n + j \in n + 1 .. Len(s) /\ s[n + j] = x
    BY <1>3, <2>1
  <2> QED
    BY <2>2
<1>7. Range(r) \subseteq S
  BY <1>1, <1>6
<1> QED
  BY <1>5, <1>6, <1>7 DEF r

-----------------------------------------------------------------------------
(* One worker.                                                             *)

LEMMA AcksFew ==
  ASSUME TypeOK, NEW w \in Workers, WorkerInv(w)
  PROVE  acks[w] \in 0 .. Len(outstanding[w])
<1>1. acks[w] \in Nat /\ Len(outstanding[w]) \in Nat /\ Len(wire[w]) \in Nat
  BY GetNumIsPositive DEF TypeOK
<1>2. CASE link[w] = "up"
  BY <1>1, <1>2 DEF WorkerInv, LinkInv, Received
<1>3. CASE link[w] # "up"
  BY <1>1, <1>3 DEF WorkerInv, PhaseInv
<1> QED
  BY <1>2, <1>3

\* The end of a consumer: nothing of it is left, and what it had not settled is
\* in the queue.
LEMMA EndConsumerFacts ==
  ASSUME TypeOK, NEW w \in Workers, NEW n \in 0 .. Len(outstanding[w]), EndConsumer(w, n)
  PROVE  /\ ready' \subseteq Msgs /\ outstanding' \in [Workers -> Seq(Msgs)]
         /\ acks' \in [Workers -> 0 .. GetNum] /\ consuming' \in [Workers -> BOOLEAN]
         /\ outstanding'[w] = <<>> /\ acks'[w] = 0 /\ ~consuming'[w]
         /\ \A u \in Workers \ {w} : /\ outstanding'[u] = outstanding[u] /\ acks'[u] = acks[u]
                                     /\ consuming'[u] = consuming[u]
         /\ ready \subseteq ready'
         /\ \A i \in n + 1 .. Len(outstanding[w]) : outstanding[w][i] \in ready'
<1>1. outstanding[w] \in Seq(Msgs)
  BY DEF TypeOK
<1> DEFINE rest == Range(SubSeq(outstanding[w], n + 1, Len(outstanding[w])))
<1>2. /\ rest \subseteq Msgs
      /\ \A i \in n + 1 .. Len(outstanding[w]) : outstanding[w][i] \in rest
  BY <1>1, RestFacts
<1>3. ready' = ready \cup rest
  BY DEF EndConsumer
<1> HIDE DEF rest
<1>4. ready' \subseteq Msgs /\ ready \subseteq ready'
      /\ \A i \in n + 1 .. Len(outstanding[w]) : outstanding[w][i] \in ready'
  BY <1>2, <1>3 DEF TypeOK
<1>5. /\ outstanding' \in [Workers -> Seq(Msgs)] /\ outstanding'[w] = <<>>
      /\ acks' \in [Workers -> 0 .. GetNum] /\ acks'[w] = 0
      /\ consuming' \in [Workers -> BOOLEAN] /\ ~consuming'[w]
      /\ \A u \in Workers \ {w} : /\ outstanding'[u] = outstanding[u] /\ acks'[u] = acks[u]
                                  /\ consuming'[u] = consuming[u]
  <2>1. <<>> \in Seq(Msgs) /\ 0 \in 0 .. GetNum
    BY GetNumIsPositive
  <2> QED
    BY <2>1 DEF EndConsumer, TypeOK
<1> QED
  BY <1>4, <1>5

LEMMA CloseChannelFacts ==
  ASSUME TypeOK, NEW w \in Workers, WorkerInv(w), CloseChannel(w)
  PROVE  /\ ready' \subseteq Msgs /\ outstanding' \in [Workers -> Seq(Msgs)]
         /\ acks' \in [Workers -> 0 .. GetNum] /\ consuming' \in [Workers -> BOOLEAN]
         /\ wire' \in [Workers -> Seq(Msgs)]
         /\ outstanding'[w] = <<>> /\ acks'[w] = 0 /\ ~consuming'[w] /\ wire'[w] = <<>>
         /\ \A u \in Workers \ {w} : /\ outstanding'[u] = outstanding[u] /\ acks'[u] = acks[u]
                                     /\ consuming'[u] = consuming[u] /\ wire'[u] = wire[u]
         /\ ready \subseteq ready'
         /\ \A i \in acks[w] + 1 .. Len(outstanding[w]) : outstanding[w][i] \in ready'
<1>1. acks[w] \in 0 .. Len(outstanding[w])
  BY AcksFew
<1>2. EndConsumer(w, acks[w])
  BY DEF CloseChannel
<1>3. /\ wire' \in [Workers -> Seq(Msgs)] /\ wire'[w] = <<>>
      /\ \A u \in Workers \ {w} : wire'[u] = wire[u]
  <2>1. <<>> \in Seq(Msgs)
    OBVIOUS
  <2> QED
    BY <2>1 DEF CloseChannel, TypeOK
<1> QED
  BY <1>1, <1>2, <1>3, EndConsumerFacts

LEMMA FrameInv ==
  ASSUME TypeOK, TypeOK', NEW u \in Workers, WorkerInv(u), Same(u), Grows
  PROVE  WorkerInv(u)'
<1>1. LinkInv(u)'
  BY DEF WorkerInv, LinkInv, Received, Same
<1>2. PhaseInv(u)'
  BY DEF WorkerInv, PhaseInv, Same
<1>3. ReturnInv(u)'
  BY DEF WorkerInv, ReturnInv, Same, Grows
<1> QED
  BY <1>1, <1>2, <1>3 DEF WorkerInv

LEMMA InitInv == Init => IInv
<1> SUFFICES ASSUME Init PROVE IInv
  OBVIOUS
<1>1. TypeOK
  <2>1. <<>> \in Seq(Msgs) /\ 0 \in 0 .. GetNum /\ 0 \in -3 .. GetNum /\ 0 \in 0 .. NumMsgs
        /\ 0 \in 0 .. MaxLosses /\ 0 \in 0 .. MaxDiscards
    BY GetNumIsPositive, BoundsAreNat
  <2> QED
    BY <2>1 DEF Init, TypeOK
<1>2. ASSUME NEW w \in Workers PROVE WorkerInv(w)
  <2>1. LinkInv(w)
    BY DEF Init, LinkInv
  <2>2. PhaseInv(w)
    BY GetNumIsPositive DEF Init, PhaseInv
  <2>3. ReturnInv(w)
    BY DEF Init, ReturnInv
  <2> QED
    BY <2>1, <2>2, <2>3 DEF WorkerInv
<1>3. NothingVanishes
  BY DEF Init, NothingVanishes
<1> QED
  BY <1>1, <1>2, <1>3 DEF IInv

-----------------------------------------------------------------------------
(* The steps, one after the other: types, the worker that moves, the others. *)

Kept(w) == TypeOK' /\ WorkerInv(w)' /\ OthersSame(w) /\ Grows

\* The places a message can be in, seen from one worker.
Places(w) == ready \cup Range(outstanding[w]) \cup Range(batch[w]) \cup Range(delivered) \cup dropped
LosesNothing(w) == published' = published /\ Places(w) \subseteq Places(w)'

LEMMA BrokerDeliverKeeps ==
  ASSUME TypeOK, NEW w \in Workers, WorkerInv(w), BrokerDeliver(w)
  PROVE  Kept(w) /\ LosesNothing(w)
<1>1. PICK first \in ready :
        /\ ready' = ready \ {first}
        /\ outstanding' = [outstanding EXCEPT ![w] = Append(@, first)]
        /\ wire' = [wire EXCEPT ![w] = Append(@, first)]
  BY DEF BrokerDeliver
<1>2. UNCHANGED <<published, acks, consuming, link, losses, clientVars, delivered, dropped, discards>>
      /\ link[w] = "up" /\ consuming[w] /\ Len(outstanding[w]) < GetNum
  BY DEF BrokerDeliver
<1>3. first \in Msgs /\ outstanding[w] \in Seq(Msgs) /\ wire[w] \in Seq(Msgs)
  BY DEF TypeOK
<1>4. TypeOK'
  BY <1>1, <1>2, <1>3, SMTT(30) DEF TypeOK, clientVars
<1>5. OthersSame(w) /\ Grows
  BY <1>1, <1>2 DEF TypeOK, clientVars, OthersSame, Same, Grows
<1>6. /\ outstanding'[w] = Append(outstanding[w], first) /\ wire'[w] = Append(wire[w], first)
      /\ acks'[w] = acks[w] /\ pc'[w] = pc[w] /\ batch'[w] = batch[w] /\ link'[w] = link[w]
      /\ consuming'[w] = consuming[w] /\ ret'[w] = ret[w] /\ Received(w)' = Received(w)
  BY <1>1, <1>2 DEF TypeOK, clientVars, Received
<1>7. LinkInv(w)'
  <2> DEFINE k == acks[w] + Received(w)
             o == outstanding[w]
             r == wire[w]
  <2>1. k \in Nat /\ Len(o) = k + Len(r)
    BY <1>2, GetNumIsPositive, SMTT(30) DEF TypeOK, WorkerInv, LinkInv, Received
  <2>2. /\ \A j \in 1 .. Len(r) : r[j] = o[k + j]
        /\ \A i \in 1 .. k : o[i] \in Range(batch[w])
    BY <1>2 DEF WorkerInv, LinkInv
  <2> HIDE DEF k
  <2>3. /\ Len(Append(o, first)) = Len(o) + 1 /\ Append(o, first)[Len(o) + 1] = first
        /\ \A i \in 1 .. Len(o) : Append(o, first)[i] = o[i]
        /\ Len(Append(r, first)) = Len(r) + 1 /\ Append(r, first)[Len(r) + 1] = first
        /\ \A i \in 1 .. Len(r) : Append(r, first)[i] = r[i]
        /\ Len(o) \in Nat /\ Len(r) \in Nat
    BY <1>3
  <2> DEFINE oo == Append(o, first)
             rr == Append(r, first)
  <2> HIDE DEF oo, rr, o, r
  <2>4. Len(oo) = k + Len(rr)
    BY <2>1, <2>3 DEF oo, rr
  <2>5. \A j \in 1 .. Len(rr) : rr[j] = oo[k + j]
    <3> SUFFICES ASSUME NEW j \in 1 .. Len(rr) PROVE rr[j] = oo[k + j]
      OBVIOUS
    <3>1. CASE j = Len(r) + 1
      BY <2>1, <2>3, <3>1 DEF oo, rr
    <3>2. CASE j \in 1 .. Len(r)
      <4>1. k + j \in 1 .. Len(o)
        BY <2>1, <2>3, <3>2
      <4> QED
        BY <2>2, <2>3, <3>2, <4>1 DEF oo, rr
    <3> QED
      BY <2>3, <3>1, <3>2 DEF rr
  <2>6. \A i \in 1 .. k : oo[i] \in Range(batch[w])
    BY <2>1, <2>2, <2>3 DEF oo
  <2> QED
    BY <1>6, <2>4, <2>5, <2>6 DEF LinkInv, k, oo, rr, o, r
<1>8. PhaseInv(w)'
  <2>1. Len(outstanding[w]) \in Nat /\ Len(outstanding'[w]) = Len(outstanding[w]) + 1
    BY <1>3, <1>6
  <2> QED
    BY <1>2, <1>6, <2>1, GetNumIsPositive DEF WorkerInv, PhaseInv
<1>9. ReturnInv(w)'
  BY <1>2, <1>6 DEF WorkerInv, ReturnInv
<1>10. LosesNothing(w)
  <2>1. Range(outstanding'[w]) = Range(outstanding[w]) \cup {first}
    BY <1>3, <1>6, RangeFacts
  <2>2. ready \subseteq ready' \cup {first} /\ batch' = batch /\ delivered' = delivered /\ dropped' = dropped
    BY <1>1, <1>2 DEF clientVars
  <2> QED
    BY <1>2, <2>1, <2>2 DEF LosesNothing, Places
<1> QED
  BY <1>4, <1>5, <1>7, <1>8, <1>9, <1>10 DEF Kept, WorkerInv

LEMMA BrokerAckKeeps ==
  ASSUME TypeOK, NEW w \in Workers, WorkerInv(w), BrokerAck(w)
  PROVE  Kept(w) /\ LosesNothing(w)
<1>1. /\ link[w] = "up" /\ acks[w] > 0
      /\ acks' = [acks EXCEPT ![w] = @ - 1]
      /\ outstanding' = [outstanding EXCEPT ![w] = Tail(@)]
      /\ UNCHANGED <<published, ready, wire, consuming, link, losses, pc, batch, ret, delivered, dropped, discards>>
  BY DEF BrokerAck, clientVars
<1> DEFINE k == acks[w] + Received(w)
           o == outstanding[w]
           r == wire[w]
           oo == Tail(outstanding[w])
<1>2. /\ k \in Nat /\ k > 0 /\ acks[w] \in Nat /\ acks[w] <= GetNum
      /\ Len(o) = k + Len(r) /\ Len(r) \in Nat /\ o \in Seq(Msgs)
      /\ \A j \in 1 .. Len(r) : r[j] = o[k + j]
      /\ \A i \in 1 .. k : o[i] \in Range(batch[w])
  BY <1>1, GetNumIsPositive, SMTT(30) DEF TypeOK, WorkerInv, LinkInv, Received
<1>3. /\ oo \in Seq(Msgs) /\ Len(oo) = Len(o) - 1
      /\ \A i \in 1 .. Len(o) - 1 : oo[i] = o[i + 1]
  <2>1. o # <<>>
    BY <1>2
  <2> QED
    BY <1>2, <2>1
<1>4. /\ outstanding'[w] = oo /\ acks'[w] = acks[w] - 1 /\ acks'[w] \in 0 .. GetNum
      /\ wire'[w] = r /\ pc'[w] = pc[w] /\ batch'[w] = batch[w] /\ link'[w] = link[w]
      /\ consuming'[w] = consuming[w] /\ ret'[w] = ret[w] /\ Received(w)' = Received(w)
  <2>1. outstanding'[w] = oo /\ acks'[w] = acks[w] - 1
    BY <1>1 DEF TypeOK
  <2>2. acks[w] - 1 \in 0 .. GetNum
    BY <1>1, <1>2, GetNumIsPositive
  <2> QED
    BY <1>1, <2>1, <2>2 DEF Received
<1>5. TypeOK'
  BY <1>1, <1>3, <1>4 DEF TypeOK
<1>6. OthersSame(w) /\ Grows
  BY <1>1 DEF TypeOK, OthersSame, Same, Grows
<1> HIDE DEF oo
<1>7. LinkInv(w)'
  <2>1. Received(w) \in {0, 1}
    BY DEF Received
  <2> DEFINE kk == acks'[w] + Received(w)
  <2>2. kk = k - 1
    BY <1>2, <1>4, <2>1
  <2> HIDE DEF k, kk, o, r
  <2>3. Len(oo) = kk + Len(r)
    BY <1>2, <1>3, <2>2
  <2>4. ASSUME NEW j \in 1 .. Len(r) PROVE r[j] = oo[kk + j]
    <3>1. kk + j \in 1 .. Len(o) - 1 /\ kk + j + 1 = k + j
      BY <1>2, <2>2
    <3> QED
      BY <1>2, <1>3, <3>1
  <2>5. ASSUME NEW i \in 1 .. kk PROVE oo[i] \in Range(batch[w])
    <3>1. i \in 1 .. Len(o) - 1 /\ i + 1 \in 1 .. k
      BY <1>2, <2>2
    <3> QED
      BY <1>2, <1>3, <3>1
  <2> QED
    BY <1>4, <2>3, <2>4, <2>5 DEF LinkInv, kk, r
<1>8. PhaseInv(w)'
  <2>1. consuming[w]
    BY <1>2, <1>1 DEF WorkerInv, PhaseInv
  <2> QED
    BY <1>2, <1>3, <1>4, <2>1, GetNumIsPositive DEF WorkerInv, PhaseInv
<1>9. ReturnInv(w)'
  BY <1>1, <1>4 DEF WorkerInv, ReturnInv
<1>10. LosesNothing(w)
  <2>1. ASSUME NEW x \in Range(o) PROVE x \in Range(oo) \cup Range(batch[w])
    <3>1. PICK i \in 1 .. Len(o) : o[i] = x
      BY <1>2, RangeFacts
    <3>2. CASE i = 1
      BY <1>2, <3>1, <3>2
    <3>3. CASE i # 1
      <4>1. i - 1 \in 1 .. Len(oo) /\ oo[i - 1] = x
        BY <1>2, <1>3, <3>1, <3>3
      <4> QED
        BY <1>3, <4>1 DEF Range
    <3> QED
      BY <3>2, <3>3
  <2> QED
    BY <1>1, <1>4, <2>1 DEF LosesNothing, Places
<1> QED
  BY <1>5, <1>6, <1>7, <1>8, <1>9, <1>10 DEF Kept, WorkerInv

LEMMA LinkLostKeeps ==
  ASSUME TypeOK, NEW w \in Workers, WorkerInv(w), LinkLost(w)
  PROVE  Kept(w) /\ LosesNothing(w)
<1>1. /\ link[w] = "up" /\ losses < MaxLosses /\ losses' = losses + 1
      /\ link' = [link EXCEPT ![w] = "down"] /\ EndConsumer(w, 0)
      /\ UNCHANGED <<published, wire, pc, batch, ret, delivered, dropped, discards>>
  BY DEF LinkLost, clientVars
<1>2. outstanding[w] \in Seq(Msgs) /\ 0 \in 0 .. Len(outstanding[w])
  BY DEF TypeOK
<1>3. /\ ready' \subseteq Msgs /\ outstanding' \in [Workers -> Seq(Msgs)]
      /\ acks' \in [Workers -> 0 .. GetNum] /\ consuming' \in [Workers -> BOOLEAN]
      /\ outstanding'[w] = <<>> /\ acks'[w] = 0 /\ ~consuming'[w]
      /\ \A u \in Workers \ {w} : /\ outstanding'[u] = outstanding[u] /\ acks'[u] = acks[u]
                                  /\ consuming'[u] = consuming[u]
      /\ ready \subseteq ready'
      /\ \A i \in 0 + 1 .. Len(outstanding[w]) : outstanding[w][i] \in ready'
  BY <1>1, <1>2, EndConsumerFacts
<1>4. /\ link' \in [Workers -> {"none", "up", "down"}] /\ link'[w] = "down"
      /\ \A u \in Workers \ {w} : link'[u] = link[u]
      /\ losses \in Nat /\ losses' \in 0 .. MaxLosses
  BY <1>1, BoundsAreNat DEF TypeOK
<1>5. TypeOK'
  BY <1>1, <1>3, <1>4 DEF TypeOK
<1>6. OthersSame(w) /\ Grows
  BY <1>1, <1>3, <1>4 DEF OthersSame, Same, Grows
<1>7. LinkInv(w)'
  BY <1>4 DEF LinkInv
<1>8. PhaseInv(w)'
  <2>1. Len(<<>>) = 0
    OBVIOUS
  <2> QED
    BY <1>1, <1>3, <1>4, <2>1, GetNumIsPositive DEF WorkerInv, PhaseInv
<1>9. ReturnInv(w)'
  BY <1>1, <1>4 DEF WorkerInv, ReturnInv
<1>10. LosesNothing(w)
  <2>1. \A x \in Range(outstanding[w]) : \E i \in 1 .. Len(outstanding[w]) : outstanding[w][i] = x
    BY <1>2, RangeFacts
  <2>2. 0 + 1 .. Len(outstanding[w]) = 1 .. Len(outstanding[w])
    OBVIOUS
  <2>3. Range(outstanding[w]) \subseteq ready'
    BY <1>3, <2>1, <2>2, ZenonT(30)
  <2> QED
    BY <1>1, <1>3, <2>3 DEF LosesNothing, Places
<1> QED
  BY <1>5, <1>6, <1>7, <1>8, <1>9, <1>10 DEF Kept, WorkerInv

LEMMA ConnectKeeps ==
  ASSUME TypeOK, NEW w \in Workers, WorkerInv(w), Connect(w)
  PROVE  Kept(w) /\ LosesNothing(w)
<1>1. /\ pc[w] = "start" /\ pc' = [pc EXCEPT ![w] = "open"]
      /\ link' = [link EXCEPT ![w] = "up"]
      /\ UNCHANGED <<published, ready, outstanding, wire, acks, consuming, losses, batch, ret, delivered, dropped, discards>>
  BY DEF Connect, Goto
<1>2. TypeOK' /\ OthersSame(w) /\ Grows /\ pc'[w] = "open" /\ link'[w] = "up"
  BY <1>1 DEF TypeOK, OthersSame, Same, Grows
<1>3. /\ outstanding[w] = <<>> /\ acks[w] = 0 /\ ~consuming[w]
      /\ batch[w] = <<>> /\ wire[w] = <<>>
  BY <1>1 DEF WorkerInv, PhaseInv
<1>4. LinkInv(w)'
  <2>1. Len(<<>>) = 0 /\ 1 .. 0 = {}
    OBVIOUS
  <2>2. outstanding'[w] = <<>> /\ wire'[w] = <<>> /\ acks'[w] = 0 /\ Received(w)' = 0
    BY <1>1, <1>2, <1>3 DEF Received
  <2> QED
    BY <2>1, <2>2 DEF LinkInv
<1>5. PhaseInv(w)' /\ ReturnInv(w)'
  BY <1>1, <1>2, <1>3 DEF WorkerInv, PhaseInv, ReturnInv
<1> QED
  BY <1>1, <1>2, <1>4, <1>5 DEF Kept, WorkerInv, LosesNothing, Places

LEMMA ConsumeKeeps ==
  ASSUME TypeOK, NEW w \in Workers, WorkerInv(w), Consume(w)
  PROVE  Kept(w) /\ LosesNothing(w)
<1>1. /\ pc[w] = "open" /\ pc' = [pc EXCEPT ![w] = "loop"] /\ link[w] = "up"
      /\ consuming' = [consuming EXCEPT ![w] = TRUE]
      /\ UNCHANGED <<published, ready, outstanding, wire, acks, link, losses, batch, ret, delivered, dropped, discards>>
  BY DEF Consume, Goto
<1>2. /\ TypeOK' /\ OthersSame(w) /\ Grows /\ pc'[w] = "loop" /\ consuming'[w]
      /\ Received(w)' = Received(w)
  BY <1>1 DEF TypeOK, OthersSame, Same, Grows, Received
<1>3. LinkInv(w)' /\ PhaseInv(w)' /\ ReturnInv(w)'
  BY <1>1, <1>2 DEF WorkerInv, LinkInv, PhaseInv, ReturnInv
<1> QED
  BY <1>1, <1>2, <1>3 DEF Kept, WorkerInv, LosesNothing, Places

LEMMA SetupFailsKeeps ==
  ASSUME TypeOK, NEW w \in Workers, WorkerInv(w), SetupFails(w)
  PROVE  Kept(w) /\ LosesNothing(w)
<1>1. /\ pc[w] = "open" /\ pc' = [pc EXCEPT ![w] = "return"] /\ ret' = [ret EXCEPT ![w] = -1]
      /\ UNCHANGED <<published, ready, outstanding, wire, acks, consuming, link, losses, batch, delivered, dropped, discards>>
  BY DEF SetupFails, Goto, brokerVars
<1>2. /\ TypeOK' /\ OthersSame(w) /\ Grows /\ pc'[w] = "return" /\ ret'[w] = -1
      /\ Received(w)' = Received(w)
  <2>1. -1 \in -3 .. GetNum
    BY GetNumIsPositive
  <2> QED
    BY <1>1, <2>1 DEF TypeOK, OthersSame, Same, Grows, Received
<1>3. LinkInv(w)' /\ PhaseInv(w)' /\ ReturnInv(w)'
  BY <1>1, <1>2 DEF WorkerInv, LinkInv, PhaseInv, ReturnInv
<1> QED
  BY <1>1, <1>2, <1>3 DEF Kept, WorkerInv, LosesNothing, Places

LEMMA BatchFullKeeps ==
  ASSUME TypeOK, NEW w \in Workers, WorkerInv(w), BatchFull(w)
  PROVE  Kept(w) /\ LosesNothing(w)
<1>1. /\ pc[w] = "loop" /\ pc' = [pc EXCEPT ![w] = "return"] /\ ret' = [ret EXCEPT ![w] = GetNum]
      /\ Len(batch[w]) = GetNum
      /\ UNCHANGED <<published, ready, outstanding, wire, acks, consuming, link, losses, batch, delivered, dropped, discards>>
  BY DEF BatchFull, Goto, brokerVars
<1>2. /\ TypeOK' /\ OthersSame(w) /\ Grows /\ pc'[w] = "return" /\ ret'[w] = GetNum
      /\ Received(w)' = Received(w)
  <2>1. GetNum \in -3 .. GetNum
    BY GetNumIsPositive
  <2> QED
    BY <1>1, <2>1 DEF TypeOK, OthersSame, Same, Grows, Received
<1>3. batch[w] # <<>>
  BY <1>1, GetNumIsPositive
<1>4. LinkInv(w)' /\ PhaseInv(w)'
  BY <1>1, <1>2 DEF WorkerInv, LinkInv, PhaseInv
<1>5. ReturnInv(w)'
  BY <1>1, <1>2, <1>3, GetNumIsPositive DEF WorkerInv, ReturnInv
<1> QED
  BY <1>1, <1>2, <1>4, <1>5 DEF Kept, WorkerInv, LosesNothing, Places

LEMMA CallbackKeeps ==
  ASSUME TypeOK, NEW w \in Workers, WorkerInv(w), Callback(w)
  PROVE  Kept(w) /\ LosesNothing(w)
<1>1. /\ pc[w] = "return" /\ pc' = [pc EXCEPT ![w] = "close"] /\ delivered' = delivered \o batch[w]
      /\ UNCHANGED <<published, ready, outstanding, wire, acks, consuming, link, losses, batch, ret, dropped, discards>>
  BY DEF Callback, Goto, brokerVars
<1>2. delivered \in Seq(Msgs) /\ batch[w] \in Seq(Msgs)
  BY DEF TypeOK
<1>3. delivered' \in Seq(Msgs) /\ Range(delivered') = Range(delivered) \cup Range(batch[w])
  <2> DEFINE c == delivered \o batch[w]
  <2>1. c \in Seq(Msgs)
    BY <1>2, ConcatProperties
  <2>2. Range(c) = Range(delivered) \cup Range(batch[w])
    BY <1>2, RangeFacts
  <2> QED
    BY <1>1, <2>1, <2>2
<1>4. /\ TypeOK' /\ pc'[w] = "close" /\ Received(w)' = Received(w)
  BY <1>1, <1>3 DEF TypeOK, Received
<1>5. OthersSame(w) /\ Grows
  <2>1. \A u \in Workers \ {w} : pc'[u] = pc[u]
    BY <1>1 DEF TypeOK
  <2> QED
    BY <1>1, <1>3, <2>1 DEF OthersSame, Same, Grows
<1>6. LinkInv(w)' /\ PhaseInv(w)' /\ ReturnInv(w)'
  <2>1. LinkInv(w)' /\ PhaseInv(w)'
    BY <1>1, <1>4 DEF WorkerInv, LinkInv, PhaseInv
  <2>2. ReturnInv(w)'
    BY <1>1, <1>3, <1>4 DEF WorkerInv, ReturnInv
  <2> QED
    BY <2>1, <2>2
<1>7. LosesNothing(w)
  BY <1>1, <1>3 DEF LosesNothing, Places
<1> QED
  BY <1>4, <1>5, <1>6, <1>7 DEF Kept, WorkerInv

LEMMA DiscardKeeps ==
  ASSUME TypeOK, NEW w \in Workers, WorkerInv(w), Discard(w)
  PROVE  Kept(w) /\ LosesNothing(w)
<1>1. /\ pc[w] = "return" /\ pc' = [pc EXCEPT ![w] = "close"] /\ dropped' = dropped \cup Range(batch[w])
      /\ discards < MaxDiscards /\ discards' = discards + 1
      /\ UNCHANGED <<published, ready, outstanding, wire, acks, consuming, link, losses, batch, ret, delivered>>
  BY DEF Discard, Goto, brokerVars
<1>2. batch[w] \in Seq(Msgs) /\ dropped \subseteq Msgs
  BY DEF TypeOK
<1>3. dropped' \subseteq Msgs /\ discards' \in 0 .. MaxDiscards
  <2>1. Range(batch[w]) \subseteq Msgs
    BY <1>2, RangeFacts
  <2> QED
    BY <1>1, <1>2, <2>1, BoundsAreNat DEF TypeOK
<1>4. /\ TypeOK' /\ pc'[w] = "close" /\ Received(w)' = Received(w)
  BY <1>1, <1>3 DEF TypeOK, Received
<1>5. OthersSame(w) /\ Grows
  <2>1. \A u \in Workers \ {w} : pc'[u] = pc[u]
    BY <1>1 DEF TypeOK
  <2> QED
    BY <1>1, <2>1 DEF OthersSame, Same, Grows
<1>6. LinkInv(w)' /\ PhaseInv(w)'
  BY <1>1, <1>4 DEF WorkerInv, LinkInv, PhaseInv
<1>7. ReturnInv(w)'
  BY <1>1, <1>4 DEF WorkerInv, ReturnInv
<1>8. LosesNothing(w)
  BY <1>1 DEF LosesNothing, Places
<1> QED
  BY <1>4, <1>5, <1>6, <1>7, <1>8 DEF Kept, WorkerInv

LEMMA ReceiveKeeps ==
  ASSUME TypeOK, NEW w \in Workers, WorkerInv(w), Receive(w)
  PROVE  Kept(w) /\ LosesNothing(w)
<1>1. /\ Len(batch[w]) < GetNum /\ wire[w] # <<>> /\ pc[w] = "loop"
      /\ pc' = [pc EXCEPT ![w] = "ack"]
      /\ batch' = [batch EXCEPT ![w] = Append(@, Head(wire[w]))]
      /\ wire' = [wire EXCEPT ![w] = Tail(@)]
      /\ UNCHANGED <<published, ready, outstanding, acks, consuming, link, losses, ret, delivered, dropped, discards>>
  BY DEF Receive, Goto
<1> DEFINE k == acks[w]
           o == outstanding[w]
           r == wire[w]
           rr == Tail(wire[w])
           b == batch[w]
           bb == Append(batch[w], Head(wire[w]))
<1>2. /\ k \in Nat /\ Len(r) \in Nat /\ o \in Seq(Msgs) /\ r \in Seq(Msgs) /\ b \in Seq(Msgs)
      /\ Received(w) = 0 /\ Head(r) \in Msgs /\ Head(r) = r[1] /\ Len(r) > 0
  BY <1>1, GetNumIsPositive DEF TypeOK, Received
<1>3. /\ rr \in Seq(Msgs) /\ Len(rr) = Len(r) - 1
      /\ \A i \in 1 .. Len(r) - 1 : rr[i] = r[i + 1]
  BY <1>1, <1>2
<1>4. bb \in Seq(Msgs) /\ Len(bb) = Len(b) + 1 /\ bb # <<>> /\ Range(bb) = Range(b) \cup {r[1]}
  <2>1. Range(bb) = Range(b) \cup {Head(r)}
    BY <1>2, RangeFacts
  <2>2. bb \in Seq(Msgs) /\ Len(bb) = Len(b) + 1
    BY <1>2
  <2>3. bb # <<>>
    <3>1. Len(b) + 1 # 0
      BY <1>2
    <3> QED
      BY <2>2, <3>1
  <2> QED
    BY <1>2, <2>1, <2>2, <2>3
<1>5. /\ wire'[w] = rr /\ batch'[w] = bb /\ pc'[w] = "ack" /\ Received(w)' = 1
      /\ TypeOK'
  BY <1>1, <1>3, <1>4 DEF TypeOK, Received
<1>6. OthersSame(w) /\ Grows
  BY <1>1 DEF TypeOK, OthersSame, Same, Grows
<1> HIDE DEF rr, bb
<1>7. LinkInv(w)'
  <2>1. SUFFICES ASSUME link[w] = "up" PROVE LinkInv(w)'
    BY <1>1 DEF LinkInv
  <2>2. /\ Len(o) = k + Len(r)
        /\ \A j \in 1 .. Len(r) : r[j] = o[k + j]
        /\ \A i \in 1 .. k : o[i] \in Range(b)
    BY <1>2, <2>1 DEF WorkerInv, LinkInv
  <2> HIDE DEF k, o, r, b
  <2>3. Len(o) = k + 1 + Len(rr)
    BY <1>2, <1>3, <2>2
  <2>4. ASSUME NEW j \in 1 .. Len(rr) PROVE rr[j] = o[k + 1 + j]
    <3>1. j + 1 \in 1 .. Len(r) /\ k + (j + 1) = k + 1 + j /\ j \in 1 .. Len(r) - 1
      BY <1>2, <1>3
    <3> QED
      BY <1>3, <2>2, <3>1
  <2>5. ASSUME NEW i \in 1 .. k + 1 PROVE o[i] \in Range(bb)
    <3>1. CASE i = k + 1
      <4>1. 1 \in 1 .. Len(r)
        BY <1>2
      <4> QED
        BY <1>4, <2>2, <3>1, <4>1
    <3>2. CASE i # k + 1
      <4>1. i \in 1 .. k
        BY <1>2, <3>2
      <4> QED
        BY <1>4, <2>2, <4>1
    <3> QED
      BY <3>1, <3>2
  <2>6. outstanding'[w] = o /\ acks'[w] = k
    BY <1>1 DEF o, k
  <2> QED
    BY <1>5, <2>3, <2>4, <2>5, <2>6 DEF LinkInv
<1>8. PhaseInv(w)'
  <2>1. Len(bb) <= GetNum
    BY <1>1, <1>2, <1>4, GetNumIsPositive
  <2>2. UNCHANGED <<outstanding, acks, consuming, link>>
    BY <1>1
  <2> QED
    BY <1>1, <1>4, <1>5, <2>1, <2>2 DEF WorkerInv, PhaseInv
<1>9. ReturnInv(w)'
  BY <1>1, <1>5 DEF WorkerInv, ReturnInv
<1>10. LosesNothing(w)
  BY <1>1, <1>4, <1>5 DEF LosesNothing, Places
<1> QED
  BY <1>5, <1>6, <1>7, <1>8, <1>9, <1>10 DEF Kept, WorkerInv

LEMMA AckKeeps ==
  ASSUME TypeOK, NEW w \in Workers, WorkerInv(w), Ack(w)
  PROVE  Kept(w) /\ LosesNothing(w)
<1>1. /\ pc[w] = "ack" /\ pc' = [pc EXCEPT ![w] = "loop"]
      /\ acks' = IF link[w] = "up" THEN [acks EXCEPT ![w] = @ + 1] ELSE acks
      /\ UNCHANGED <<published, ready, outstanding, wire, consuming, link, losses, batch, ret, delivered, dropped, discards>>
  BY DEF Ack, Goto
<1>2. /\ acks[w] \in Nat /\ Len(wire[w]) \in Nat /\ Len(outstanding[w]) \in Nat
      /\ GetNum \in Nat
  BY GetNumIsPositive DEF TypeOK
<1>3. pc'[w] = "loop" /\ Received(w) = 1 /\ Received(w)' = 0 /\ pc' \in [Workers -> {"start", "open", "loop", "ack", "return", "close"}]
      /\ \A u \in Workers \ {w} : pc'[u] = pc[u]
  BY <1>1 DEF TypeOK, Received
<1>4. CASE link[w] = "up"
  <2>1. acks[w] + 1 \in 0 .. GetNum
    BY <1>2, <1>3, <1>4 DEF WorkerInv, LinkInv, PhaseInv
  <2>2. acks' \in [Workers -> 0 .. GetNum] /\ acks'[w] = acks[w] + 1
        /\ \A u \in Workers \ {w} : acks'[u] = acks[u]
    BY <1>1, <1>4, <2>1 DEF TypeOK
  <2>3. TypeOK'
    BY <1>1, <1>3, <2>2 DEF TypeOK
  <2>4. OthersSame(w) /\ Grows
    BY <1>1, <1>3, <2>2 DEF OthersSame, Same, Grows
  <2>5. acks'[w] + Received(w)' = acks[w] + Received(w)
    BY <1>2, <1>3, <2>2
  <2>6. LinkInv(w)'
    <3>1. UNCHANGED <<outstanding, wire, link, batch>>
      BY <1>1
    <3> QED
      BY <2>5, <3>1 DEF WorkerInv, LinkInv
  <2>7. PhaseInv(w)'
    <3>1. consuming[w]
      <4>1. Len(outstanding[w]) > 0
        BY <1>2, <1>3, <1>4 DEF WorkerInv, LinkInv
      <4> QED
        BY <4>1 DEF WorkerInv, PhaseInv
    <3> QED
      BY <1>1, <1>3, <3>1 DEF WorkerInv, PhaseInv
  <2>8. ReturnInv(w)'
    BY <1>1, <1>3 DEF WorkerInv, ReturnInv
  <2> QED
    BY <1>1, <2>3, <2>4, <2>6, <2>7, <2>8 DEF Kept, WorkerInv, LosesNothing, Places
<1>5. CASE link[w] # "up"
  <2>1. TypeOK' /\ OthersSame(w) /\ Grows /\ LinkInv(w)'
    BY <1>1, <1>3, <1>5 DEF TypeOK, OthersSame, Same, Grows, LinkInv
  <2>2. PhaseInv(w)' /\ ReturnInv(w)'
    BY <1>1, <1>3, <1>5 DEF WorkerInv, PhaseInv, ReturnInv
  <2> QED
    BY <1>1, <2>1, <2>2 DEF Kept, WorkerInv, LosesNothing, Places
<1> QED
  BY <1>4, <1>5

\* What the broker keeps of a worker whose channel closes is in the queue again
\* or, acknowledged, in the batch.
LEMMA CloseLosesNothing ==
  ASSUME TypeOK, NEW w \in Workers, WorkerInv(w), CloseChannel(w)
  PROVE  Range(outstanding[w]) \subseteq ready' \cup Range(batch[w])
<1>1. acks[w] \in 0 .. Len(outstanding[w])
  BY AcksFew
<1>2. outstanding[w] \in Seq(Msgs) /\ Len(outstanding[w]) \in Nat /\ acks[w] \in Nat
  BY <1>1 DEF TypeOK
<1>3. \A i \in acks[w] + 1 .. Len(outstanding[w]) : outstanding[w][i] \in ready'
  BY CloseChannelFacts
<1>4. \A i \in 1 .. acks[w] : outstanding[w][i] \in Range(batch[w])
  <2>1. CASE link[w] = "up"
    BY <1>2, <2>1 DEF WorkerInv, LinkInv, Received
  <2>2. CASE link[w] # "up"
    BY <1>2, <2>2 DEF WorkerInv, PhaseInv
  <2> QED
    BY <2>1, <2>2
<1>5. \A x \in Range(outstanding[w]) : \E i \in 1 .. Len(outstanding[w]) : outstanding[w][i] = x
  BY <1>2, RangeFacts
<1>6. \A i \in 1 .. Len(outstanding[w]) : i \in 1 .. acks[w] \/ i \in acks[w] + 1 .. Len(outstanding[w])
  BY <1>2
<1> QED
  BY <1>3, <1>4, <1>5, <1>6

\* The pass whose consumer returns r after it closed the channel.
LEMMA ReturnKeeps ==
  ASSUME TypeOK, NEW w \in Workers, WorkerInv(w), NEW r \in -3 .. GetNum,
         pc[w] \in {"loop", "ack"}, pc' = [pc EXCEPT ![w] = "return"],
         ret' = [ret EXCEPT ![w] = r], CloseChannel(w),
         UNCHANGED <<published, link, losses, batch, delivered, dropped, discards>>,
         r >= 0 => r = Len(batch[w]),
         (r < 0 /\ batch[w] # <<>>) => link[w] = "down"
  PROVE  Kept(w) /\ LosesNothing(w)
<1>1. /\ ready' \subseteq Msgs /\ outstanding' \in [Workers -> Seq(Msgs)]
      /\ acks' \in [Workers -> 0 .. GetNum] /\ consuming' \in [Workers -> BOOLEAN]
      /\ wire' \in [Workers -> Seq(Msgs)]
      /\ outstanding'[w] = <<>> /\ acks'[w] = 0 /\ ~consuming'[w] /\ wire'[w] = <<>>
      /\ \A u \in Workers \ {w} : /\ outstanding'[u] = outstanding[u] /\ acks'[u] = acks[u]
                                  /\ consuming'[u] = consuming[u] /\ wire'[u] = wire[u]
      /\ ready \subseteq ready'
  BY CloseChannelFacts
<1>2. /\ pc' \in [Workers -> {"start", "open", "loop", "ack", "return", "close"}]
      /\ ret' \in [Workers -> -3 .. GetNum] /\ pc'[w] = "return" /\ ret'[w] = r
      /\ \A u \in Workers \ {w} : pc'[u] = pc[u] /\ ret'[u] = ret[u]
  BY DEF TypeOK
<1>3. TypeOK'
  BY <1>1, <1>2 DEF TypeOK
<1>4. OthersSame(w) /\ Grows
  BY <1>1, <1>2 DEF OthersSame, Same, Grows
<1>5. LinkInv(w)'
  <2>1. Len(<<>>) = 0 /\ 1 .. 0 = {} /\ Received(w)' = 0
    BY <1>2 DEF Received
  <2> QED
    BY <1>1, <2>1 DEF LinkInv
<1>6. PhaseInv(w)'
  <2>1. Len(<<>>) = 0
    OBVIOUS
  <2> QED
    BY <1>1, <1>2, <2>1, GetNumIsPositive DEF WorkerInv, PhaseInv
<1>7. ReturnInv(w)'
  BY <1>2 DEF WorkerInv, ReturnInv
<1>8. LosesNothing(w)
  <2>1. Range(outstanding[w]) \subseteq ready' \cup Range(batch[w])
    BY CloseLosesNothing
  <2> QED
    BY <1>1, <2>1 DEF LosesNothing, Places
<1> QED
  BY <1>3, <1>4, <1>5, <1>6, <1>7, <1>8 DEF Kept, WorkerInv

LEMMA AckFailsKeeps ==
  ASSUME TypeOK, NEW w \in Workers, WorkerInv(w), AckFails(w)
  PROVE  Kept(w) /\ LosesNothing(w)
<1>1. /\ pc[w] = "ack" /\ pc' = [pc EXCEPT ![w] = "return"] /\ ret' = [ret EXCEPT ![w] = -1]
      /\ link[w] = "down" /\ CloseChannel(w)
      /\ UNCHANGED <<published, link, losses, batch, delivered, dropped, discards>>
  BY DEF AckFails, Goto
<1>2. -1 \in -3 .. GetNum
  BY GetNumIsPositive
<1> DEFINE r == -1
<1>3. /\ r \in -3 .. GetNum /\ ~(r >= 0) /\ pc[w] \in {"loop", "ack"}
      /\ ret' = [ret EXCEPT ![w] = r]
      /\ r >= 0 => r = Len(batch[w])
      /\ (r < 0 /\ batch[w] # <<>>) => link[w] = "down"
  BY <1>1, <1>2
<1> HIDE DEF r
<1> QED
  BY <1>1, <1>3, ReturnKeeps

LEMMA ConsumeFailsKeeps ==
  ASSUME TypeOK, NEW w \in Workers, WorkerInv(w), ConsumeFails(w)
  PROVE  Kept(w) /\ LosesNothing(w)
<1>1. /\ pc[w] = "loop" /\ pc' = [pc EXCEPT ![w] = "return"] /\ Len(batch[w]) < GetNum
      /\ CloseChannel(w)
      /\ UNCHANGED <<published, link, losses, batch, delivered, dropped, discards>>
  BY DEF ConsumeFails, Goto
<1>2. \E r \in -3 .. GetNum :
        /\ ret' = [ret EXCEPT ![w] = r]
        /\ r >= 0 => r = Len(batch[w])
        /\ r >= 0 \/ batch[w] = <<>>
  <2>1. CASE batch[w] = <<>>
    <3>1. PICK type \in {0, 2, 3} : ret' = [ret EXCEPT ![w] = -type]
      BY <2>1 DEF ConsumeFails, Failures
    <3> DEFINE r == -type
    <3>2. r \in -3 .. GetNum /\ (r >= 0 => r = Len(batch[w]))
      <4>1. Len(<<>>) = 0
        OBVIOUS
      <4> QED
        BY <2>1, <4>1, GetNumIsPositive
    <3>3. ret' = [ret EXCEPT ![w] = r]
      BY <3>1
    <3> HIDE DEF r
    <3> QED
      BY <2>1, <3>2, <3>3
  <2>2. CASE batch[w] # <<>>
    <3>1. Len(batch[w]) \in -3 .. GetNum /\ Len(batch[w]) >= 0
      BY <1>1, GetNumIsPositive DEF TypeOK
    <3> QED
      BY <2>2, <3>1 DEF ConsumeFails
  <2> QED
    BY <2>1, <2>2
<1>3. PICK r \in -3 .. GetNum :
        /\ ret' = [ret EXCEPT ![w] = r]
        /\ r >= 0 => r = Len(batch[w])
        /\ r >= 0 \/ batch[w] = <<>>
  BY <1>2
<1>4. /\ pc[w] \in {"loop", "ack"}
      /\ (r < 0 /\ batch[w] # <<>>) => link[w] = "down"
  BY <1>1, <1>3
<1> QED
  BY <1>1, <1>3, <1>4, ReturnKeeps

\* The end of a pass.
LEMMA DisconnectKeeps ==
  ASSUME TypeOK, NEW w \in Workers, WorkerInv(w), Disconnect(w),
         pc' = [pc EXCEPT ![w] = "start"], UNCHANGED <<published, losses, delivered, discards>>,
         dropped \subseteq dropped', dropped' \subseteq Msgs,
         Range(batch[w]) \subseteq Range(delivered) \cup dropped'
  PROVE  Kept(w) /\ LosesNothing(w)
<1>1. /\ CloseChannel(w) /\ link' = [link EXCEPT ![w] = "none"]
      /\ batch' = [batch EXCEPT ![w] = <<>>] /\ ret' = [ret EXCEPT ![w] = 0]
  BY DEF Disconnect
<1>2. /\ ready' \subseteq Msgs /\ outstanding' \in [Workers -> Seq(Msgs)]
      /\ acks' \in [Workers -> 0 .. GetNum] /\ consuming' \in [Workers -> BOOLEAN]
      /\ wire' \in [Workers -> Seq(Msgs)]
      /\ outstanding'[w] = <<>> /\ acks'[w] = 0 /\ ~consuming'[w] /\ wire'[w] = <<>>
      /\ \A u \in Workers \ {w} : /\ outstanding'[u] = outstanding[u] /\ acks'[u] = acks[u]
                                  /\ consuming'[u] = consuming[u] /\ wire'[u] = wire[u]
      /\ ready \subseteq ready'
  BY <1>1, CloseChannelFacts
<1>3. /\ pc' \in [Workers -> {"start", "open", "loop", "ack", "return", "close"}]
      /\ link' \in [Workers -> {"none", "up", "down"}]
      /\ batch' \in [Workers -> Seq(Msgs)] /\ ret' \in [Workers -> -3 .. GetNum]
      /\ pc'[w] = "start" /\ link'[w] = "none" /\ batch'[w] = <<>> /\ ret'[w] = 0
      /\ \A u \in Workers \ {w} : /\ pc'[u] = pc[u] /\ link'[u] = link[u]
                                  /\ batch'[u] = batch[u] /\ ret'[u] = ret[u]
  <2>1. <<>> \in Seq(Msgs) /\ 0 \in -3 .. GetNum
    BY GetNumIsPositive
  <2> QED
    BY <1>1, <2>1 DEF TypeOK
<1>4. TypeOK'
  BY <1>2, <1>3 DEF TypeOK
<1>5. OthersSame(w) /\ Grows
  BY <1>2, <1>3 DEF OthersSame, Same, Grows
<1>6. LinkInv(w)' /\ ReturnInv(w)'
  BY <1>3 DEF LinkInv, ReturnInv
<1>7. PhaseInv(w)'
  <2>1. Len(<<>>) = 0
    OBVIOUS
  <2> QED
    BY <1>2, <1>3, <2>1, GetNumIsPositive DEF PhaseInv
<1>8. LosesNothing(w)
  <2>1. Range(outstanding[w]) \subseteq ready' \cup Range(batch[w])
    BY <1>1, CloseLosesNothing
  <2> QED
    BY <1>2, <2>1 DEF LosesNothing, Places
<1> QED
  BY <1>4, <1>5, <1>6, <1>7, <1>8 DEF Kept, WorkerInv

LEMMA PassFailsKeeps ==
  ASSUME TypeOK, NEW w \in Workers, WorkerInv(w), PassFails(w)
  PROVE  Kept(w) /\ LosesNothing(w)
<1>1. /\ pc' = [pc EXCEPT ![w] = "start"] /\ dropped' = dropped \cup Range(batch[w])
      /\ Disconnect(w) /\ UNCHANGED <<published, losses, delivered, discards>>
  BY DEF PassFails, Goto
<1>2. batch[w] \in Seq(Msgs) /\ dropped \subseteq Msgs
  BY DEF TypeOK
<1>3. dropped' \subseteq Msgs
  BY <1>1, <1>2, RangeFacts
<1> QED
  BY <1>1, <1>3, DisconnectKeeps

LEMMA PassEndsKeeps ==
  ASSUME TypeOK, NEW w \in Workers, WorkerInv(w), PassEnds(w)
  PROVE  Kept(w) /\ LosesNothing(w)
<1>1. /\ pc[w] = "close" /\ pc' = [pc EXCEPT ![w] = "start"]
      /\ Disconnect(w) /\ UNCHANGED <<published, losses, delivered, dropped, discards>>
  BY DEF PassEnds, Goto
<1>2. dropped \subseteq Msgs /\ Range(batch[w]) \subseteq Range(delivered) \cup dropped
  BY <1>1 DEF TypeOK, WorkerInv, ReturnInv
<1> QED
  BY <1>1, <1>2, DisconnectKeeps

-----------------------------------------------------------------------------
(* Every step.                                                             *)

LEMMA WorkerStepKeeps ==
  ASSUME TypeOK, NEW w \in Workers, WorkerInv(w),
         BrokerDeliver(w) \/ BrokerAck(w) \/ LinkLost(w) \/ Pass(w)
  PROVE  Kept(w) /\ LosesNothing(w)
<1>1. CASE BrokerDeliver(w)
  BY <1>1, BrokerDeliverKeeps
<1>2. CASE BrokerAck(w)
  BY <1>2, BrokerAckKeeps
<1>3. CASE LinkLost(w)
  BY <1>3, LinkLostKeeps
<1>4. CASE Connect(w)
  BY <1>4, ConnectKeeps
<1>5. CASE Consume(w)
  BY <1>5, ConsumeKeeps
<1>6. CASE SetupFails(w)
  BY <1>6, SetupFailsKeeps
<1>7. CASE Receive(w)
  BY <1>7, ReceiveKeeps
<1>8. CASE Ack(w)
  BY <1>8, AckKeeps
<1>9. CASE AckFails(w)
  BY <1>9, AckFailsKeeps
<1>10. CASE ConsumeFails(w)
  BY <1>10, ConsumeFailsKeeps
<1>11. CASE BatchFull(w)
  BY <1>11, BatchFullKeeps
<1>12. CASE PassFails(w)
  BY <1>12, PassFailsKeeps
<1>13. CASE Callback(w)
  BY <1>13, CallbackKeeps
<1>14. CASE PassEnds(w)
  BY <1>14, PassEndsKeeps
<1>15. CASE Discard(w)
  BY <1>15, DiscardKeeps
<1> QED
  BY <1>1, <1>2, <1>3, <1>4, <1>5, <1>6, <1>7, <1>8, <1>9, <1>10, <1>11, <1>12, <1>13, <1>14, <1>15
     DEF Pass

LEMMA PublishKeeps ==
  ASSUME TypeOK, Publish
  PROVE  /\ TypeOK' /\ Grows /\ \A u \in Workers : Same(u)
         /\ NothingVanishes => NothingVanishes'
<1>1. /\ published < NumMsgs /\ published' = published + 1 /\ ready' = ready \cup {published'}
      /\ UNCHANGED <<outstanding, wire, acks, consuming, link, losses, pc, batch, ret, delivered, dropped, discards>>
  BY DEF Publish, clientVars
<1>2. published' \in 0 .. NumMsgs /\ published' \in Msgs /\ published \in Nat
  BY <1>1, BoundsAreNat DEF TypeOK, Msgs
<1>3. TypeOK'
  BY <1>1, <1>2 DEF TypeOK
<1>4. ASSUME NothingVanishes PROVE NothingVanishes'
  <2>1. AtBroker' = AtBroker \cup {published'} /\ InHand' = InHand
    BY <1>1 DEF AtBroker, InHand
  <2>2. \A m \in 1 .. published' : m \in 1 .. published \/ m = published'
    BY <1>1, <1>2
  <2> QED
    BY <1>1, <1>4, <2>1, <2>2 DEF NothingVanishes
<1> QED
  BY <1>1, <1>3, <1>4 DEF Grows, Same

LEMMA StillThere ==
  ASSUME NEW w \in Workers, NothingVanishes, OthersSame(w), LosesNothing(w)
  PROVE  NothingVanishes'
<1> DEFINE All == AtBroker \cup InHand \cup Range(delivered) \cup dropped
<1>1. Places(w)' \subseteq All'
  BY DEF Places, AtBroker, InHand
<1>2. \A u \in Workers \ {w} : /\ Range(outstanding[u]) \subseteq All'
                               /\ Range(batch[u]) \subseteq All'
  BY DEF OthersSame, Same, AtBroker, InHand
<1>3. ASSUME NEW m \in All PROVE m \in All'
  <2>1. CASE m \in Places(w)
    BY <1>1, <2>1 DEF LosesNothing
  <2>2. CASE m \notin Places(w)
    <3>1. PICK u \in Workers : m \in Range(outstanding[u]) \/ m \in Range(batch[u])
      BY <2>2 DEF Places, AtBroker, InHand
    <3>2. u # w
      BY <2>2, <3>1 DEF Places
    <3> QED
      BY <1>2, <3>1, <3>2
  <2> QED
    BY <2>1, <2>2
<1>4. All \subseteq All'
  BY <1>3
<1> QED
  BY <1>4 DEF NothingVanishes, LosesNothing

LEMMA StepInv == IInv /\ [Next]_vars => IInv'
<1> SUFFICES ASSUME IInv, [Next]_vars PROVE IInv'
  OBVIOUS
<1>1. TypeOK /\ NothingVanishes /\ \A w \in Workers : WorkerInv(w)
  BY DEF IInv
<1>2. CASE Publish
  <2>1. TypeOK' /\ Grows /\ NothingVanishes' /\ \A u \in Workers : Same(u)
    BY <1>1, <1>2, PublishKeeps
  <2>2. \A u \in Workers : WorkerInv(u)'
    BY <1>1, <2>1, FrameInv
  <2> QED
    BY <2>1, <2>2 DEF IInv
<1>3. ASSUME NEW w \in Workers, BrokerDeliver(w) \/ BrokerAck(w) \/ LinkLost(w) \/ Pass(w)
      PROVE  IInv'
  <2>1. Kept(w) /\ LosesNothing(w)
    BY <1>1, <1>3, WorkerStepKeeps
  <2>2. TypeOK' /\ WorkerInv(w)' /\ OthersSame(w) /\ Grows
    BY <2>1 DEF Kept
  <2>3. ASSUME NEW u \in Workers PROVE WorkerInv(u)'
    <3>1. CASE u = w
      BY <2>2, <3>1
    <3>2. CASE u # w
      <4>1. Same(u)
        BY <2>2, <3>2 DEF OthersSame
      <4> QED
        BY <1>1, <2>2, <4>1, FrameInv
    <3> QED
      BY <3>1, <3>2
  <2>4. NothingVanishes'
    BY <1>1, <2>1, <2>2, StillThere
  <2> QED
    BY <2>2, <2>3, <2>4 DEF IInv
<1>4. CASE UNCHANGED vars
  <2>1. UNCHANGED <<published, ready, outstanding, wire, acks, consuming, link, losses,
                    pc, batch, ret, delivered, dropped, discards>>
    BY <1>4 DEF vars, brokerVars, clientVars
  <2>2. TypeOK'
    BY <1>1, <2>1 DEF TypeOK
  <2>3. Grows /\ \A u \in Workers : Same(u)
    BY <2>1 DEF Grows, Same
  <2>4. \A u \in Workers : WorkerInv(u)'
    BY <1>1, <2>2, <2>3, FrameInv
  <2>5. NothingVanishes'
    BY <1>1, <2>1 DEF NothingVanishes, AtBroker, InHand
  <2> QED
    BY <2>2, <2>4, <2>5 DEF IInv
<1> QED
  BY <1>2, <1>3, <1>4 DEF Next

LEMMA Invariance == Spec => []IInv
BY InitInv, StepInv, PTL DEF Spec

\* The variables have their types (the local state of consumerWorker and of
\* consumer, RabbitMq.cpp:21-75, RabbitMQ_Adapter.cpp:314-410).
THEOREM TypeCorrect == Spec => []TypeOK
<1>1. IInv => TypeOK
  BY DEF IInv
<1> QED
  BY Invariance, <1>1, PTL

\* Whatever the workers, the losses and the failing steps: a message that was
\* published is at the broker, in the batch of a pass, was given to the callback,
\* or was in a batch thrown away (RabbitMQ_Adapter.cpp:393-405).
THEOREM NothingIsLost == Spec => []NothingVanishes
<1>1. IInv => NothingVanishes
  BY DEF IInv
<1> QED
  BY Invariance, <1>1, PTL

\* A return of at least 0, which consumerWorker takes for a batch, is the number
\* of messages in it, whichever type of reply ended the loop; a reply of no type
\* returns 0 with none (RabbitMQ_Adapter.cpp:388-391, 406, RabbitMq.cpp:59).
THEOREM ReturnCountsBatch == Spec => []BatchReturned
<1>1. IInv => BatchReturned
  BY DEF IInv, WorkerInv, ReturnInv, BatchReturned
<1> QED
  BY Invariance, <1>1, PTL

-----------------------------------------------------------------------------
(* Lost links and dropped batches.                                         *)

Down == {w \in Workers : link[w] = "down"}

\* What a batch may be thrown away for: a link lost, a pass without a callback.
Excuses == losses + discards

\* A link lost is paid for once: by the batch its pass throws away, or not yet.
LossInv ==
  /\ IsFiniteSet(Down) /\ IsFiniteSet(dropped)
  /\ Cardinality(dropped) + GetNum * Cardinality(Down) <= GetNum * Excuses

\* A sequence has no more elements than places.
LEMMA RangeSize ==
  ASSUME NEW S, NEW s \in Seq(S)
  PROVE  IsFiniteSet(Range(s)) /\ Cardinality(Range(s)) <= Len(s)
<1>1. /\ \A i \in 1 .. Len(s) : s[i] \in Range(s)
      /\ \A x \in Range(s) : \E i \in 1 .. Len(s) : s[i] = x
  BY RangeFacts
<1> DEFINE f == [i \in 1 .. Len(s) |-> s[i]]
<1>2. f \in [1 .. Len(s) -> Range(s)] /\ \A x \in Range(s) : \E i \in 1 .. Len(s) : f[i] = x
  BY <1>1
<1>3. f \in Surjection(1 .. Len(s), Range(s))
  BY <1>2 DEF Surjection
<1>4. IsFiniteSet(1 .. Len(s)) /\ Cardinality(1 .. Len(s)) = Len(s)
  <2>1. Len(s) \in Nat /\ 1 \in Int /\ Len(s) \in Int
    OBVIOUS
  <2> QED
    BY <2>1, FS_Interval, SMTT(30)
<1> QED
  BY <1>3, <1>4, FS_Surjection

LEMMA Multiples ==
  ASSUME NEW g \in Nat, NEW n \in Nat
  PROVE  /\ g * n \in Nat /\ g * (n + 1) = g * n + g
         /\ n > 0 => g * (n - 1) = g * n - g
OBVIOUS

\* A step that loses no link and drops nothing.
LEMMA SameLosses ==
  ASSUME LossInv, Excuses \in Nat, Excuses' = Excuses, dropped' = dropped, Down' \subseteq Down
  PROVE  LossInv'
<1>1. IsFiniteSet(Down') /\ Cardinality(Down') <= Cardinality(Down)
      /\ Cardinality(Down') \in Nat /\ Cardinality(Down) \in Nat /\ Cardinality(dropped) \in Nat
  BY FS_Subset, FS_CardinalityType DEF LossInv
<1>2. GetNum * Cardinality(Down') <= GetNum * Cardinality(Down)
      /\ GetNum * Cardinality(Down') \in Nat /\ GetNum * Cardinality(Down) \in Nat /\ GetNum * Excuses \in Nat
  <2> DEFINE d == Cardinality(Down)
             e == Cardinality(Down')
  <2>1. d \in Nat /\ e \in Nat /\ e <= d /\ GetNum \in Nat
    BY <1>1, GetNumIsPositive
  <2> HIDE DEF d, e
  <2>2. GetNum * e <= GetNum * d /\ GetNum * d \in Nat /\ GetNum * e \in Nat /\ GetNum * Excuses \in Nat
    BY <2>1
  <2> QED
    BY <2>2 DEF d, e
<1> QED
  BY <1>1, <1>2 DEF LossInv

LEMMA LinkLostPays ==
  ASSUME TypeOK, LossInv, NEW w \in Workers, LinkLost(w)
  PROVE  LossInv'
<1>1. /\ Excuses' = Excuses + 1 /\ Excuses \in Nat /\ dropped' = dropped /\ w \notin Down /\ Down' = Down \cup {w}
  BY BoundsAreNat DEF LinkLost, Down, TypeOK, Excuses
<1>2. /\ IsFiniteSet(Down') /\ Cardinality(Down') = Cardinality(Down) + 1
      /\ Cardinality(Down) \in Nat /\ Cardinality(dropped) \in Nat /\ Excuses \in Nat /\ GetNum \in Nat
  BY <1>1, FS_AddElement, FS_CardinalityType, GetNumIsPositive DEF LossInv, TypeOK
<1>3. /\ GetNum * (Cardinality(Down) + 1) = GetNum * Cardinality(Down) + GetNum
      /\ GetNum * (Excuses + 1) = GetNum * Excuses + GetNum
      /\ GetNum * Cardinality(Down) \in Nat /\ GetNum * Excuses \in Nat
  BY <1>2, Multiples
<1> QED
  BY <1>1, <1>2, <1>3 DEF LossInv

\* The pass that drops its batch has a lost link, and no longer.
LEMMA PassFailsPays ==
  ASSUME TypeOK, LossInv, NEW w \in Workers, WorkerInv(w), PassFails(w)
  PROVE  LossInv'
<1>1. /\ pc[w] = "return" /\ ret[w] < 0 /\ dropped' = dropped \cup Range(batch[w])
      /\ Excuses' = Excuses /\ Excuses \in Nat /\ Down' = Down \ {w} /\ batch[w] \in Seq(Msgs)
  BY BoundsAreNat DEF PassFails, Disconnect, Goto, Down, TypeOK, Excuses
<1>2. CASE batch[w] = <<>>
  BY <1>1, <1>2, EmptyRange, SameLosses
<1>3. CASE batch[w] # <<>>
  <2> DEFINE b == Range(batch[w])
  <2>1. w \in Down /\ Len(batch[w]) <= GetNum /\ Len(batch[w]) \in Nat /\ GetNum \in Nat /\ Excuses \in Nat
    BY <1>1, <1>3, GetNumIsPositive DEF WorkerInv, ReturnInv, PhaseInv, Down, TypeOK
  <2>2. IsFiniteSet(b) /\ Cardinality(b) \in Nat /\ Cardinality(b) <= GetNum
    BY <1>1, <2>1, RangeSize, FS_CardinalityType
  <2> HIDE DEF b
  <2>3. /\ IsFiniteSet(dropped \cup b) /\ Cardinality(dropped) \in Nat /\ Cardinality(dropped \cap b) \in Nat
        /\ Cardinality(dropped \cup b) = Cardinality(dropped) + Cardinality(b) - Cardinality(dropped \cap b)
    <3>1. IsFiniteSet(dropped) /\ IsFiniteSet(dropped \cap b)
      BY FS_Intersection DEF LossInv
    <3> QED
      BY <2>2, <3>1, FS_Union, FS_CardinalityType
  <2>4. /\ IsFiniteSet(Down') /\ Cardinality(Down') = Cardinality(Down) - 1
        /\ Cardinality(Down) \in Nat /\ Cardinality(Down') \in Nat
    BY <1>1, <2>1, FS_RemoveElement, FS_CardinalityType DEF LossInv
  <2>5. /\ GetNum * Cardinality(Down') = GetNum * Cardinality(Down) - GetNum
        /\ GetNum * Cardinality(Down) \in Nat /\ GetNum * Excuses \in Nat
    <3>1. Cardinality(Down) > 0
      BY <2>4
    <3> QED
      BY <2>1, <2>4, <3>1, Multiples
  <2>6. Cardinality(dropped') <= Cardinality(dropped) + GetNum /\ IsFiniteSet(dropped')
    <3>1. dropped' = dropped \cup b
      BY <1>1 DEF b
    <3> QED
      BY <2>1, <2>2, <2>3, <3>1
  <2>7. Cardinality(dropped') \in Nat
    BY <2>6, FS_CardinalityType
  <2>8. Cardinality(dropped) + GetNum * Cardinality(Down) <= GetNum * Excuses
    BY DEF LossInv
  <2> DEFINE g == GetNum * Cardinality(Down)
             gg == GetNum * Cardinality(Down')
             l == GetNum * Excuses
  <2>9. gg = g - GetNum /\ g \in Nat /\ l \in Nat /\ Cardinality(dropped) + g <= l
    BY <2>5, <2>8
  <2> HIDE DEF g, gg, l
  <2>10. Cardinality(dropped') + gg <= l
    BY <2>1, <2>3, <2>6, <2>7, <2>9
  <2> QED
    BY <1>1, <2>4, <2>6, <2>10 DEF LossInv, gg, l
<1> QED
  BY <1>2, <1>3

\* So has the pass without a callback an excuse of its own.
LEMMA DiscardPays ==
  ASSUME TypeOK, LossInv, NEW w \in Workers, WorkerInv(w), Discard(w)
  PROVE  LossInv'
<1>1. /\ dropped' = dropped \cup Range(batch[w]) /\ Down' = Down /\ batch[w] \in Seq(Msgs)
      /\ Excuses' = Excuses + 1 /\ Excuses \in Nat
  BY BoundsAreNat DEF Discard, Down, TypeOK, Excuses, brokerVars
<1> DEFINE b == Range(batch[w])
<1>2. Len(batch[w]) <= GetNum /\ Len(batch[w]) \in Nat /\ GetNum \in Nat
  BY <1>1, GetNumIsPositive DEF WorkerInv, PhaseInv
<1>3. IsFiniteSet(b) /\ Cardinality(b) \in Nat /\ Cardinality(b) <= GetNum
  BY <1>1, <1>2, RangeSize, FS_CardinalityType
<1> HIDE DEF b
<1>4. /\ IsFiniteSet(dropped \cup b) /\ Cardinality(dropped) \in Nat /\ Cardinality(dropped \cap b) \in Nat
      /\ Cardinality(dropped \cup b) = Cardinality(dropped) + Cardinality(b) - Cardinality(dropped \cap b)
  <2>1. IsFiniteSet(dropped) /\ IsFiniteSet(dropped \cap b)
    BY FS_Intersection DEF LossInv
  <2> QED
    BY <1>3, <2>1, FS_Union, FS_CardinalityType
<1>5. Cardinality(dropped') <= Cardinality(dropped) + GetNum /\ IsFiniteSet(dropped')
  <2>1. dropped' = dropped \cup b
    BY <1>1 DEF b
  <2> QED
    BY <1>2, <1>3, <1>4, <2>1
<1>6. Cardinality(dropped') \in Nat /\ Cardinality(Down) \in Nat
  BY <1>5, FS_CardinalityType DEF LossInv
<1> DEFINE g == GetNum * Cardinality(Down)
           l == GetNum * Excuses
           ll == GetNum * (Excuses + 1)
<1>7. g \in Nat /\ l \in Nat /\ ll = l + GetNum
  BY <1>1, <1>2, <1>6, Multiples
<1>8. Cardinality(dropped) + g <= l
  BY DEF LossInv
<1> HIDE DEF g, l, ll
<1>9. Cardinality(dropped') + g <= ll
  BY <1>2, <1>4, <1>5, <1>6, <1>7, <1>8
<1> QED
  BY <1>1, <1>5, <1>9 DEF LossInv, g, ll

LEMMA LossStep == IInv /\ LossInv /\ [Next]_vars => LossInv'
<1> SUFFICES ASSUME IInv, LossInv, [Next]_vars PROVE LossInv'
  OBVIOUS
<1>1. TypeOK /\ Excuses \in Nat /\ \A w \in Workers : WorkerInv(w)
  BY BoundsAreNat DEF IInv, TypeOK, Excuses
<1>2. ASSUME NEW w \in Workers, BrokerDeliver(w) \/ BrokerAck(w) \/ LinkLost(w) \/ Pass(w) PROVE LossInv'
  <2>1. CASE LinkLost(w)
    BY <1>1, <2>1, LinkLostPays
  <2>2. CASE PassFails(w)
    BY <1>1, <2>2, PassFailsPays
  <2>3. CASE Connect(w) \/ PassEnds(w)
    <3>1. Excuses' = Excuses /\ dropped' = dropped /\ Down' \subseteq Down
      BY <1>1, <2>3 DEF Connect, PassEnds, Disconnect, Down, TypeOK, Excuses
    <3> QED
      BY <1>1, <3>1, SameLosses
  <2>5. CASE Discard(w)
    BY <1>1, <2>5, DiscardPays
  <2>4. CASE ~LinkLost(w) /\ ~PassFails(w) /\ ~Connect(w) /\ ~PassEnds(w) /\ ~Discard(w)
    <3>1. UNCHANGED <<losses, dropped, discards, link>>
      BY <1>2, <2>4 DEF BrokerDeliver, BrokerAck, Pass, Consume, SetupFails, Receive, Ack, AckFails,
                        ConsumeFails, BatchFull, Callback, brokerVars
    <3> QED
      BY <1>1, <3>1, SameLosses DEF Down, Excuses
  <2> QED
    BY <2>1, <2>2, <2>3, <2>4, <2>5
<1>3. CASE Publish \/ UNCHANGED vars
  <2>1. UNCHANGED <<losses, dropped, discards, link>>
    BY <1>3 DEF Publish, vars, brokerVars
  <2> QED
    BY <1>1, <2>1, SameLosses DEF Down, Excuses
<1> QED
  BY <1>2, <1>3 DEF Next

LEMMA LossInit == Init => LossInv
<1> SUFFICES ASSUME Init PROVE LossInv
  OBVIOUS
<1>1. Down = {} /\ dropped = {} /\ Excuses = 0
  BY DEF Init, Down, Excuses
<1>2. IsFiniteSet({}) /\ Cardinality({}) = 0 /\ GetNum \in Nat
  BY FS_EmptySet, GetNumIsPositive
<1> QED
  BY <1>1, <1>2 DEF LossInv

\* Whatever the workers and wherever their passes are cut short: what is thrown away
\* is at most one batch for each link lost and each pass without a callback, and
\* nothing while there is neither (RabbitMQ_Adapter.cpp:384-391, 396-402,
\* RabbitMq.cpp:59-70).
THEOREM OneBatchALoss == Spec => []EachLossOneBatch
<1>1. TypeOK /\ LossInv => EachLossOneBatch
  <2> SUFFICES ASSUME TypeOK, LossInv PROVE EachLossOneBatch
    OBVIOUS
  <2>1. Cardinality(dropped) \in Nat /\ Cardinality(Down) \in Nat /\ GetNum \in Nat /\ Excuses \in Nat
    BY FS_CardinalityType, GetNumIsPositive, BoundsAreNat DEF LossInv, TypeOK, Excuses
  <2>2. GetNum * Cardinality(Down) \in Nat /\ GetNum * Excuses \in Nat /\ GetNum * Excuses = Excuses * GetNum
    BY <2>1, Multiples
  <2> QED
    BY <2>1, <2>2 DEF LossInv, EachLossOneBatch, Excuses
<1>2. IInv => TypeOK
  BY DEF IInv
<1> QED
  BY Invariance, LossInit, LossStep, <1>1, <1>2, PTL DEF Spec

-----------------------------------------------------------------------------
(* One pass sees a message once.                                           *)

\* What the pass of a worker was sent, received or not.
Seen(w) == Range(batch[w]) \cup Range(wire[w])

\* No pass has a message twice.  What it has seen does not wait in the queue while
\* its consumer lives, and is unsettled with no other consumer.
OwnInv(w) ==
  /\ IsInjective(batch[w]) /\ IsInjective(wire[w]) /\ Range(batch[w]) \cap Range(wire[w]) = {}
  /\ Seen(w) \subseteq 1 .. published
  /\ consuming[w] => Seen(w) \cap ready = {}
Cross(w, u) == consuming[w] => Seen(w) \cap Range(outstanding[u]) = {}

UniqueInv ==
  /\ ready \cup Range(delivered) \subseteq 1 .. published
  /\ \A w \in Workers : OwnInv(w)
  /\ \A w, u \in Workers : w # u => Cross(w, u)

\* A step of w: it brings its own consumer only what waited in the queue.
UniqueKept(w) ==
  /\ OwnInv(w)' /\ \A u \in Workers \ {w} : consuming'[w] => Seen(w)' \cap Range(outstanding[u]) = {}
  /\ ready' \cup Range(outstanding'[w]) \subseteq ready \cup Range(outstanding[w])
  /\ Range(delivered') \subseteq 1 .. published
LEMMA InjectiveFacts ==
  ASSUME NEW S, NEW s \in Seq(S), NEW t \in Seq(S), IsInjective(s), IsInjective(t),
         Range(s) \cap Range(t) = {}
  PROVE  /\ \A e \in S : e \notin Range(s) => IsInjective(Append(s, e))
         /\ s # <<>> => /\ IsInjective(Tail(s)) /\ Head(s) \notin Range(Tail(s))
                        /\ Range(s) = {Head(s)} \cup Range(Tail(s))
         /\ IsInjective(s \o t)
<1>1. /\ \A i \in 1 .. Len(s) : s[i] \in Range(s)
      /\ \A i \in 1 .. Len(t) : t[i] \in Range(t)
      /\ \A i, j \in 1 .. Len(s) : s[i] = s[j] => i = j
      /\ \A i, j \in 1 .. Len(t) : t[i] = t[j] => i = j
  BY DEF Range, IsInjective
<1>2. ASSUME NEW e \in S, e \notin Range(s) PROVE IsInjective(Append(s, e))
  <2> DEFINE a == Append(s, e)
  <2>1. /\ a \in Seq(S) /\ Len(a) = Len(s) + 1 /\ DOMAIN a = 1 .. Len(s) + 1
        /\ \A i \in 1 .. Len(s) : a[i] = s[i]
        /\ a[Len(s) + 1] = e
    OBVIOUS
  <2> HIDE DEF a
  <2>2. ASSUME NEW i \in 1 .. Len(s) + 1, NEW j \in 1 .. Len(s) + 1, a[i] = a[j] PROVE i = j
    <3>1. CASE i \in 1 .. Len(s) /\ j \in 1 .. Len(s)
      BY <1>1, <2>1, <2>2, <3>1
    <3>2. CASE i \in 1 .. Len(s) /\ j = Len(s) + 1
      BY <1>1, <1>2, <2>1, <2>2, <3>2
    <3>3. CASE j \in 1 .. Len(s) /\ i = Len(s) + 1
      BY <1>1, <1>2, <2>1, <2>2, <3>3
    <3>4. CASE i = Len(s) + 1 /\ j = Len(s) + 1
      BY <3>4
    <3> QED
      BY <3>1, <3>2, <3>3, <3>4
  <2> QED
    BY <2>1, <2>2 DEF IsInjective, a
<1>3. ASSUME s # <<>>
      PROVE  /\ IsInjective(Tail(s)) /\ Head(s) \notin Range(Tail(s))
             /\ Range(s) = {Head(s)} \cup Range(Tail(s))
  <2> DEFINE r == Tail(s)
  <2>1. /\ r \in Seq(S) /\ Len(r) = Len(s) - 1 /\ DOMAIN r = 1 .. Len(s) - 1 /\ Len(s) > 0
        /\ \A i \in 1 .. Len(s) - 1 : r[i] = s[i + 1]
        /\ Head(s) = s[1] /\ DOMAIN s = 1 .. Len(s) /\ Len(s) \in Nat
    BY <1>3
  <2> HIDE DEF r
  <2>2. ASSUME NEW i \in 1 .. Len(s) - 1, NEW j \in 1 .. Len(s) - 1, r[i] = r[j] PROVE i = j
    <3>1. i + 1 \in 1 .. Len(s) /\ j + 1 \in 1 .. Len(s) /\ s[i + 1] = s[j + 1]
      BY <2>1, <2>2
    <3>2. i + 1 = j + 1
      BY <1>1, <3>1
    <3> QED
      BY <3>2
  <2>3. Head(s) \notin Range(r)
    <3>1. SUFFICES ASSUME NEW i \in 1 .. Len(s) - 1, r[i] = s[1] PROVE FALSE
      BY <2>1 DEF Range
    <3>2. i + 1 \in 1 .. Len(s) /\ 1 \in 1 .. Len(s) /\ s[i + 1] = s[1] /\ i + 1 # 1
      BY <2>1, <3>1
    <3> QED
      BY <1>1, <3>2
  <2>4. ASSUME NEW x \in Range(s) PROVE x \in {Head(s)} \cup Range(r)
    <3>1. PICK i \in 1 .. Len(s) : s[i] = x
      BY <2>1 DEF Range
    <3>2. CASE i = 1
      BY <2>1, <3>1, <3>2
    <3>3. CASE i # 1
      <4>1. i - 1 \in 1 .. Len(s) - 1 /\ r[i - 1] = x
        BY <2>1, <3>1, <3>3
      <4> QED
        BY <2>1, <4>1 DEF Range
    <3> QED
      BY <3>2, <3>3
  <2>5. ASSUME NEW x \in {Head(s)} \cup Range(r) PROVE x \in Range(s)
    <3>1. CASE x = Head(s)
      <4>1. 1 \in 1 .. Len(s)
        BY <2>1
      <4> QED
        BY <1>1, <2>1, <3>1, <4>1
    <3>2. CASE x \in Range(r)
      <4>1. PICK i \in 1 .. Len(s) - 1 : r[i] = x
        BY <2>1, <3>2 DEF Range
      <4>2. i + 1 \in 1 .. Len(s) /\ s[i + 1] = x
        BY <2>1, <4>1
      <4> QED
        BY <1>1, <4>2
    <3> QED
      BY <3>1, <3>2
  <2>6. IsInjective(r)
    BY <2>1, <2>2 DEF IsInjective
  <2> QED
    BY <2>3, <2>4, <2>5, <2>6 DEF r
<1>4. IsInjective(s \o t)
  <2> DEFINE c == s \o t
  <2>1. /\ c \in Seq(S) /\ Len(c) = Len(s) + Len(t)
        /\ \A i \in 1 .. Len(s) + Len(t) : c[i] = IF i <= Len(s) THEN s[i] ELSE t[i - Len(s)]
    BY ConcatProperties
  <2> HIDE DEF c
  <2>2. DOMAIN c = 1 .. Len(s) + Len(t) /\ Len(s) \in Nat /\ Len(t) \in Nat
    BY <2>1
  <2>3. \A i \in 1 .. Len(s) + Len(t) :
          \/ i \in 1 .. Len(s) /\ c[i] = s[i] /\ c[i] \in Range(s)
          \/ i - Len(s) \in 1 .. Len(t) /\ c[i] = t[i - Len(s)] /\ c[i] \in Range(t)
    <3> SUFFICES ASSUME NEW i \in 1 .. Len(s) + Len(t)
                 PROVE  \/ i \in 1 .. Len(s) /\ c[i] = s[i] /\ c[i] \in Range(s)
                        \/ i - Len(s) \in 1 .. Len(t) /\ c[i] = t[i - Len(s)] /\ c[i] \in Range(t)
      OBVIOUS
    <3>1. CASE i <= Len(s)
      <4>1. i \in 1 .. Len(s) /\ c[i] = s[i]
        BY <2>1, <2>2, <3>1
      <4> QED
        BY <1>1, <4>1
    <3>2. CASE ~(i <= Len(s))
      <4>1. i - Len(s) \in 1 .. Len(t) /\ c[i] = t[i - Len(s)]
        BY <2>1, <2>2, <3>2
      <4> QED
        BY <1>1, <4>1
    <3> QED
      BY <3>1, <3>2
  <2>4. ASSUME NEW i \in 1 .. Len(s) + Len(t), NEW j \in 1 .. Len(s) + Len(t), c[i] = c[j] PROVE i = j
    <3>1. CASE i \in 1 .. Len(s) /\ c[i] = s[i] /\ c[i] \in Range(s)
      <4>1. j \in 1 .. Len(s) /\ c[j] = s[j]
        BY <2>3, <2>4, <3>1
      <4> QED
        BY <1>1, <2>4, <3>1, <4>1
    <3>2. CASE i - Len(s) \in 1 .. Len(t) /\ c[i] = t[i - Len(s)] /\ c[i] \in Range(t)
      <4>1. j - Len(s) \in 1 .. Len(t) /\ c[j] = t[j - Len(s)]
        BY <2>3, <2>4, <3>2
      <4>2. i - Len(s) = j - Len(s)
        BY <1>1, <2>4, <3>2, <4>1
      <4> QED
        BY <2>2, <4>2
    <3> QED
      BY <2>3, <3>1, <3>2
  <2> QED
    BY <2>2, <2>4 DEF IsInjective, c
<1> QED
  BY <1>2, <1>3, <1>4

LEMMA InjectiveEmpty == IsInjective(<<>>)
BY DEF IsInjective

\* What is unsettled has been sent in this pass.
LEMMA UnsettledIsSeen ==
  ASSUME TypeOK, NEW w \in Workers, WorkerInv(w)
  PROVE  Range(outstanding[w]) \subseteq Seen(w)
<1> DEFINE k == acks[w] + Received(w)
<1>1. /\ k \in Nat /\ Len(wire[w]) \in Nat /\ outstanding[w] \in Seq(Msgs) /\ wire[w] \in Seq(Msgs)
      /\ \A j \in 1 .. Len(wire[w]) : wire[w][j] \in Range(wire[w])
  <2>1. acks[w] \in Nat /\ Received(w) \in Nat /\ outstanding[w] \in Seq(Msgs) /\ wire[w] \in Seq(Msgs)
    BY GetNumIsPositive DEF TypeOK, Received
  <2> QED
    BY <2>1, RangeFacts
<1>2. CASE link[w] = "up"
  <2>1. /\ Len(outstanding[w]) = k + Len(wire[w])
        /\ \A j \in 1 .. Len(wire[w]) : wire[w][j] = outstanding[w][k + j]
        /\ \A i \in 1 .. k : outstanding[w][i] \in Range(batch[w])
    BY <1>2 DEF WorkerInv, LinkInv
  <2> HIDE DEF k
  <2>2. ASSUME NEW x \in Range(outstanding[w]) PROVE x \in Seen(w)
    <3>1. PICK i \in 1 .. Len(outstanding[w]) : outstanding[w][i] = x
      BY <1>1, RangeFacts
    <3>2. CASE i <= k
      BY <1>1, <2>1, <3>1, <3>2 DEF Seen
    <3>3. CASE i > k
      <4>1. i - k \in 1 .. Len(wire[w]) /\ k + (i - k) = i
        BY <1>1, <2>1, <3>3
      <4> QED
        BY <1>1, <2>1, <3>1, <4>1 DEF Seen
    <3> QED
      BY <1>1, <3>2, <3>3
  <2> QED
    BY <2>2
<1>3. CASE link[w] # "up"
  BY <1>3, EmptyRange DEF WorkerInv, PhaseInv
<1> QED
  BY <1>2, <1>3
\* What returns to the queue when a channel closes is what was not read.
LEMMA ReturnedWasUnread ==
  ASSUME TypeOK, NEW w \in Workers, WorkerInv(w), pc[w] # "ack" \/ link[w] = "down", CloseChannel(w)
  PROVE  ready' \subseteq ready \cup Range(wire[w]) /\ ready \subseteq ready' /\ wire'[w] = <<>>
<1> DEFINE o == outstanding[w]
           k == acks[w]
           rest == Range(SubSeq(o, k + 1, Len(o)))
<1>1. k \in 0 .. Len(o) /\ o \in Seq(Msgs) /\ wire[w] \in Seq(Msgs) /\ Len(wire[w]) \in Nat
  BY AcksFew DEF TypeOK
<1>2. \A x \in rest : \E i \in k + 1 .. Len(o) : o[i] = x
  <2> HIDE DEF o, k
  <2> QED
    BY <1>1, RestFacts
<1>3. ready' = ready \cup rest
  BY DEF CloseChannel, EndConsumer
<1>4. wire'[w] = <<>>
  BY DEF CloseChannel, TypeOK
<1> HIDE DEF rest
<1>5. rest \subseteq Range(wire[w])
  <2>1. CASE link[w] = "up"
    <3>1. /\ Len(o) = k + Len(wire[w])
          /\ \A j \in 1 .. Len(wire[w]) : wire[w][j] = o[k + j]
      BY <1>1, <2>1 DEF WorkerInv, LinkInv, Received
    <3>2. ASSUME NEW x \in rest PROVE x \in Range(wire[w])
      <4>1. PICK i \in k + 1 .. Len(o) : o[i] = x
        BY <1>2
      <4>2. i - k \in 1 .. Len(wire[w]) /\ k + (i - k) = i
        BY <1>1, <3>1
      <4>3. wire[w][i - k] = x
        BY <3>1, <4>1, <4>2
      <4> QED
        BY <1>1, <4>2, <4>3 DEF Range
    <3> QED
      BY <3>2
  <2>2. CASE link[w] # "up"
    <3>1. Len(o) = 0 /\ k = 0
      BY <2>2 DEF WorkerInv, PhaseInv
    <3> QED
      BY <1>2, <3>1
  <2> QED
    BY <2>1, <2>2
<1> QED
  BY <1>3, <1>4, <1>5

\* What was not settled, and nothing else, returns to the queue.
LEMMA Returned ==
  ASSUME TypeOK, NEW w \in Workers, NEW n \in 0 .. Len(outstanding[w]), EndConsumer(w, n)
  PROVE  /\ ready' \subseteq ready \cup Range(outstanding[w]) /\ outstanding'[w] = <<>> /\ ~consuming'[w]
<1>1. outstanding[w] \in Seq(Msgs)
  BY DEF TypeOK
<1> DEFINE rest == Range(SubSeq(outstanding[w], n + 1, Len(outstanding[w])))
<1>2. rest \subseteq Range(outstanding[w])
  <2>1. \A x \in rest : \E i \in n + 1 .. Len(outstanding[w]) : outstanding[w][i] = x
    BY <1>1, RestFacts
  <2>2. \A i \in n + 1 .. Len(outstanding[w]) : i \in 1 .. Len(outstanding[w])
    BY <1>1
  <2> QED
    BY <1>1, <2>1, <2>2, RangeFacts
<1>3. ready' = ready \cup rest
  BY DEF EndConsumer
<1> QED
  BY <1>2, <1>3, EndConsumerFacts


\* A consumer that goes, with its link or its channel.
LEMMA ConsumerGone ==
  ASSUME TypeOK, NEW w \in Workers, WorkerInv(w), LinkLost(w) \/ CloseChannel(w)
  PROVE  ready' \subseteq ready \cup Range(outstanding[w]) /\ outstanding'[w] = <<>> /\ ~consuming'[w]
<1>1. 0 \in 0 .. Len(outstanding[w]) /\ acks[w] \in 0 .. Len(outstanding[w])
  <2>1. outstanding[w] \in Seq(Msgs)
    BY DEF TypeOK
  <2> QED
    BY <2>1, LenProperties, AcksFew
<1>2. EndConsumer(w, 0) \/ EndConsumer(w, acks[w])
  BY DEF LinkLost, CloseChannel
<1> QED
  BY <1>1, <1>2, Returned

\* A message that is settled goes, and no other comes.
LEMMA AckShrinks ==
  ASSUME TypeOK, NEW w \in Workers, WorkerInv(w), BrokerAck(w)
  PROVE  Range(outstanding'[w]) \subseteq Range(outstanding[w])
<1>1. acks[w] > 0 /\ outstanding'[w] = Tail(outstanding[w])
  BY DEF BrokerAck, TypeOK
<1>2. outstanding[w] \in Seq(Msgs) /\ Len(outstanding[w]) > 0
  BY <1>1, AcksFew, GetNumIsPositive, SMTT(30) DEF TypeOK
<1> DEFINE t == Tail(outstanding[w])
<1>3. /\ t \in Seq(Msgs) /\ Len(t) = Len(outstanding[w]) - 1
      /\ \A i \in 1 .. Len(outstanding[w]) - 1 : t[i] = outstanding[w][i + 1]
  BY <1>2
<1> HIDE DEF t
<1>4. ASSUME NEW x \in Range(t) PROVE x \in Range(outstanding[w])
  <2>1. PICK i \in 1 .. Len(t) : t[i] = x
    BY <1>3, RangeFacts
  <2>2. i + 1 \in 1 .. Len(outstanding[w]) /\ outstanding[w][i + 1] = x
    BY <1>2, <1>3, <2>1
  <2> QED
    BY <1>2, <2>2, RangeFacts
<1> QED
  BY <1>1, <1>4 DEF t

\* A step that leaves what the pass of w has seen alone, or forgets it.
LEMMA SameSeen ==
  ASSUME NEW w \in Workers, UniqueInv, IsInjective(batch'[w]), IsInjective(wire'[w]),
         Range(batch'[w]) \cap Range(wire'[w]) = {}, Seen(w)' \subseteq Seen(w),
         published' = published, Range(delivered') \subseteq 1 .. published,
         ready' \cup Range(outstanding'[w]) \subseteq ready \cup Range(outstanding[w]),
         consuming'[w] => (consuming[w] /\ ready' \subseteq ready) \/ Seen(w) = {}
  PROVE  UniqueKept(w)
<1>1. OwnInv(w)'
  BY DEF UniqueInv, OwnInv
<1>2. \A u \in Workers \ {w} : consuming'[w] => Seen(w)' \cap Range(outstanding[u]) = {}
  BY DEF UniqueInv, Cross
<1> QED
  BY <1>1, <1>2 DEF UniqueKept

LEMMA BrokerDeliverUnique ==
  ASSUME TypeOK, \A u \in Workers : WorkerInv(u), UniqueInv, NEW w \in Workers, BrokerDeliver(w)
  PROVE  UniqueKept(w)
<1>1. PICK first \in ready :
        /\ ready' = ready \ {first}
        /\ outstanding' = [outstanding EXCEPT ![w] = Append(@, first)]
        /\ wire' = [wire EXCEPT ![w] = Append(@, first)]
  BY DEF BrokerDeliver
<1>2. consuming[w] /\ UNCHANGED <<published, batch, consuming, delivered>>
  BY DEF BrokerDeliver, clientVars
<1>3. /\ first \in Msgs /\ outstanding[w] \in Seq(Msgs) /\ wire[w] \in Seq(Msgs)
      /\ wire'[w] = Append(wire[w], first) /\ outstanding'[w] = Append(outstanding[w], first)
  BY <1>1 DEF TypeOK
<1>4. Range(wire'[w]) = Range(wire[w]) \cup {first} /\ Range(outstanding'[w]) = Range(outstanding[w]) \cup {first}
  BY <1>3, RangeFacts
<1>5. first \notin Seen(w) /\ first \in 1 .. published
  BY <1>2 DEF UniqueInv, OwnInv
<1>6. IsInjective(wire'[w])
  <2>1. first \notin Range(wire[w]) /\ IsInjective(wire[w])
    BY <1>5 DEF Seen, UniqueInv, OwnInv
  <2>2. <<>> \in Seq(Msgs) /\ IsInjective(<<>>) /\ Range(wire[w]) \cap Range(<<>>) = {}
    BY InjectiveEmpty, EmptyRange
  <2>3. IsInjective(Append(wire[w], first))
    BY <1>3, <2>1, <2>2, InjectiveFacts
  <2> QED
    BY <1>3, <2>3
<1>7. Seen(w)' = Seen(w) \cup {first}
  BY <1>2, <1>4 DEF Seen
<1>8. OwnInv(w)'
  <2>1. Range(batch'[w]) \cap Range(wire'[w]) = {}
    BY <1>2, <1>4, <1>5 DEF Seen, UniqueInv, OwnInv
  <2> QED
    BY <1>1, <1>2, <1>5, <1>6, <1>7, <2>1 DEF UniqueInv, OwnInv
\* What waits in the queue is unsettled nowhere.
<1>9. ASSUME NEW u \in Workers \ {w} PROVE Seen(w)' \cap Range(outstanding[u]) = {}
  <2>1. Seen(w) \cap Range(outstanding[u]) = {}
    BY <1>2 DEF UniqueInv, Cross
  <2>2. first \notin Range(outstanding[u])
    <3>1. CASE consuming[u]
      BY <3>1, UnsettledIsSeen DEF UniqueInv, OwnInv
    <3>2. CASE ~consuming[u]
      BY <3>2, EmptyRange DEF WorkerInv, PhaseInv
    <3> QED
      BY <3>1, <3>2
  <2> QED
    BY <1>7, <2>1, <2>2
<1> QED
  BY <1>1, <1>2, <1>4, <1>8, <1>9 DEF UniqueKept, UniqueInv

LEMMA ReceiveUnique ==
  ASSUME TypeOK, UniqueInv, NEW w \in Workers, Receive(w)
  PROVE  UniqueKept(w) /\ Seen(w)' = Seen(w)
<1> DEFINE first == Head(wire[w])
<1>1. /\ wire[w] # <<>> /\ batch'[w] = Append(batch[w], first) /\ wire'[w] = Tail(wire[w])
      /\ UNCHANGED <<published, ready, outstanding, consuming, delivered>>
      /\ wire[w] \in Seq(Msgs) /\ batch[w] \in Seq(Msgs)
  BY DEF Receive, TypeOK
<1>2. first \in Msgs
  BY <1>1
<1>3. IsInjective(wire[w]) /\ IsInjective(batch[w]) /\ Range(wire[w]) \cap Range(batch[w]) = {}
  BY DEF UniqueInv, OwnInv
<1>4. /\ IsInjective(Tail(wire[w])) /\ first \notin Range(Tail(wire[w]))
      /\ Range(wire[w]) = {first} \cup Range(Tail(wire[w]))
  BY <1>1, <1>3, InjectiveFacts
<1> HIDE DEF first
<1>5. Range(Append(batch[w], first)) = Range(batch[w]) \cup {first}
  BY <1>1, <1>2, RangeFacts
<1>6. IsInjective(Append(batch[w], first))
  <2>1. first \notin Range(batch[w]) /\ Range(batch[w]) \cap Range(wire[w]) = {}
    BY <1>3, <1>4
  <2> QED
    BY <1>1, <1>2, <1>3, <2>1, InjectiveFacts
<1>7. Seen(w)' = Seen(w)
  BY <1>1, <1>4, <1>5 DEF Seen
<1>8. Range(batch'[w]) \cap Range(wire'[w]) = {} /\ IsInjective(batch'[w]) /\ IsInjective(wire'[w])
  BY <1>1, <1>3, <1>4, <1>5, <1>6
<1> QED
  BY <1>1, <1>7, <1>8, SameSeen DEF UniqueInv

\* The channel closes, and the batch stays or goes.
LEMMA CloseUnique ==
  ASSUME TypeOK, UniqueInv, NEW w \in Workers, WorkerInv(w), CloseChannel(w), batch'[w] \in {batch[w], <<>>},
         UNCHANGED <<delivered, published>>
  PROVE  UniqueKept(w)
<1>1. /\ ready' \subseteq ready \cup Range(outstanding[w]) /\ outstanding'[w] = <<>> /\ ~consuming'[w]
      /\ wire'[w] = <<>>
  BY ConsumerGone, CloseChannelFacts
<1>2. /\ Range(wire'[w]) = {} /\ Range(outstanding'[w]) = {} /\ IsInjective(wire'[w])
      /\ IsInjective(batch'[w]) /\ Range(batch'[w]) \subseteq Range(batch[w])
  BY <1>1, EmptyRange, InjectiveEmpty DEF UniqueInv, OwnInv
<1>3. Seen(w)' \subseteq Seen(w)
  BY <1>2 DEF Seen
<1> QED
  BY <1>1, <1>2, <1>3, SameSeen DEF UniqueInv

LEMMA WorkerStepUnique ==
  ASSUME TypeOK, \A u \in Workers : WorkerInv(u), UniqueInv, NEW w \in Workers,
         BrokerDeliver(w) \/ BrokerAck(w) \/ LinkLost(w) \/ Pass(w)
  PROVE  UniqueKept(w)
<1> DEFINE Still == UNCHANGED <<published, wire, batch>>
<1>1. ASSUME Still
      PROVE  /\ Seen(w)' = Seen(w) /\ published' = published
             /\ IsInjective(batch'[w]) /\ IsInjective(wire'[w]) /\ Range(batch'[w]) \cap Range(wire'[w]) = {}
  BY <1>1 DEF Seen, UniqueInv, OwnInv
<1>2. CASE BrokerDeliver(w)
  BY <1>2, BrokerDeliverUnique
<1>3. CASE BrokerAck(w)
  <2>1. Still /\ UNCHANGED <<ready, consuming, delivered>> /\ Range(outstanding'[w]) \subseteq Range(outstanding[w])
    BY <1>3, AckShrinks DEF BrokerAck, clientVars
  <2> QED
    BY <1>1, <2>1, SameSeen DEF UniqueInv
<1>4. CASE LinkLost(w)
  <2>1. /\ Still /\ delivered' = delivered
        /\ ready' \subseteq ready \cup Range(outstanding[w]) /\ outstanding'[w] = <<>> /\ ~consuming'[w]
    BY <1>4, ConsumerGone DEF LinkLost, clientVars
  <2> QED
    BY <1>1, <2>1, EmptyRange, SameSeen DEF UniqueInv
<1>5. CASE Receive(w)
  BY <1>5, ReceiveUnique
<1>6. CASE AckFails(w) \/ ConsumeFails(w)
  BY <1>6, CloseUnique DEF AckFails, ConsumeFails
<1>7. CASE PassFails(w) \/ PassEnds(w)
  <2>1. CloseChannel(w) /\ batch'[w] = <<>> /\ UNCHANGED <<delivered, published>>
    BY <1>7 DEF PassFails, PassEnds, Disconnect, TypeOK
  <2> QED
    BY <2>1, CloseUnique
<1>8. CASE Consume(w)
  <2>1. pc[w] = "open" /\ Still /\ UNCHANGED <<ready, outstanding, delivered>>
    BY <1>8 DEF Consume, Goto
  <2>2. Seen(w) = {}
    BY <2>1, EmptyRange DEF WorkerInv, PhaseInv, Seen
  <2> QED
    BY <1>1, <2>1, <2>2, SameSeen DEF UniqueInv
<1>9. CASE Callback(w)
  <2>1. Still /\ UNCHANGED <<ready, outstanding, consuming>> /\ delivered' = delivered \o batch[w]
    BY <1>9 DEF Callback, brokerVars
  <2>2. Range(delivered') \subseteq 1 .. published
    <3>1. Range(delivered \o batch[w]) = Range(delivered) \cup Range(batch[w])
      <4>1. delivered \in Seq(Msgs) /\ batch[w] \in Seq(Msgs)
        BY DEF TypeOK
      <4> QED
        BY <4>1, RangeFacts
    <3> QED
      BY <2>1, <3>1 DEF UniqueInv, OwnInv, Seen
  <2> QED
    BY <1>1, <2>1, <2>2, SameSeen
<1>10. CASE Connect(w) \/ SetupFails(w) \/ Ack(w) \/ BatchFull(w) \/ Discard(w)
  <2>1. Still /\ UNCHANGED <<ready, outstanding, consuming, delivered>>
    BY <1>10 DEF Connect, SetupFails, Ack, BatchFull, Discard, brokerVars
  <2> QED
    BY <1>1, <2>1, SameSeen DEF UniqueInv
<1> QED
  BY <1>2, <1>3, <1>4, <1>5, <1>6, <1>7, <1>8, <1>9, <1>10 DEF Pass

LEMMA UniqueStep == IInv /\ UniqueInv /\ [Next]_vars => UniqueInv'
<1> SUFFICES ASSUME IInv, UniqueInv, [Next]_vars PROVE UniqueInv'
  OBVIOUS
<1>1. TypeOK /\ \A w \in Workers : WorkerInv(w)
  BY DEF IInv
<1>2. CASE Publish
  <2>1. /\ published' = published + 1 /\ ready' = ready \cup {published'}
        /\ UNCHANGED <<outstanding, wire, consuming, batch, delivered>> /\ published \in Nat
    BY <1>1, <1>2, BoundsAreNat DEF Publish, clientVars, TypeOK
  <2>2. /\ published' \notin 1 .. published /\ published' \in 1 .. published'
        /\ 1 .. published \subseteq 1 .. published'
    BY <2>1
  <2>3. ready' \cup Range(delivered') \subseteq 1 .. published'
    BY <2>1, <2>2 DEF UniqueInv
  <2>4. \A w \in Workers : Seen(w)' = Seen(w)
    BY <2>1 DEF Seen
  <2>5. ASSUME NEW w \in Workers PROVE OwnInv(w)'
    BY <2>1, <2>2, <2>4 DEF UniqueInv, OwnInv
  <2>6. \A w, u \in Workers : w # u => Cross(w, u)'
    BY <2>1, <2>4 DEF UniqueInv, Cross
  <2> QED
    BY <2>3, <2>5, <2>6 DEF UniqueInv
<1>3. ASSUME NEW w \in Workers, BrokerDeliver(w) \/ BrokerAck(w) \/ LinkLost(w) \/ Pass(w)
      PROVE  UniqueInv'
  <2>1. UniqueKept(w)
    BY <1>1, <1>3, WorkerStepUnique
  <2>2. OthersSame(w) /\ published' = published
    BY <1>1, <1>3, WorkerStepKeeps DEF Kept, LosesNothing
  <2>3. \A u \in Workers \ {w} : /\ Seen(u)' = Seen(u) /\ batch'[u] = batch[u] /\ wire'[u] = wire[u]
                                 /\ consuming'[u] = consuming[u] /\ outstanding'[u] = outstanding[u]
    BY <2>2 DEF OthersSame, Same, Seen
  <2>4. ready' \cup Range(delivered') \subseteq 1 .. published'
    <3>1. Range(outstanding[w]) \subseteq 1 .. published
      BY <1>1, UnsettledIsSeen DEF UniqueInv, OwnInv
    <3> QED
      BY <2>1, <2>2, <3>1 DEF UniqueKept, UniqueInv
  \* The queue and the consumer of w have nothing they had not between them.
  <2>5. ASSUME NEW u \in Workers \ {w}, consuming[u]
        PROVE  Seen(u) \cap (ready' \cup Range(outstanding'[w])) = {}
    <3>1. Seen(u) \cap ready = {} /\ Seen(u) \cap Range(outstanding[w]) = {}
      BY <2>5 DEF UniqueInv, OwnInv, Cross
    <3> QED
      BY <2>1, <3>1 DEF UniqueKept
  <2>6. ASSUME NEW u \in Workers PROVE OwnInv(u)'
    <3>1. CASE u = w
      BY <2>1, <3>1 DEF UniqueKept
    <3>2. CASE u # w
      BY <2>2, <2>3, <2>5, <3>2 DEF UniqueInv, OwnInv
    <3> QED
      BY <3>1, <3>2
  <2>7. ASSUME NEW u \in Workers, NEW v \in Workers, u # v PROVE Cross(u, v)'
    <3>1. CASE u = w
      BY <2>1, <2>3, <2>7, <3>1 DEF UniqueKept, Cross
    <3>2. CASE v = w
      BY <2>3, <2>5, <2>7, <3>2 DEF Cross
    <3>3. CASE u # w /\ v # w
      BY <2>3, <2>7, <3>3 DEF Cross, UniqueInv
    <3> QED
      BY <3>1, <3>2, <3>3
  <2> QED
    BY <2>4, <2>6, <2>7 DEF UniqueInv
<1>4. CASE UNCHANGED vars
  <2>1. UNCHANGED <<published, ready, outstanding, wire, consuming, batch, delivered>>
    BY <1>4 DEF vars, brokerVars, clientVars
  <2>2. \A w \in Workers : Seen(w)' = Seen(w)
    BY <2>1 DEF Seen
  <2> QED
    BY <2>1, <2>2 DEF UniqueInv, OwnInv, Cross
<1> QED
  BY <1>2, <1>3, <1>4 DEF Next

LEMMA UniqueInit == Init => UniqueInv
<1> SUFFICES ASSUME Init PROVE UniqueInv
  OBVIOUS
<1>1. \A w \in Workers : Seen(w) = {} /\ OwnInv(w)
  BY EmptyRange, InjectiveEmpty DEF Init, Seen, OwnInv
<1> QED
  BY <1>1, EmptyRange DEF Init, UniqueInv, Cross

LEMMA UniqueInvariance == Spec => []UniqueInv
BY Invariance, UniqueInit, UniqueStep, PTL DEF Spec

-----------------------------------------------------------------------------
(* Repeats.                                                                *)

\* What a worker has been sent and its callback has not been given.
Held(w) == IF pc[w] = "close" THEN {} ELSE Range(batch[w])
Mine(w) == Range(wire[w]) \cup Held(w)

\* A message is copied when a link is lost: its consumer's messages return to the
\* queue, and its pass still has them.  Copies wait in the queue, are with a
\* worker or have been given to the callback.
Given(m) == {i \in DOMAIN delivered : delivered[i] = m}
Holders(m) == {w \in Workers : m \in Mine(w)}
One(P) == IF P THEN 1 ELSE 0

RepeatInv ==
  \A m \in Msgs :
    /\ IsFiniteSet(Given(m)) /\ IsFiniteSet(Holders(m))
    /\ One(m \in ready) + Cardinality(Holders(m)) + Cardinality(Given(m)) <= 1 + losses

\* The copies that a step of w can move.
Copies(w, m) == One(m \in ready) + One(m \in Mine(w)) + Cardinality(Given(m))

\* A step of w makes no copy; the loss of its link makes one.
CopiesKept(w, m) ==
  IsFiniteSet(Given(m))' /\ Copies(w, m)' <= Copies(w, m) + (losses' - losses)

LEMMA GivenFacts ==
  ASSUME TypeOK, NEW m
  PROVE  /\ IsFiniteSet(Given(m)) /\ Cardinality(Given(m)) \in Nat /\ losses \in Nat
         /\ delivered' = delivered => Given(m)' = Given(m)
<1>1. Given(m) \in SUBSET (1 .. Len(delivered)) /\ Len(delivered) \in Nat
  BY DEF Given, TypeOK
<1>2. IsFiniteSet(1 .. Len(delivered))
  <2>1. 1 \in Int /\ Len(delivered) \in Int
    BY <1>1
  <2> QED
    BY <2>1, FS_Interval
<1>3. delivered' = delivered => Given(m)' = Given(m)
  BY DEF Given
<1>4. losses \in Nat
  BY DEF TypeOK
<1> QED
  BY <1>1, <1>2, <1>3, <1>4, FS_Subset, FS_CardinalityType

\* A step of w that delivers nothing and takes what it adds to the queue from
\* what w has not read.
LEMMA ReturnsOnly ==
  ASSUME TypeOK, NEW w \in Workers, OwnInv(w), NEW m \in Msgs, UNCHANGED <<delivered, losses>>,
         ready' \subseteq ready \cup Range(wire[w]), wire'[w] = <<>>, Held(w)' \subseteq Held(w)
  PROVE  CopiesKept(w, m)
<1>1. /\ Given(m)' = Given(m) /\ IsFiniteSet(Given(m)) /\ Cardinality(Given(m)) \in Nat
      /\ losses \in Nat
  BY GivenFacts
<1>2. Mine(w)' = Held(w)' /\ Mine(w) = Range(wire[w]) \cup Held(w) /\ Range(wire[w]) \cap Held(w) = {}
  BY EmptyRange DEF Mine, Held, OwnInv
<1>3. One(m \in ready)' + One(m \in Mine(w))' <= One(m \in ready) + One(m \in Mine(w))
  <2>1. CASE m \in Range(wire[w])
    BY <1>2, <2>1 DEF One
  <2>2. CASE m \notin Range(wire[w])
    BY <1>2, <2>2 DEF One
  <2> QED
    BY <2>1, <2>2
<1>4. One(m \in ready)' \in Nat /\ One(m \in Mine(w))' \in Nat /\ One(m \in ready) \in Nat /\ One(m \in Mine(w)) \in Nat
  BY DEF One
<1> QED
  BY <1>1, <1>3, <1>4 DEF CopiesKept, Copies

\* A step of w that delivers nothing and gets no message.
LEMMA StaysPut ==
  ASSUME TypeOK, NEW w \in Workers, NEW m \in Msgs, UNCHANGED <<delivered, losses>>,
         ready' = ready, Mine(w)' \subseteq Mine(w)
  PROVE  CopiesKept(w, m)
<1>1. /\ Given(m)' = Given(m) /\ IsFiniteSet(Given(m)) /\ Cardinality(Given(m)) \in Nat
      /\ losses \in Nat
  BY GivenFacts
<1>2. One(m \in ready)' = One(m \in ready) /\ One(m \in Mine(w))' <= One(m \in Mine(w))
      /\ One(m \in ready) \in Nat /\ One(m \in Mine(w)) \in Nat /\ One(m \in Mine(w))' \in Nat
  BY DEF One
<1> QED
  BY <1>1, <1>2 DEF CopiesKept, Copies

LEMMA BrokerDeliverCopies ==
  ASSUME TypeOK, NEW w \in Workers, NEW m \in Msgs, BrokerDeliver(w)
  PROVE  CopiesKept(w, m)
<1>1. PICK first \in ready :
        /\ ready' = ready \ {first}
        /\ wire' = [wire EXCEPT ![w] = Append(@, first)]
  BY DEF BrokerDeliver
<1>2. UNCHANGED <<pc, batch, losses, delivered>>
  BY DEF BrokerDeliver, clientVars
<1>3. Range(wire'[w]) = Range(wire[w]) \cup {first}
  <2>1. first \in Msgs /\ wire[w] \in Seq(Msgs) /\ wire'[w] = Append(wire[w], first)
    BY <1>1 DEF TypeOK
  <2> QED
    BY <2>1, RangeFacts
<1>4. Mine(w)' = Mine(w) \cup {first}
  BY <1>2, <1>3 DEF Mine, Held
<1>5. One(m \in ready)' + One(m \in Mine(w))' <= One(m \in ready) + One(m \in Mine(w))
  <2>1. CASE m = first
    BY <1>1, <1>4, <2>1 DEF One
  <2>2. CASE m # first
    BY <1>1, <1>4, <2>2 DEF One
  <2> QED
    BY <2>1, <2>2
<1>6. /\ Given(m)' = Given(m) /\ IsFiniteSet(Given(m)) /\ Cardinality(Given(m)) \in Nat
      /\ losses \in Nat
  BY <1>2, GivenFacts
<1>7. One(m \in ready)' \in Nat /\ One(m \in Mine(w))' \in Nat /\ One(m \in ready) \in Nat /\ One(m \in Mine(w)) \in Nat
  BY DEF One
<1> QED
  BY <1>2, <1>5, <1>6, <1>7 DEF CopiesKept, Copies

LEMMA LinkLostCopies ==
  ASSUME TypeOK, NEW w \in Workers, NEW m \in Msgs, LinkLost(w)
  PROVE  CopiesKept(w, m)
<1>1. losses' = losses + 1 /\ UNCHANGED <<wire, pc, batch, delivered>>
  BY DEF LinkLost, clientVars
<1>2. /\ Given(m)' = Given(m) /\ IsFiniteSet(Given(m)) /\ Cardinality(Given(m)) \in Nat
      /\ losses \in Nat
  BY <1>1, GivenFacts
<1>3. One(m \in Mine(w))' = One(m \in Mine(w)) /\ One(m \in ready)' <= One(m \in ready) + 1
      /\ One(m \in ready)' \in Nat /\ One(m \in ready) \in Nat /\ One(m \in Mine(w)) \in Nat
  BY <1>1 DEF Mine, Held, One
<1> QED
  BY <1>1, <1>2, <1>3 DEF CopiesKept, Copies

\* The places of one message in what was delivered and the batch after it.
LEMMA PlacesInConcat ==
  ASSUME NEW s \in Seq(Msgs), NEW b \in Seq(Msgs), IsInjective(b), NEW m \in Msgs
  PROVE  /\ m \notin Range(b) => {i \in DOMAIN (s \o b) : (s \o b)[i] = m} = {i \in DOMAIN s : s[i] = m}
         /\ m \in Range(b) => \E j \in Nat : /\ j \notin {i \in DOMAIN s : s[i] = m}
                                             /\ {i \in DOMAIN (s \o b) : (s \o b)[i] = m}
                                                  = {i \in DOMAIN s : s[i] = m} \cup {j}
<1> DEFINE c == s \o b
<1>1. /\ c \in Seq(Msgs) /\ Len(c) = Len(s) + Len(b) /\ Len(s) \in Nat /\ Len(b) \in Nat
      /\ \A i \in 1 .. Len(s) + Len(b) : c[i] = IF i <= Len(s) THEN s[i] ELSE b[i - Len(s)]
  BY ConcatProperties
<1> HIDE DEF c
<1>2. /\ DOMAIN c = 1 .. Len(s) + Len(b) /\ DOMAIN s = 1 .. Len(s) /\ DOMAIN b = 1 .. Len(b)
  BY <1>1
<1>3. ASSUME NEW i \in 1 .. Len(s) PROVE i \in DOMAIN c /\ c[i] = s[i]
  BY <1>1, <1>2
<1>4. ASSUME NEW i \in 1 .. Len(b) PROVE Len(s) + i \in DOMAIN c /\ c[Len(s) + i] = b[i]
  <2>1. Len(s) + i \in 1 .. Len(s) + Len(b) /\ ~(Len(s) + i <= Len(s)) /\ Len(s) + i - Len(s) = i
    BY <1>1
  <2> QED
    BY <1>1, <1>2, <2>1
<1>5. ASSUME NEW i \in DOMAIN c, i \notin 1 .. Len(s) PROVE i - Len(s) \in 1 .. Len(b) /\ i = Len(s) + (i - Len(s))
  BY <1>1, <1>2, <1>5
<1> DEFINE S == {i \in DOMAIN s : s[i] = m}
           C == {i \in DOMAIN c : c[i] = m}
<1>6. S \subseteq C
  BY <1>2, <1>3
<1>7. ASSUME m \notin Range(b) PROVE C = S
  <2>1. ASSUME NEW i \in C PROVE i \in S
    <3>1. CASE i \in 1 .. Len(s)
      BY <1>2, <1>3, <3>1
    <3>2. CASE i \notin 1 .. Len(s)
      <4>1. i - Len(s) \in 1 .. Len(b) /\ c[i] = b[i - Len(s)]
        BY <1>4, <1>5, <3>2
      <4>2. b[i - Len(s)] \in Range(b)
        BY <1>2, <4>1 DEF Range
      <4> QED
        BY <1>7, <4>1, <4>2
    <3> QED
      BY <3>1, <3>2
  <2> QED
    BY <1>6, <2>1
<1>8. ASSUME m \in Range(b)
      PROVE  \E j \in Nat : j \notin S /\ C = S \cup {j}
  <2>1. PICK k \in 1 .. Len(b) : b[k] = m
    BY <1>2, <1>8 DEF Range
  <2> DEFINE j == Len(s) + k
  <2>2. j \in C /\ j \notin S /\ j \in Nat
    <3>1. j \notin 1 .. Len(s) /\ j \in Nat
      BY <1>1
    <3> QED
      BY <1>2, <1>4, <2>1, <3>1
  <2>3. ASSUME NEW i \in C PROVE i \in S \cup {j}
    <3>1. CASE i \in 1 .. Len(s)
      BY <1>2, <1>3, <3>1
    <3>2. CASE i \notin 1 .. Len(s)
      <4>1. i - Len(s) \in 1 .. Len(b) /\ i = Len(s) + (i - Len(s)) /\ b[i - Len(s)] = m
        BY <1>4, <1>5, <3>2
      <4>2. i - Len(s) = k
        BY <1>2, <2>1, <4>1 DEF IsInjective
      <4> QED
        BY <4>1, <4>2
    <3> QED
      BY <3>1, <3>2
  <2> HIDE DEF j
  <2> QED
    BY <1>6, <2>2, <2>3
<1> QED
  BY <1>7, <1>8 DEF c

\* The callback is given the copy that the batch was.
LEMMA CallbackCopies ==
  ASSUME TypeOK, NEW w \in Workers, OwnInv(w), NEW m \in Msgs, Callback(w)
  PROVE  CopiesKept(w, m)
<1>1. /\ pc[w] = "return" /\ pc'[w] = "close" /\ delivered' = delivered \o batch[w]
      /\ UNCHANGED <<ready, wire, batch, losses>>
      /\ delivered \in Seq(Msgs) /\ batch[w] \in Seq(Msgs)
  BY DEF Callback, Goto, TypeOK, brokerVars
<1>2. Mine(w)' = Range(wire[w]) /\ Mine(w) = Range(wire[w]) \cup Range(batch[w])
      /\ Range(wire[w]) \cap Range(batch[w]) = {} /\ IsInjective(batch[w])
  BY <1>1 DEF Mine, Held, OwnInv
<1>3. IsFiniteSet(Given(m)) /\ Cardinality(Given(m)) \in Nat /\ losses \in Nat
  BY GivenFacts
<1>4. /\ m \notin Range(batch[w]) => Given(m)' = Given(m)
      /\ m \in Range(batch[w]) => \E j \in Nat : j \notin Given(m) /\ Given(m)' = Given(m) \cup {j}
  <2> DEFINE d == {i \in DOMAIN delivered : delivered[i] = m}
             e == {i \in DOMAIN (delivered \o batch[w]) : (delivered \o batch[w])[i] = m}
  <2>1. /\ m \notin Range(batch[w]) => e = d
        /\ m \in Range(batch[w]) => \E j \in Nat : j \notin d /\ e = d \cup {j}
    BY <1>1, <1>2, PlacesInConcat
  <2>2. Given(m) = d /\ Given(m)' = e
    BY <1>1 DEF Given
  <2> HIDE DEF d, e
  <2> QED
    BY <2>1, <2>2
<1>5. One(m \in ready)' = One(m \in ready) /\ One(m \in ready) \in Nat
  BY <1>1 DEF One
<1>6. CASE m \notin Range(batch[w])
  <2>1. Given(m)' = Given(m)
    BY <1>4, <1>6
  <2>2. One(m \in Mine(w))' = One(m \in Mine(w)) /\ One(m \in Mine(w)) \in Nat
    BY <1>2, <1>6 DEF One
  <2> QED
    BY <1>1, <1>3, <1>5, <2>1, <2>2 DEF CopiesKept, Copies
<1>7. CASE m \in Range(batch[w])
  <2>1. PICK j \in Nat : j \notin Given(m) /\ Given(m)' = Given(m) \cup {j}
    BY <1>4, <1>7
  <2>2. IsFiniteSet(Given(m)') /\ Cardinality(Given(m)') = Cardinality(Given(m)) + 1
    BY <1>3, <2>1, FS_AddElement, SMTT(30)
  <2>3. One(m \in Mine(w))' = 0 /\ One(m \in Mine(w)) = 1
    BY <1>2, <1>7 DEF One
  <2> QED
    BY <1>1, <1>3, <1>5, <2>2, <2>3 DEF CopiesKept, Copies
<1> QED
  BY <1>6, <1>7

LEMMA WorkerStepCopies ==
  ASSUME TypeOK, UniqueInv, NEW w \in Workers, WorkerInv(w), NEW m \in Msgs,
         BrokerDeliver(w) \/ BrokerAck(w) \/ LinkLost(w) \/ Pass(w)
  PROVE  CopiesKept(w, m)
<1>1. OwnInv(w)
  BY DEF UniqueInv
<1>2. CASE BrokerDeliver(w)
  BY <1>2, BrokerDeliverCopies
<1>3. CASE LinkLost(w)
  BY <1>3, LinkLostCopies
<1>4. CASE Callback(w)
  BY <1>1, <1>4, CallbackCopies
<1>5. CASE Receive(w)
  <2>1. Seen(w)' = Seen(w)
    BY <1>5, ReceiveUnique
  <2>2. pc[w] = "loop" /\ pc'[w] = "ack" /\ UNCHANGED <<ready, losses, delivered>>
    BY <1>5 DEF Receive, Goto, TypeOK
  <2>3. Mine(w)' = Mine(w)
    BY <2>1, <2>2 DEF Seen, Mine, Held
  <2> QED
    BY <2>2, <2>3, StaysPut
<1>6. CASE AckFails(w) \/ ConsumeFails(w) \/ PassFails(w) \/ PassEnds(w)
  <2>1. /\ pc[w] # "ack" \/ link[w] = "down"
        /\ CloseChannel(w) /\ UNCHANGED <<delivered, losses>>
    BY <1>6 DEF AckFails, ConsumeFails, PassFails, PassEnds, Disconnect, Goto
  <2>2. Held(w)' \subseteq Held(w)
    <3>1. CASE AckFails(w) \/ ConsumeFails(w)
      BY <3>1 DEF AckFails, ConsumeFails, Goto, Held, TypeOK
    <3>2. CASE PassFails(w) \/ PassEnds(w)
      <4>1. batch'[w] = <<>>
        BY <3>2 DEF PassFails, PassEnds, Disconnect, TypeOK
      <4> QED
        BY <4>1, EmptyRange DEF Held
    <3> QED
      BY <1>6, <3>1, <3>2
  <2> QED
    BY <1>1, <2>1, <2>2, ReturnedWasUnread, ReturnsOnly
<1>7. CASE BrokerAck(w) \/ Connect(w) \/ Consume(w) \/ SetupFails(w) \/ Ack(w) \/ BatchFull(w)
  <2>1. /\ UNCHANGED <<ready, wire, batch, losses, delivered>>
        /\ (pc'[w] = "close") <=> (pc[w] = "close")
    BY <1>7 DEF BrokerAck, Connect, Consume, SetupFails, Ack, BatchFull, Goto, TypeOK, brokerVars, clientVars
  <2>2. Mine(w)' = Mine(w)
    BY <2>1 DEF Mine, Held
  <2> QED
    BY <2>1, <2>2, StaysPut
<1>8. CASE Discard(w)
  <2>1. pc'[w] = "close" /\ UNCHANGED <<ready, wire, batch, losses, delivered>>
    BY <1>8 DEF Discard, Goto, TypeOK, brokerVars
  <2>2. Mine(w)' \subseteq Mine(w)
    BY <2>1 DEF Mine, Held
  <2> QED
    BY <2>1, <2>2, StaysPut
<1> QED
  BY <1>2, <1>3, <1>4, <1>5, <1>6, <1>7, <1>8 DEF Pass

\* The workers that hold a message, when w alone moves.
LEMMA HolderStep ==
  ASSUME NEW w \in Workers, OthersSame(w), NEW m, IsFiniteSet(Holders(m))
  PROVE  /\ IsFiniteSet(Holders(m)') /\ Cardinality(Holders(m)) \in Nat
         /\ Cardinality(Holders(m)') = Cardinality(Holders(m)) + One(m \in Mine(w))' - One(m \in Mine(w))
<1>1. \A u \in Workers \ {w} : Mine(u)' = Mine(u)
  BY DEF OthersSame, Same, Mine, Held
<1>2. Cardinality(Holders(m)) \in Nat
  BY FS_CardinalityType
<1>3. CASE (m \in Mine(w))' /\ m \notin Mine(w)
  <2>1. Holders(m)' = Holders(m) \cup {w} /\ w \notin Holders(m)
    BY <1>1, <1>3 DEF Holders
  <2>2. IsFiniteSet(Holders(m)') /\ Cardinality(Holders(m)') = Cardinality(Holders(m)) + 1
    BY <2>1, FS_AddElement
  <2> QED
    BY <1>2, <1>3, <2>2 DEF One
<1>4. CASE ~(m \in Mine(w))' /\ m \in Mine(w)
  <2>1. Holders(m)' = Holders(m) \ {w} /\ w \in Holders(m)
    BY <1>1, <1>4 DEF Holders
  <2>2. IsFiniteSet(Holders(m)') /\ Cardinality(Holders(m)') = Cardinality(Holders(m)) - 1
    BY <2>1, FS_RemoveElement
  <2> QED
    BY <1>2, <1>4, <2>2 DEF One
<1>5. CASE (m \in Mine(w))' <=> m \in Mine(w)
  <2>1. Holders(m)' = Holders(m)
    BY <1>1, <1>5 DEF Holders
  <2> QED
    BY <1>2, <1>5, <2>1 DEF One
<1> QED
  BY <1>3, <1>4, <1>5

LEMMA RepeatStep == IInv /\ UniqueInv /\ RepeatInv /\ [Next]_vars => RepeatInv'
<1> SUFFICES ASSUME IInv, UniqueInv, RepeatInv, [Next]_vars, NEW m \in Msgs
             PROVE  /\ IsFiniteSet(Given(m)') /\ IsFiniteSet(Holders(m)')
                    /\ One(m \in ready)' + Cardinality(Holders(m)') + Cardinality(Given(m)') <= 1 + losses'
  BY DEF RepeatInv
<1>1. TypeOK /\ losses \in Nat /\ \A w \in Workers : WorkerInv(w)
  BY DEF IInv, TypeOK
<1>2. /\ IsFiniteSet(Given(m)) /\ IsFiniteSet(Holders(m))
      /\ Cardinality(Given(m)) \in Nat /\ Cardinality(Holders(m)) \in Nat
      /\ One(m \in ready) \in Nat /\ One(m \in ready)' \in Nat
      /\ One(m \in ready) + Cardinality(Holders(m)) + Cardinality(Given(m)) <= 1 + losses
  BY FS_CardinalityType DEF RepeatInv, One
<1>3. CASE Publish
  <2>1. /\ published' = published + 1 /\ ready' = ready \cup {published'} /\ published \in Nat
        /\ UNCHANGED <<wire, pc, batch, delivered, losses>>
    BY <1>1, <1>3, BoundsAreNat DEF Publish, clientVars, TypeOK
  <2>2. Given(m)' = Given(m) /\ Holders(m)' = Holders(m)
    BY <2>1 DEF Given, Holders, Mine, Held
  <2>3. CASE m = published'
    <3>1. m \notin 1 .. published
      BY <2>1, <2>3
    <3>2. Given(m) = {} /\ Holders(m) = {}
      BY <3>1 DEF UniqueInv, OwnInv, Seen, Mine, Held, Given, Holders, Range
    <3>3. Cardinality({}) = 0 /\ One(m \in ready)' \in {0, 1}
      BY FS_EmptySet DEF One
    <3> QED
      BY <1>1, <1>2, <2>1, <2>2, <3>2, <3>3
  <2>4. CASE m # published'
    <3>1. One(m \in ready)' = One(m \in ready)
      BY <2>1, <2>4 DEF One
    <3> QED
      BY <1>2, <2>1, <2>2, <3>1
  <2> QED
    BY <2>3, <2>4
<1>4. ASSUME NEW w \in Workers, BrokerDeliver(w) \/ BrokerAck(w) \/ LinkLost(w) \/ Pass(w)
      PROVE  /\ IsFiniteSet(Given(m)') /\ IsFiniteSet(Holders(m)')
             /\ One(m \in ready)' + Cardinality(Holders(m)') + Cardinality(Given(m)') <= 1 + losses'
  <2>1. CopiesKept(w, m)
    BY <1>1, <1>4, WorkerStepCopies
  <2>2. OthersSame(w) /\ TypeOK'
    BY <1>1, <1>4, WorkerStepKeeps DEF Kept
  <2>3. /\ IsFiniteSet(Holders(m)')
        /\ Cardinality(Holders(m)') = Cardinality(Holders(m)) + One(m \in Mine(w))' - One(m \in Mine(w))
    BY <1>2, <2>2, HolderStep
  <2>4. IsFiniteSet(Given(m)') /\ Cardinality(Given(m)') \in Nat /\ losses' \in Nat
    BY <2>1, <2>2, FS_CardinalityType DEF CopiesKept, TypeOK
  <2>5. One(m \in Mine(w))' \in Nat /\ One(m \in Mine(w)) \in Nat
    BY DEF One
  <2>6. One(m \in ready)' + One(m \in Mine(w))' + Cardinality(Given(m)')
          <= One(m \in ready) + One(m \in Mine(w)) + Cardinality(Given(m)) + (losses' - losses)
    BY <2>1 DEF CopiesKept, Copies
  <2> QED
    BY <1>1, <1>2, <2>3, <2>4, <2>5, <2>6
<1>5. CASE UNCHANGED vars
  <2>1. UNCHANGED <<ready, wire, pc, batch, delivered, losses>>
    BY <1>5 DEF vars, brokerVars, clientVars
  <2>2. Given(m)' = Given(m) /\ Holders(m)' = Holders(m) /\ One(m \in ready)' = One(m \in ready)
    BY <2>1 DEF Given, Holders, Mine, Held, One
  <2> QED
    BY <1>2, <2>1, <2>2
<1> QED
  BY <1>3, <1>4, <1>5 DEF Next

LEMMA RepeatInit == Init => RepeatInv
<1> SUFFICES ASSUME Init, NEW m \in Msgs
             PROVE  /\ IsFiniteSet(Given(m)) /\ IsFiniteSet(Holders(m))
                    /\ One(m \in ready) + Cardinality(Holders(m)) + Cardinality(Given(m)) <= 1 + losses
  BY DEF RepeatInv
<1>1. Given(m) = {} /\ Holders(m) = {} /\ One(m \in ready) = 0 /\ losses = 0
  BY EmptyRange DEF Init, Given, Holders, Mine, Held, One
<1> QED
  BY <1>1, FS_EmptySet

LEMMA RepeatInvariance == Spec => []RepeatInv
BY Invariance, UniqueInvariance, RepeatInit, RepeatStep, PTL DEF Spec

\* Whatever the workers, the prefetch and the steps that fail: each link lost makes
\* at most one more delivery of a message (RabbitMQ_Adapter.cpp:376-406).
THEOREM OneRepeatALoss == Spec => []RepeatsNeedLosses
<1>1. TypeOK /\ RepeatInv => RepeatsNeedLosses
  <2> SUFFICES ASSUME TypeOK, RepeatInv, NEW m \in Msgs PROVE Cardinality(Given(m)) <= 1 + losses
    BY DEF RepeatsNeedLosses, Given
  <2>1. /\ Cardinality(Holders(m)) \in Nat /\ Cardinality(Given(m)) \in Nat /\ One(m \in ready) \in Nat
        /\ losses \in Nat
    BY FS_CardinalityType DEF RepeatInv, One, TypeOK
  <2> QED
    BY <2>1 DEF RepeatInv
<1>2. IInv => TypeOK
  BY DEF IInv
<1> QED
  BY Invariance, RepeatInvariance, <1>1, <1>2, PTL

\* While no link is lost no message is delivered twice, for any number of workers
\* and wherever their passes end (RabbitMQ_Adapter.cpp:384-405).
THEOREM AtMostOnce == Spec => [](losses = 0 => IsInjective(delivered))
<1>1. TypeOK /\ RepeatInv => (losses = 0 => IsInjective(delivered))
  <2> SUFFICES ASSUME TypeOK, RepeatInv, losses = 0,
                      NEW i \in DOMAIN delivered, NEW j \in DOMAIN delivered,
                      delivered[i] = delivered[j], i # j
               PROVE  FALSE
    BY DEF IsInjective
  <2> DEFINE m == delivered[i]
  <2>1. m \in Msgs /\ i \in Given(m) /\ j \in Given(m)
    BY DEF TypeOK, Given
  <2>2. /\ IsFiniteSet(Given(m)) /\ Cardinality(Given(m)) \in Nat /\ Cardinality(Given(m)) <= 1
        /\ Cardinality(Given(m)) # 0
    <3>1. /\ Cardinality(Holders(m)) \in Nat /\ Cardinality(Given(m)) \in Nat /\ One(m \in ready) \in Nat
          /\ IsFiniteSet(Given(m))
      BY <2>1, FS_CardinalityType DEF RepeatInv, One
    <3>2. Cardinality(Given(m)) # 0
      BY <2>1, <3>1, FS_EmptySet
    <3> QED
      BY <2>1, <3>1, <3>2 DEF RepeatInv
  <2>3. Cardinality(Given(m)) = 1
    BY <2>2
  <2>4. \E x : Given(m) = {x}
    BY <2>2, <2>3, FS_Singleton
  <2> QED
    BY <2>1, <2>4
<1>2. IInv => TypeOK
  BY DEF IInv
<1> QED
  BY Invariance, RepeatInvariance, <1>1, <1>2, PTL
-----------------------------------------------------------------------------
(* Publication order.                                                      *)

\* As with one worker: the passes of two do not overlap.
OnePassAtATime == \A w, u \in Workers : w # u => pc[w] = "start" \/ pc[u] = "start"

Ascending(s) == \A i, j \in 1 .. Len(s) : i < j => s[i] < s[j]

\* A pass is sent messages in order.  Of those it may be sent again, all that are
\* older than one it has seen it has seen as well; and while its consumer lives
\* the queue has newer ones only.
LineInv(w) ==
  /\ Ascending(batch[w]) /\ Ascending(wire[w])
  /\ \A x \in Range(batch[w]), y \in Range(wire[w]) : x < y
  /\ \A m \in ready \cup Range(outstanding[w]), x \in Seen(w) : m < x => m \in Seen(w)
  /\ consuming[w] => \A m \in ready, x \in Seen(w) : x < m

\* A message that may still be delivered is a repeat, or newer than all delivered.
Late(m) == \A d \in Range(delivered) : m \in Range(delivered) \/ d < m

Near(w) == ready \cup Range(outstanding[w]) \cup Seen(w)

OrderInv ==
  /\ OutOfOrderIsRepeat
  /\ ready \cup Range(delivered) \subseteq 1 .. published
  /\ \A m \in ready : Late(m)
  /\ \A w \in Workers : /\ LineInv(w) /\ Near(w) \subseteq 1 .. published
                        /\ \A m \in Near(w) : Late(m)

LEMMA AscendingFacts ==
  ASSUME NEW s \in Seq(Msgs), Ascending(s)
  PROVE  /\ \A e \in Msgs : (\A x \in Range(s) : x < e) => Ascending(Append(s, e))
         /\ s # <<>> => /\ Ascending(Tail(s)) /\ Range(s) = {Head(s)} \cup Range(Tail(s))
                        /\ \A y \in Range(Tail(s)) : Head(s) < y
<1>1. /\ Len(s) \in Nat /\ \A i \in 1 .. Len(s) : s[i] \in Msgs /\ s[i] \in Range(s)
      /\ \A x \in Range(s) : \E i \in 1 .. Len(s) : s[i] = x
  BY RangeFacts
<1>2. ASSUME NEW e \in Msgs, \A x \in Range(s) : x < e
      PROVE  Ascending(Append(s, e))
  <2>1. /\ Len(Append(s, e)) = Len(s) + 1 /\ Append(s, e)[Len(s) + 1] = e
        /\ \A i \in 1 .. Len(s) : Append(s, e)[i] = s[i]
    BY <1>2
  <2> DEFINE a == Append(s, e)
  <2> HIDE DEF a
  <2>2. ASSUME NEW i \in 1 .. Len(s) + 1, NEW j \in 1 .. Len(s) + 1, i < j
        PROVE  a[i] < a[j]
    <3>1. i \in 1 .. Len(s) /\ a[i] = s[i]
      BY <1>1, <2>1, <2>2 DEF a
    <3>2. CASE j = Len(s) + 1
      BY <1>1, <1>2, <2>1, <3>1, <3>2 DEF a
    <3>3. CASE j \in 1 .. Len(s)
      BY <2>1, <2>2, <3>1, <3>3 DEF a, Ascending
    <3> QED
      BY <1>1, <3>2, <3>3
  <2> QED
    BY <2>1, <2>2 DEF Ascending, a
<1>3. ASSUME s # <<>>
      PROVE  /\ Ascending(Tail(s)) /\ Range(s) = {Head(s)} \cup Range(Tail(s))
             /\ \A y \in Range(Tail(s)) : Head(s) < y
  <2> DEFINE t == Tail(s)
  <2>1. /\ t \in Seq(Msgs) /\ Len(t) = Len(s) - 1 /\ Len(s) > 0 /\ Head(s) = s[1]
        /\ \A i \in 1 .. Len(s) - 1 : t[i] = s[i + 1]
    BY <1>1, <1>3
  <2> HIDE DEF t
  <2>2. /\ \A i \in 1 .. Len(t) : t[i] \in Range(t)
        /\ \A x \in Range(t) : \E i \in 1 .. Len(t) : t[i] = x
    BY <2>1, RangeFacts
  <2>3. Ascending(t)
    <3>1. ASSUME NEW i \in 1 .. Len(t), NEW j \in 1 .. Len(t), i < j PROVE t[i] < t[j]
      <4>1. i + 1 \in 1 .. Len(s) /\ j + 1 \in 1 .. Len(s) /\ i + 1 < j + 1
        BY <1>1, <2>1, <3>1
      <4>2. t[i] = s[i + 1] /\ t[j] = s[j + 1]
        BY <2>1
      <4> QED
        BY <4>1, <4>2 DEF Ascending
    <3> QED
      BY <3>1 DEF Ascending
  <2>4. ASSUME NEW y \in Range(t) PROVE Head(s) < y /\ y \in Range(s)
    <3>1. PICK i \in 1 .. Len(t) : t[i] = y
      BY <2>2
    <3>2. i + 1 \in 1 .. Len(s) /\ 1 \in 1 .. Len(s) /\ 1 < i + 1 /\ y = s[i + 1]
      BY <1>1, <2>1, <3>1
    <3> QED
      BY <1>1, <2>1, <3>2 DEF Ascending
  <2>5. ASSUME NEW x \in Range(s) PROVE x = Head(s) \/ x \in Range(t)
    <3>1. PICK i \in 1 .. Len(s) : s[i] = x
      BY <1>1
    <3>2. CASE i = 1
      BY <2>1, <3>1, <3>2
    <3>3. CASE i # 1
      <4>1. i - 1 \in 1 .. Len(t) /\ t[i - 1] = s[i - 1 + 1] /\ i - 1 + 1 = i
        BY <1>1, <2>1, <3>3
      <4> QED
        BY <2>2, <3>1, <4>1
    <3> QED
      BY <3>2, <3>3
  <2>6. Head(s) \in Range(s)
    BY <1>1, <2>1
  <2> QED
    BY <2>3, <2>4, <2>5, <2>6 DEF t
<1> QED
  BY <1>2, <1>3

\* A pass that has seen nothing is in line.
LEMMA NothingSeen ==
  ASSUME NEW w \in Workers, batch'[w] = <<>>, wire'[w] = <<>>
  PROVE  LineInv(w)' /\ Seen(w)' = {}
<1>1. Len(<<>>) = 0 /\ 1 .. 0 = {}
  OBVIOUS
<1>2. Ascending(<<>>)
  BY <1>1 DEF Ascending
<1>3. Seen(w)' = {}
  BY EmptyRange DEF Seen
<1> QED
  BY <1>2, <1>3, EmptyRange DEF LineInv

\* A step of w that delivers nothing: w stays in line and no message comes near it.
LineKept(w) ==
  /\ LineInv(w)' /\ Near(w)' \subseteq Near(w) /\ ready' \subseteq Near(w)
  /\ UNCHANGED <<delivered, published>>

\* A step that leaves what a pass has seen alone.
LEMMA SameLine ==
  ASSUME NEW w \in Workers, LineInv(w), batch'[w] = batch[w], wire'[w] = wire[w],
         ready' \cup Range(outstanding'[w]) \subseteq ready \cup Range(outstanding[w]),
         consuming'[w] => (consuming[w] /\ ready' \subseteq ready) \/ Seen(w) = {}
  PROVE  LineInv(w)' /\ Near(w)' \subseteq Near(w) /\ ready' \subseteq Near(w)
<1>1. Seen(w)' = Seen(w)
  BY DEF Seen
<1> QED
  BY <1>1 DEF LineInv, Near

LEMMA BrokerDeliverInLine ==
  ASSUME TypeOK, NEW w \in Workers, WorkerInv(w), LineInv(w), BrokerDeliver(w)
  PROVE  LineKept(w)
<1>1. PICK first \in ready :
        /\ \A m \in ready : first <= m
        /\ ready' = ready \ {first}
        /\ outstanding' = [outstanding EXCEPT ![w] = Append(@, first)]
        /\ wire' = [wire EXCEPT ![w] = Append(@, first)]
  BY DEF BrokerDeliver
<1>2. /\ link[w] = "up" /\ consuming[w]
      /\ UNCHANGED <<published, batch, consuming, delivered>>
  BY DEF BrokerDeliver, clientVars
<1>3. /\ first \in Msgs /\ ready \subseteq Int /\ outstanding[w] \in Seq(Msgs) /\ wire[w] \in Seq(Msgs)
      /\ batch[w] \in Seq(Msgs) /\ Seen(w) \subseteq Int
  <2>1. /\ first \in Msgs /\ ready \subseteq Int /\ outstanding[w] \in Seq(Msgs) /\ wire[w] \in Seq(Msgs)
        /\ batch[w] \in Seq(Msgs)
    BY DEF TypeOK, Msgs
  <2>2. Range(batch[w]) \subseteq Msgs /\ Range(wire[w]) \subseteq Msgs
    BY <2>1, RangeFacts
  <2> QED
    BY <2>1, <2>2 DEF Seen, Msgs
<1>4. /\ wire'[w] = Append(wire[w], first) /\ outstanding'[w] = Append(outstanding[w], first)
      /\ Range(wire'[w]) = Range(wire[w]) \cup {first}
      /\ Range(outstanding'[w]) = Range(outstanding[w]) \cup {first}
  <2>1. wire'[w] = Append(wire[w], first) /\ outstanding'[w] = Append(outstanding[w], first)
    BY <1>1 DEF TypeOK
  <2> QED
    BY <1>3, <2>1, RangeFacts
<1>5. \A x \in Seen(w) : x < first
  BY <1>1, <1>2 DEF LineInv
<1>6. Ascending(batch'[w]) /\ Ascending(wire'[w])
  BY <1>2, <1>3, <1>4, <1>5, AscendingFacts DEF LineInv, Seen
<1>7. Seen(w)' = Seen(w) \cup {first}
  BY <1>2, <1>4 DEF Seen
<1>8. \A x \in Range(batch'[w]), y \in Range(wire'[w]) : x < y
  BY <1>2, <1>4, <1>5 DEF LineInv, Seen
<1>9. Range(outstanding[w]) \subseteq Seen(w)
  BY UnsettledIsSeen
<1>10. \A m \in ready' \cup Range(outstanding'[w]), x \in Seen(w)' : m < x => m \in Seen(w)'
  <2>1. \A m \in Range(outstanding'[w]) : m \in Seen(w)'
    BY <1>4, <1>7, <1>9
  <2>2. \A m \in ready', x \in Seen(w)' : ~(m < x)
    BY <1>1, <1>2, <1>3, <1>5, <1>7 DEF LineInv
  <2> QED
    BY <2>1, <2>2
<1>11. \A m \in ready', x \in Seen(w)' : x < m
  BY <1>1, <1>2, <1>3, <1>5, <1>7 DEF LineInv, Msgs
<1>12. LineInv(w)'
  BY <1>6, <1>8, <1>10, <1>11 DEF LineInv
<1> QED
  BY <1>1, <1>2, <1>4, <1>7, <1>12 DEF LineKept, Near

LEMMA ReceiveInLine ==
  ASSUME TypeOK, NEW w \in Workers, LineInv(w), Receive(w)
  PROVE  LineKept(w)
<1>1. /\ wire[w] # <<>> /\ wire[w] \in Seq(Msgs) /\ batch[w] \in Seq(Msgs) /\ Head(wire[w]) \in Msgs
      /\ batch'[w] = Append(batch[w], Head(wire[w])) /\ wire'[w] = Tail(wire[w])
      /\ UNCHANGED <<published, ready, outstanding, consuming, delivered>>
  BY DEF Receive, TypeOK
<1>2. /\ Ascending(Tail(wire[w])) /\ Range(wire[w]) = {Head(wire[w])} \cup Range(Tail(wire[w]))
      /\ \A y \in Range(Tail(wire[w])) : Head(wire[w]) < y
  BY <1>1, AscendingFacts DEF LineInv
<1>3. Range(batch'[w]) = Range(batch[w]) \cup {Head(wire[w])}
  BY <1>1, RangeFacts
<1>4. Ascending(batch'[w])
  BY <1>1, <1>2, AscendingFacts DEF LineInv
<1>5. Seen(w)' = Seen(w)
  BY <1>1, <1>2, <1>3 DEF Seen
<1>6. \A x \in Range(batch'[w]), y \in Range(wire'[w]) : x < y
  BY <1>1, <1>2, <1>3 DEF LineInv
<1>7. LineInv(w)'
  BY <1>1, <1>2, <1>4, <1>5, <1>6 DEF LineInv
<1> QED
  BY <1>1, <1>5, <1>7 DEF LineKept, Near

LEMMA CloseInLine ==
  ASSUME TypeOK, NEW w \in Workers, WorkerInv(w), LineInv(w), CloseChannel(w), batch'[w] \in {batch[w], <<>>},
         UNCHANGED <<delivered, published>>
  PROVE  LineKept(w)
<1>1. /\ ready' \subseteq ready \cup Range(outstanding[w]) /\ outstanding'[w] = <<>> /\ ~consuming'[w]
      /\ wire'[w] = <<>>
  BY ConsumerGone, CloseChannelFacts
<1>2. CASE batch'[w] = <<>>
  <2>1. LineInv(w)' /\ Seen(w)' = {}
    BY <1>1, <1>2, NothingSeen
  <2> QED
    BY <1>1, <2>1, EmptyRange DEF LineKept, Near
<1>3. CASE batch'[w] = batch[w]
  <2>1. Seen(w)' = Range(batch[w]) /\ Range(wire'[w]) = {} /\ Range(outstanding'[w]) = {}
    BY <1>1, <1>3, EmptyRange DEF Seen
  <2>2. Ascending(wire'[w])
    <3>1. Len(<<>>) = 0 /\ 1 .. 0 = {}
      OBVIOUS
    <3> QED
      BY <1>1, <3>1 DEF Ascending
  <2>3. ASSUME NEW m \in ready', NEW x \in Range(batch[w]), m < x PROVE m \in Range(batch[w])
    <3>1. m \in Seen(w)
      BY <1>1, <2>3 DEF LineInv, Seen
    <3>2. m \in Int /\ x \in Int
      <4>1. x \in Msgs /\ m \in Msgs
        <5>1. /\ batch[w] \in Seq(Msgs) /\ outstanding[w] \in Seq(Msgs) /\ ready \subseteq Msgs
          BY DEF TypeOK
        <5>2. Range(batch[w]) \subseteq Msgs /\ Range(outstanding[w]) \subseteq Msgs
          BY <5>1, RangeFacts
        <5> QED
          BY <1>1, <2>3, <5>1, <5>2
      <4> QED
        BY <4>1 DEF Msgs
    <3>3. CASE m \in Range(wire[w])
      <4>1. x < m
        BY <2>3, <3>3 DEF LineInv
      <4> QED
        BY <2>3, <3>2, <4>1
    <3> QED
      BY <3>1, <3>3 DEF Seen
  <2>4. LineInv(w)'
    BY <1>1, <1>3, <2>1, <2>2, <2>3 DEF LineInv
  <2> QED
    BY <1>1, <2>1, <2>4 DEF LineKept, Near, Seen
<1> QED
  BY <1>2, <1>3

\* Every step of a worker that is not its callback.
LEMMA WorkerStepInLine ==
  ASSUME TypeOK, NEW w \in Workers, WorkerInv(w), LineInv(w), ~Callback(w),
         BrokerDeliver(w) \/ BrokerAck(w) \/ LinkLost(w) \/ Pass(w)
  PROVE  LineKept(w)
<1>1. CASE BrokerDeliver(w)
  BY <1>1, BrokerDeliverInLine
<1>2. CASE BrokerAck(w)
  <2>1. UNCHANGED <<published, ready, wire, consuming, batch, delivered>>
    BY <1>2 DEF BrokerAck, clientVars
  <2> QED
    BY <1>2, <2>1, AckShrinks, SameLine DEF LineKept
<1>3. CASE LinkLost(w)
  <2>1. UNCHANGED <<published, wire, batch, delivered>>
    BY <1>3 DEF LinkLost, clientVars
  <2>2. ready' \subseteq ready \cup Range(outstanding[w]) /\ outstanding'[w] = <<>> /\ ~consuming'[w]
    BY <1>3, ConsumerGone
  <2> QED
    BY <2>1, <2>2, EmptyRange, SameLine DEF LineKept
<1>4. CASE Receive(w)
  BY <1>4, ReceiveInLine
<1>5. CASE AckFails(w) \/ ConsumeFails(w)
  BY <1>5, CloseInLine DEF AckFails, ConsumeFails
<1>6. CASE PassFails(w) \/ PassEnds(w)
  <2>1. CloseChannel(w) /\ batch'[w] = <<>> /\ UNCHANGED <<delivered, published>>
    BY <1>6 DEF PassFails, PassEnds, Disconnect, TypeOK
  <2> QED
    BY <2>1, CloseInLine
<1>7. CASE Consume(w)
  <2>1. /\ pc[w] = "open" /\ UNCHANGED <<published, ready, outstanding, wire, batch, delivered>>
    BY <1>7 DEF Consume, Goto
  <2>2. Seen(w) = {}
    BY <2>1, EmptyRange DEF WorkerInv, PhaseInv, Seen
  <2> QED
    BY <2>1, <2>2, SameLine DEF LineKept
<1>8. CASE Connect(w) \/ SetupFails(w) \/ Ack(w) \/ BatchFull(w) \/ Discard(w)
  <2>1. UNCHANGED <<published, ready, outstanding, wire, consuming, batch, delivered>>
    BY <1>8 DEF Connect, SetupFails, Ack, BatchFull, Discard, brokerVars
  <2> QED
    BY <2>1, SameLine DEF LineKept
<1> QED
  BY <1>1, <1>2, <1>3, <1>4, <1>5, <1>6, <1>7, <1>8 DEF Pass

\* A worker between two passes has seen nothing, and can only connect.
LEMMA IdleFacts ==
  ASSUME NEW w \in Workers, WorkerInv(w), pc[w] = "start"
  PROVE  /\ batch[w] = <<>> /\ wire[w] = <<>> /\ Near(w) = ready
         /\ (BrokerDeliver(w) \/ BrokerAck(w) \/ LinkLost(w) \/ Pass(w)) => ready' = ready /\ ~Callback(w)
<1>1. batch[w] = <<>> /\ wire[w] = <<>> /\ outstanding[w] = <<>> /\ link[w] = "none"
  BY DEF WorkerInv, PhaseInv
<1>2. Near(w) = ready
  BY <1>1, EmptyRange DEF Near, Seen
<1>3. ASSUME BrokerDeliver(w) \/ BrokerAck(w) \/ LinkLost(w) \/ Pass(w) PROVE ready' = ready /\ ~Callback(w)
  BY <1>1, <1>3 DEF BrokerDeliver, BrokerAck, LinkLost, Pass, Goto, Connect, Consume, SetupFails, Receive, Ack,
    AckFails, ConsumeFails, BatchFull, PassFails, Callback, Discard, PassEnds
<1> QED
  BY <1>1, <1>2, <1>3

\* The workers that do not step, while passes do not overlap.
LEMMA OthersInLine ==
  ASSUME NEW w \in Workers, OnePassAtATime, \A u \in Workers : WorkerInv(u) /\ LineInv(u), OthersSame(w),
         BrokerDeliver(w) \/ BrokerAck(w) \/ LinkLost(w) \/ Pass(w),
         NEW u \in Workers \ {w}
  PROVE  LineInv(u)' /\ Near(u)' \subseteq Near(u) \cup ready' /\ (pc[w] # "start" => Near(u)' = ready')
<1>1. Same(u)
  BY DEF OthersSame
<1>2. CASE pc[u] = "start"
  <2>1. outstanding[u] = <<>> /\ batch'[u] = <<>> /\ wire'[u] = <<>>
    BY <1>1, <1>2, IdleFacts DEF Same, WorkerInv, PhaseInv
  <2>2. LineInv(u)' /\ Seen(u)' = {}
    BY <2>1, NothingSeen
  <2>3. Near(u)' = ready'
    BY <1>1, <2>1, <2>2, EmptyRange DEF Near, Same
  <2> QED
    BY <2>2, <2>3
<1>3. CASE pc[u] # "start"
  <2>1. pc[w] = "start"
    BY <1>3 DEF OnePassAtATime
  <2>2. ready' = ready
    BY <2>1, IdleFacts
  <2> QED
    BY <1>1, <2>1, <2>2 DEF Same, LineInv, Near, Seen
<1> QED
  BY <1>2, <1>3

\* The callback of w: its batch is newer than all that was delivered, repeats
\* aside, and older than all it has not seen.
LEMMA CallbackInOrder ==
  ASSUME IInv, OrderInv, OnePassAtATime, NEW w \in Workers, Callback(w)
  PROVE  OrderInv'
<1>1. TypeOK /\ WorkerInv(w) /\ LineInv(w) /\ pc[w] # "start" /\ OutOfOrderIsRepeat
  BY DEF IInv, OrderInv, Callback, Goto
<1>2. /\ delivered' = delivered \o batch[w]
      /\ UNCHANGED <<published, ready, outstanding, wire, consuming, batch>>
  BY DEF Callback, brokerVars
<1> DEFINE D == Range(delivered)
           b == batch[w]
<1>3. b \in Seq(Msgs) /\ delivered \in Seq(Msgs) /\ Len(b) \in Nat /\ Len(delivered) \in Nat
  BY <1>1 DEF TypeOK
<1>4. /\ Range(delivered') = D \cup Range(b)
      /\ D \subseteq Msgs /\ Range(b) \subseteq Msgs
  BY <1>2, <1>3, RangeFacts
<1>5. \A u \in Workers : Near(u) \subseteq Near(w) /\ Near(u)' = Near(u) /\ Seen(u)' = Seen(u)
  <2>1. ASSUME NEW u \in Workers PROVE Near(u) \subseteq Near(w)
    <3>1. CASE u = w
      BY <3>1
    <3>2. CASE u # w
      <4>1. pc[u] = "start" /\ WorkerInv(u)
        BY <1>1, <3>2 DEF OnePassAtATime, IInv
      <4> QED
        BY <4>1, IdleFacts DEF Near
    <3> QED
      BY <3>1, <3>2
  <2> QED
    BY <1>2, <2>1 DEF Near, Seen
<1>6. ASSUME NEW m \in Near(w) PROVE Late(m)'
  <2>1. ASSUME NEW d \in Range(delivered'), m \notin Range(delivered') PROVE d < m
    <3>1. CASE d \in D
      <4>1. Late(m)
        BY DEF OrderInv
      <4> QED
        BY <1>4, <2>1, <3>1, <4>1 DEF Late
    <3>2. CASE d \in Range(b)
      <4>1. m \in Range(wire[w]) \/ m \in ready \cup Range(outstanding[w])
        BY <1>4, <2>1 DEF Near, Seen
      <4>2. CASE m \in Range(wire[w])
        BY <1>1, <3>2, <4>2 DEF LineInv
      <4>3. CASE m \in (ready \cup Range(outstanding[w])) \ Range(wire[w])
        <5>1. ~(m < d)
          BY <1>1, <1>4, <2>1, <3>2, <4>3 DEF LineInv, Seen
        <5>2. m \in Int /\ d \in Int /\ m # d
          <6>1. Near(w) \subseteq 1 .. published /\ published \in Int
            BY <1>1 DEF OrderInv, TypeOK
          <6> QED
            BY <1>4, <2>1, <3>2, <6>1 DEF Msgs
        <5> QED
          BY <5>1, <5>2
      <4> QED
        BY <4>1, <4>2, <4>3
    <3> QED
      BY <1>4, <2>1, <3>1, <3>2
  <2> QED
    BY <2>1 DEF Late
<1>7. OutOfOrderIsRepeat'
  <2> DEFINE c == delivered \o b
  <2>1. /\ c \in Seq(Msgs) /\ Len(c) = Len(delivered) + Len(b)
        /\ \A i \in 1 .. Len(delivered) + Len(b) :
             c[i] = IF i <= Len(delivered) THEN delivered[i] ELSE b[i - Len(delivered)]
    BY <1>3, ConcatProperties
  <2>2. DOMAIN c = 1 .. Len(delivered) + Len(b) /\ DOMAIN delivered = 1 .. Len(delivered)
    BY <1>3, <2>1
  <2> HIDE DEF c
  <2>3. ASSUME NEW i \in 1 .. Len(delivered), NEW m \in D, m < delivered[i]
        PROVE  \E k \in 1 .. i : delivered[k] = m
    <3>1. PICK k \in 1 .. Len(delivered) : delivered[k] = m
      BY <1>3, RangeFacts
    <3>2. CASE k <= i
      BY <1>3, <3>1, <3>2
    <3>3. CASE i < k
      BY <1>1, <2>2, <2>3, <3>1, <3>3 DEF OutOfOrderIsRepeat
    <3> QED
      BY <1>3, <3>2, <3>3
  <2>4. ASSUME NEW i \in DOMAIN c, NEW j \in DOMAIN c, i < j, c[j] < c[i]
        PROVE  \E k \in 1 .. i : c[k] = c[j]
    <3>1. CASE j <= Len(delivered)
      <4>1. i \in 1 .. Len(delivered) /\ c[i] = delivered[i] /\ j \in 1 .. Len(delivered) /\ c[j] = delivered[j]
        BY <1>3, <2>1, <2>2, <2>4, <3>1
      <4>2. delivered[j] \in D
        BY <1>3, <4>1, RangeFacts
      <4>3. PICK k \in 1 .. i : delivered[k] = c[j]
        BY <2>3, <2>4, <4>1, <4>2
      <4>4. k \in 1 .. Len(delivered) + Len(b) /\ k <= Len(delivered)
        BY <1>3, <4>1, <4>3
      <4> QED
        BY <2>1, <4>3, <4>4
    <3>2. CASE i <= Len(delivered) /\ Len(delivered) < j
      <4>1. /\ i \in 1 .. Len(delivered) /\ c[i] = delivered[i]
            /\ j - Len(delivered) \in 1 .. Len(b) /\ c[j] = b[j - Len(delivered)]
        BY <1>3, <2>1, <2>2, <3>2
      <4>2. delivered[i] \in D /\ c[j] \in Range(b) /\ c[j] \in Near(w)
        BY <1>3, <4>1, RangeFacts DEF Near, Seen
      <4>3. Late(c[j])
        BY <4>2 DEF OrderInv
      <4>4. c[j] \in D
        <5>1. c[j] \in D \/ c[i] < c[j]
          BY <4>1, <4>2, <4>3 DEF Late
        <5>2. c[i] \in Int /\ c[j] \in Int
          BY <1>4, <4>1, <4>2 DEF Msgs
        <5> QED
          BY <2>4, <5>1, <5>2
      <4>5. PICK k \in 1 .. i : delivered[k] = c[j]
        BY <2>3, <2>4, <4>1, <4>4
      <4>6. k \in 1 .. Len(delivered) + Len(b) /\ k <= Len(delivered)
        BY <1>3, <4>1, <4>5
      <4> QED
        BY <2>1, <4>5, <4>6
    <3>3. CASE Len(delivered) < i
      <4>1. /\ i - Len(delivered) \in 1 .. Len(b) /\ j - Len(delivered) \in 1 .. Len(b)
            /\ i - Len(delivered) < j - Len(delivered)
            /\ c[i] = b[i - Len(delivered)] /\ c[j] = b[j - Len(delivered)]
        BY <1>3, <2>1, <2>2, <2>4, <3>3
      <4>2. c[i] < c[j]
        BY <1>1, <4>1 DEF LineInv, Ascending
      <4>3. c[i] \in Int /\ c[j] \in Int
        <5>1. c[i] \in Msgs /\ c[j] \in Msgs
          BY <1>3, <4>1, ElementOfSeq
        <5> QED
          BY <5>1 DEF Msgs
      <4> QED
        BY <2>4, <4>2, <4>3
    <3> QED
      BY <1>3, <2>2, <3>1, <3>2, <3>3
  <2>5. delivered' = c
    BY <1>2 DEF c
  <2> QED
    BY <2>4, <2>5 DEF OutOfOrderIsRepeat
<1>8. \A u \in Workers : LineInv(u)'
  BY <1>2, <1>5 DEF OrderInv, LineInv
<1>9. ready' \cup Range(delivered') \subseteq 1 .. published'
  <2>1. Range(b) \subseteq Near(w)
    BY DEF Near, Seen
  <2> QED
    BY <1>2, <1>4, <2>1 DEF OrderInv
<1>10. ready \subseteq Near(w)
  BY DEF Near
<1>11. \A u \in Workers : Near(u)' \subseteq 1 .. published' /\ \A m \in Near(u)' : Late(m)'
  BY <1>2, <1>5, <1>6 DEF OrderInv
<1>12. \A m \in ready' : Late(m)'
  BY <1>2, <1>6, <1>10
<1> QED
  BY <1>7, <1>8, <1>9, <1>11, <1>12 DEF OrderInv

LEMMA OrderStep ==
  ASSUME IInv, OrderInv, OnePassAtATime, [Next]_vars
  PROVE  OrderInv'
<1>1. TypeOK /\ \A w \in Workers : WorkerInv(w) /\ LineInv(w)
  BY DEF IInv, OrderInv
<1>2. CASE Publish
  <2> DEFINE n == published + 1
  <2>1. /\ published' = n /\ ready' = ready \cup {n}
        /\ UNCHANGED <<outstanding, wire, consuming, batch, delivered>> /\ published \in Nat
    BY <1>1, <1>2, BoundsAreNat DEF Publish, clientVars, TypeOK
  <2>2. /\ 1 .. published \subseteq 1 .. published' /\ n \in 1 .. published'
        /\ \A x \in 1 .. published : x < n /\ ~(n < x)
    BY <2>1
  <2>3. \A w \in Workers : Seen(w)' = Seen(w) /\ Near(w)' = Near(w) \cup {n} /\ Seen(w) \subseteq 1 .. published
    BY <2>1 DEF Seen, Near, OrderInv
  <2>4. \A m \in 1 .. published : Late(m) => Late(m)'
    BY <2>1 DEF Late
  <2>5. \A m \in {n} : Late(m)'
    <3> HIDE DEF n
    <3>1. \A d \in Range(delivered') : d < n
      BY <2>1, <2>2 DEF OrderInv
    <3> QED
      BY <3>1 DEF Late
  <2>6. ASSUME NEW w \in Workers PROVE LineInv(w)'
    <3>1. \A m \in ready' \cup Range(outstanding'[w]), x \in Seen(w)' : m < x => m \in Seen(w)'
      BY <1>1, <2>1, <2>2, <2>3 DEF LineInv
    <3>2. consuming'[w] => \A m \in ready', x \in Seen(w)' : x < m
      BY <1>1, <2>1, <2>2, <2>3 DEF LineInv
    <3> QED
      BY <1>1, <2>1, <3>1, <3>2 DEF LineInv
  <2>7. OutOfOrderIsRepeat'
    BY <2>1 DEF OrderInv, OutOfOrderIsRepeat
  <2>8. ready' \cup Range(delivered') \subseteq 1 .. published'
    BY <2>1, <2>2 DEF OrderInv
  <2>9. \A m \in ready' : Late(m)'
    BY <2>1, <2>4, <2>5 DEF OrderInv
  <2>10. \A w \in Workers : Near(w)' \subseteq 1 .. published' /\ \A m \in Near(w)' : Late(m)'
    BY <2>2, <2>3, <2>4, <2>5 DEF OrderInv
  <2> QED
    BY <2>6, <2>7, <2>8, <2>9, <2>10 DEF OrderInv
<1>3. ASSUME NEW w \in Workers, BrokerDeliver(w) \/ BrokerAck(w) \/ LinkLost(w) \/ Pass(w)
      PROVE  OrderInv'
  <2>1. CASE Callback(w)
    BY <2>1, CallbackInOrder
  <2>2. CASE ~Callback(w)
    <3>1. LineKept(w)
      BY <1>1, <1>3, <2>2, WorkerStepInLine
    <3>2. OthersSame(w)
      BY <1>1, <1>3, WorkerStepKeeps DEF Kept
    <3>3. ASSUME NEW u \in Workers \ {w}
          PROVE  LineInv(u)' /\ Near(u)' \subseteq Near(u) \cup ready'
      BY <1>1, <1>3, <3>2, OthersInLine
    <3>4. UNCHANGED <<delivered, published>> /\ ready' \subseteq Near(w) /\ Near(w)' \subseteq Near(w) /\ LineInv(w)'
      BY <3>1 DEF LineKept
    <3>5. \A m : Late(m) => Late(m)'
      BY <3>4 DEF Late
    <3>6. \A u \in Workers : Near(u)' \subseteq Near(u) \cup Near(w)
      BY <3>3, <3>4
    <3>7. \A u \in Workers : Near(u)' \subseteq 1 .. published' /\ \A m \in Near(u)' : Late(m)'
      BY <3>4, <3>5, <3>6 DEF OrderInv
    <3>8. ready' \cup Range(delivered') \subseteq 1 .. published' /\ \A m \in ready' : Late(m)'
      BY <3>4, <3>5 DEF OrderInv
    <3>9. OutOfOrderIsRepeat'
      BY <3>4 DEF OrderInv, OutOfOrderIsRepeat
    <3> QED
      BY <3>3, <3>4, <3>7, <3>8, <3>9 DEF OrderInv
  <2> QED
    BY <2>1, <2>2
<1>4. CASE UNCHANGED vars
  <2>1. UNCHANGED <<published, ready, outstanding, wire, consuming, batch, delivered>>
    BY <1>4 DEF vars, brokerVars, clientVars
  <2>2. \A w \in Workers : Seen(w)' = Seen(w) /\ Near(w)' = Near(w)
    BY <2>1 DEF Seen, Near
  <2> QED
    BY <2>1, <2>2 DEF OrderInv, LineInv, Late, OutOfOrderIsRepeat
<1> QED
  BY <1>2, <1>3, <1>4 DEF Next

LEMMA OrderInit == Init => OrderInv
<1> SUFFICES ASSUME Init PROVE OrderInv
  OBVIOUS
<1>1. Range(delivered) = {} /\ DOMAIN delivered = {} /\ ready = {}
  BY EmptyRange DEF Init
<1>2. Ascending(<<>>)
  <2>1. Len(<<>>) = 0 /\ 1 .. 0 = {}
    OBVIOUS
  <2> QED
    BY <2>1 DEF Ascending
<1>3. \A w \in Workers : Near(w) = {} /\ LineInv(w)
  BY <1>2, EmptyRange DEF Init, Near, Seen, LineInv
<1> QED
  BY <1>1, <1>3 DEF OrderInv, OutOfOrderIsRepeat

\* As long as the passes over a queue do not overlap, what the callback gets out of
\* publication order it has been given before: failed passes, lost links and
\* batches thrown away repeat messages and lose them, they do not reorder them
\* (RabbitMQ_Adapter.cpp:376-406, RabbitMq.cpp:50-73).
THEOREM InOrder == Spec /\ []OnePassAtATime => []OutOfOrderIsRepeat
<1>1. OrderInv => OutOfOrderIsRepeat
  BY DEF OrderInv
<1>2. IInv /\ OrderInv /\ OnePassAtATime /\ [Next]_vars => OrderInv'
  BY OrderStep
<1> QED
  BY <1>1, <1>2, OrderInit, Invariance, PTL DEF Spec
=============================================================================
