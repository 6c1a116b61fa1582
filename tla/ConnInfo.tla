------------------------------ MODULE ConnInfo ------------------------------
(***************************************************************************)
(* m_conninfo: init copies it field by field (LibRabbitMq.h:50-60) while   *)
(* passes read it, without a lock.  A pass reads the four fields of the    *)
(* account to build its proxy, tests pfunCB once its batch is acknowledged, *)
(* and reads pfunCB and pCaller to call (RabbitMq.cpp:50, 66, 68).  C++    *)
(* fixes no order among the arguments of a call, so the model does not.    *)
(*                                                                         *)
(* The n-th call of init brings configuration n; 0 is what ConnInfo() sets, *)
(* with an uninitialised port.  Strings are assigned in place: one that is *)
(* being assigned reads Torn.  Port and pointers are words.                *)
(***************************************************************************)
EXTENDS Integers, Sequences

CONSTANTS
  Workers,
  MaxInits,     \* bound: calls of init
  HasCallback   \* the configurations whose pfunCB is not 0

ASSUME MaxInitsIsNat == MaxInits \in Nat
ASSUME CallbacksAreConfigs == HasCallback \subseteq 1 .. MaxInits

Unread == -2
Torn == -1
Values == Torn .. MaxInits

Strings == {"strServerAddress", "strUserName", "strPassword"}
Account == Strings \cup {"nPort"}

\* Mutant: pfunCB is assigned before pCaller.
Order_CallbackFirst ==
  <<"strServerAddress", "nPort", "strUserName", "strPassword", "pfunCB", "pCaller">>

\* Mutant: pCaller is forgotten.
Order_NoCaller ==
  <<"strServerAddress", "nPort", "strUserName", "strPassword", "strPassword", "pfunCB">>

\* The order of operator=.
Order == <<"strServerAddress", "nPort", "strUserName", "strPassword", "pCaller", "pfunCB">>

Fields == Account \cup {"pCaller", "pfunCB"}

VARIABLES
  m_conninfo,
  config,     \* calls of init that began
  copied,     \* fields the call in progress has assigned; all: none is in progress
  pc,
  account,    \* per worker: what it read for its proxy
  fn, arg,    \* what it read of pfunCB and pCaller to make its call
  seen,       \* history: pfunCB when it was tested
  since,      \* history: calls of init that had returned when the pass began
  overlap,    \* history: an assignment was made in the course of the pass
  late,       \* history: calls made to an earlier callback since init returned
  discards    \* history: since of each pass that threw its batch away

initVars == <<m_conninfo, config, copied>>
vars == <<initVars, pc, account, fn, arg, seen, since, overlap, late, discards>>

Busy == copied < Len(Order)

TypeOK ==
  /\ m_conninfo \in [Fields -> Values]
  /\ \A f \in Fields \ Strings : m_conninfo[f] # Torn
  /\ config \in 0 .. MaxInits
  /\ copied \in 0 .. Len(Order)
  /\ pc \in [Workers -> {"lookup", "build", "test", "args", "callback"}]
  /\ account \in [Workers -> [Account -> Values \cup {Unread}]]
  /\ fn \in [Workers -> Values \cup {Unread}] /\ arg \in [Workers -> Values \cup {Unread}]
  /\ seen \in [Workers -> Values]
  /\ since \in [Workers -> 0 .. MaxInits]
  /\ overlap \in [Workers -> BOOLEAN]
  /\ late \in [Workers -> Nat]
  /\ discards \subseteq 0 .. MaxInits

Init ==
  /\ m_conninfo = [f \in Fields |-> 0]
  /\ config = 0 /\ copied = Len(Order)
  /\ pc = [w \in Workers |-> "lookup"]
  /\ account = [w \in Workers |-> [f \in Account |-> Unread]]
  /\ fn = [w \in Workers |-> Unread] /\ arg = [w \in Workers |-> Unread]
  /\ seen = [w \in Workers |-> 0] /\ since = [w \in Workers |-> 0]
  /\ overlap = [w \in Workers |-> FALSE]
  /\ late = [w \in Workers |-> 0]
  /\ discards = {}

-----------------------------------------------------------------------------
(* init.                                                                   *)

\* Mutant: the callback is cleared before the others are copied.
InitBegin_Clears ==
  /\ ~Busy
  /\ config < MaxInits
  /\ config' = config + 1
  /\ copied' = 0
  /\ m_conninfo' = [m_conninfo EXCEPT !["pfunCB"] = 0]
  /\ overlap' = [w \in Workers |-> TRUE]
  /\ UNCHANGED <<pc, account, fn, arg, seen, since, late, discards>>

InitBegin ==
  /\ ~Busy
  /\ config < MaxInits
  /\ config' = config + 1
  /\ copied' = 0
  /\ overlap' = [w \in Workers |-> TRUE]
  /\ UNCHANGED <<m_conninfo, pc, account, fn, arg, seen, since, late, discards>>

Assign(value) ==
  /\ Busy
  /\ m_conninfo' = [m_conninfo EXCEPT ![Order[copied + 1]] = value]
  /\ UNCHANGED <<config, pc, account, fn, arg, seen, since, overlap, discards>>

\* Mutant: words are assigned piece by piece as well.
AssignBegin_Words == Assign(Torn) /\ UNCHANGED <<copied, late>>

AssignBegin ==
  /\ Assign(Torn)
  /\ Order[copied + 1] \in Strings
  /\ UNCHANGED <<copied, late>>

AssignEnd ==
  /\ Assign(config)
  /\ Order[copied + 1] \in Strings => m_conninfo[Order[copied + 1]] = Torn
  /\ copied' = copied + 1
  /\ late' = IF copied' = Len(Order) THEN [w \in Workers |-> 0] ELSE late

-----------------------------------------------------------------------------
(* A pass.                                                                 *)

Goto(w, from, to) ==
  /\ pc[w] = from
  /\ pc' = [pc EXCEPT ![w] = to]

Lookup(w) ==
  /\ Goto(w, "lookup", "build")
  /\ account' = [account EXCEPT ![w] = [f \in Account |-> Unread]]
  /\ since' = [since EXCEPT ![w] = IF Busy THEN config - 1 ELSE config]
  /\ overlap' = [overlap EXCEPT ![w] = Busy]
  /\ UNCHANGED <<initVars, fn, arg, seen, late, discards>>

\* An argument of the proxy's constructor.
ReadAccount(w, f) ==
  /\ pc[w] = "build" /\ account[w][f] = Unread
  /\ account' = [account EXCEPT ![w][f] = m_conninfo[f]]
  /\ UNCHANGED <<initVars, pc, fn, arg, seen, since, overlap, late, discards>>

\* Connect and consumer: an account that is not set, or was torn, lets nobody
\* in.
Consume(w) ==
  /\ Goto(w, "build", "test")
  /\ \A f \in Account : account[w][f] > 0
  /\ UNCHANGED <<initVars, account, fn, arg, seen, since, overlap, late, discards>>

PassFails(w) ==
  /\ Goto(w, "build", "lookup")
  /\ \A f \in Account : account[w][f] # Unread
  /\ UNCHANGED <<initVars, account, fn, arg, seen, since, overlap, late, discards>>

\* Mutant: the pointers a thread has read once are read no more.
Test_Cached(w) ==
  /\ seen' = [seen EXCEPT ![w] = m_conninfo["pfunCB"]]
  /\ IF m_conninfo["pfunCB"] \in HasCallback
     THEN Goto(w, "test", "args") /\ UNCHANGED discards
     ELSE Goto(w, "test", "lookup") /\ discards' = discards \cup {since[w]}
  /\ UNCHANGED <<initVars, account, fn, arg, since, overlap, late>>

\* The test for 0.  The batch is acknowledged, and lost if there is no callback.
Test(w) ==
  /\ seen' = [seen EXCEPT ![w] = m_conninfo["pfunCB"]]
  /\ fn' = [fn EXCEPT ![w] = Unread] /\ arg' = [arg EXCEPT ![w] = Unread]
  /\ IF m_conninfo["pfunCB"] \in HasCallback
     THEN Goto(w, "test", "args") /\ UNCHANGED discards
     ELSE Goto(w, "test", "lookup") /\ discards' = discards \cup {since[w]}
  /\ UNCHANGED <<initVars, account, since, overlap, late>>

ReadCallback(w) ==
  /\ pc[w] = "args" /\ fn[w] = Unread
  /\ fn' = [fn EXCEPT ![w] = m_conninfo["pfunCB"]]
  /\ UNCHANGED <<initVars, pc, account, arg, seen, since, overlap, late, discards>>

ReadCaller(w) ==
  /\ pc[w] = "args" /\ arg[w] = Unread
  /\ arg' = [arg EXCEPT ![w] = m_conninfo["pCaller"]]
  /\ UNCHANGED <<initVars, pc, account, fn, seen, since, overlap, late, discards>>

\* A call through a null pointer ends the program, and the behaviour.
Call(w) ==
  /\ Goto(w, "args", "callback")
  /\ fn[w] \in HasCallback /\ arg[w] # Unread
  /\ late' = IF ~Busy /\ fn[w] < config THEN [late EXCEPT ![w] = @ + 1] ELSE late
  /\ UNCHANGED <<initVars, account, fn, arg, seen, since, overlap, discards>>

PassEnds(w) ==
  /\ Goto(w, "callback", "lookup")
  /\ UNCHANGED <<initVars, account, fn, arg, seen, since, overlap, late, discards>>

init == InitBegin \/ AssignBegin \/ AssignEnd

consumerWorker(w) ==
  \/ Lookup(w) \/ Consume(w) \/ PassFails(w) \/ Test(w)
  \/ ReadCallback(w) \/ ReadCaller(w) \/ Call(w) \/ PassEnds(w)
  \/ \E f \in Account : ReadAccount(w, f)

Next == init \/ \E w \in Workers : consumerWorker(w)

Spec == Init /\ [][Next]_vars

-----------------------------------------------------------------------------
(* Safety.                                                                 *)

\* A pass in whose course init assigned nothing uses one configuration, the
\* latest: its account as a whole, its callback, and the pointer that goes with
\* it (LibRabbitMq.h:50-60, RabbitMq.cpp:50, 68).
QuietPassIsWhole ==
  \A w \in Workers :
    (pc[w] \in {"test", "args", "callback"} /\ ~overlap[w]) =>
      /\ \A f \in Account : account[w][f] = config
      /\ pc[w] = "callback" => fn[w] = config /\ arg[w] = config

\* pCaller is assigned before pfunCB, and tested before it is used: although
\* nothing is locked, the callback is never older than the one that was tested
\* and its argument never older either; the first init cannot be seen with a
\* callback and no argument (LibRabbitMq.h:56-57, RabbitMq.cpp:66-68).
CallerNotOlder ==
  \A w \in Workers : pc[w] \in {"args", "callback"} =>
    /\ fn[w] # Unread => fn[w] >= seen[w]
    /\ arg[w] # Unread => arg[w] >= seen[w]

\* Once init has returned, a thread calls an earlier callback at most once: the
\* caller may give up the old pCaller after that (RabbitMq.cpp:66-68).
LateOnce == \A w \in Workers : late[w] <= 1

\* As long as every configuration has a callback, a batch is thrown away only by
\* a pass that began before the first init had returned (RabbitMq.cpp:66).
DiscardNeedsNoCallback ==
  1 .. config \subseteq HasCallback => discards \subseteq {0}
=============================================================================
