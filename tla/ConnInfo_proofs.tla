-------------------------- MODULE ConnInfo_proofs --------------------------
(***************************************************************************)
(* Proofs about ConnInfo for any number of threads, calls of init and      *)
(* configurations with and without a callback.                             *)
(***************************************************************************)
EXTENDS ConnInfo, TLAPS

pfunCB == m_conninfo["pfunCB"]
pCaller == m_conninfo["pCaller"]

\* What init has assigned is of the configuration it brings; the words it has not
\* come to are of the one before.  pfunCB comes last, after pCaller.
FieldInv ==
  /\ ~Busy => \A f \in Fields : m_conninfo[f] = config
  /\ Busy => /\ config >= 1
             /\ copied >= 1 => m_conninfo["strServerAddress"] = config
             /\ copied >= 2 => m_conninfo["nPort"] = config
             /\ copied >= 3 => m_conninfo["strUserName"] = config
             /\ copied >= 4 => m_conninfo["strPassword"] = config
             /\ pCaller = (IF copied >= 5 THEN config ELSE config - 1)
             /\ pfunCB = config - 1

\* What a pass has read of the callback is no older than what it tested, and no
\* newer than what is there.
CallInv(w) ==
  /\ pc[w] # "lookup" => since[w] <= pfunCB
  /\ pc[w] \in {"args", "callback"} =>
       /\ 0 <= seen[w] /\ seen[w] <= pfunCB
       /\ fn[w] # Unread => seen[w] <= fn[w] /\ fn[w] <= pfunCB
       /\ arg[w] # Unread => seen[w] <= arg[w] /\ arg[w] <= pCaller

\* What a pass that init has not overlapped has read is the configuration there is.
QuietInv(w) ==
  /\ Busy => overlap[w]
  /\ (pc[w] # "lookup" /\ ~overlap[w]) =>
       /\ \A f \in Account : account[w][f] \in {Unread, config}
       /\ pc[w] # "build" => \A f \in Account : account[w][f] = config
       /\ pc[w] \in {"args", "callback"} => fn[w] \in {Unread, config} /\ arg[w] \in {Unread, config}
       /\ pc[w] = "callback" => fn[w] = config /\ arg[w] = config

\* A thread that made its late call has looked at pfunCB again before the next one.
LateInv(w) ==
  /\ late[w] <= 1
  /\ (~Busy /\ late[w] = 1 /\ pc[w] = "args") => fn[w] \in {Unread, config}

WorkerInv(w) == CallInv(w) /\ QuietInv(w) /\ LateInv(w)

IInv ==
  /\ TypeOK /\ FieldInv
  /\ \A w \in Workers : WorkerInv(w)
  /\ DiscardNeedsNoCallback

-----------------------------------------------------------------------------

LEMMA OrderFacts ==
  /\ Len(Order) = 6
  /\ Order[1] = "strServerAddress" /\ Order[2] = "nPort" /\ Order[3] = "strUserName"
  /\ Order[4] = "strPassword" /\ Order[5] = "pCaller" /\ Order[6] = "pfunCB"
BY DEF Order

LEMMA InitInv == Init => IInv
<1> SUFFICES ASSUME Init PROVE IInv
  OBVIOUS
<1>1. TypeOK
  <2>1. 0 \in Values /\ 0 \in 0 .. MaxInits /\ 0 # Torn /\ Unread \in Values \cup {Unread}
    BY MaxInitsIsNat DEF Values, Torn
  <2> QED
    BY <2>1, OrderFacts DEF Init, TypeOK
<1>2. ~Busy
  BY OrderFacts DEF Init, Busy
<1>3. FieldInv
  BY <1>2 DEF Init, FieldInv
<1>4. ASSUME NEW w \in Workers PROVE WorkerInv(w)
  BY <1>2 DEF Init, WorkerInv, CallInv, QuietInv, LateInv
<1>5. DiscardNeedsNoCallback
  BY DEF Init, DiscardNeedsNoCallback
<1> QED
  BY <1>1, <1>3, <1>4, <1>5 DEF IInv

-----------------------------------------------------------------------------
(* init.                                                                   *)

\* What every step leaves in order, seen from a thread that does not move.
Grows == pfunCB' >= pfunCB /\ pCaller' >= pCaller
Still(w) ==
  /\ pc'[w] = pc[w] /\ account'[w] = account[w] /\ fn'[w] = fn[w] /\ arg'[w] = arg[w]
  /\ seen'[w] = seen[w] /\ since'[w] = since[w]

LEMMA Numbers ==
  ASSUME TypeOK, FieldInv
  PROVE  /\ config \in Int /\ copied \in Int /\ MaxInits \in Nat
         /\ pfunCB \in 0 .. MaxInits /\ pCaller \in 0 .. MaxInits
         /\ pfunCB <= pCaller /\ pCaller <= config
         /\ ~Busy <=> copied = 6
         /\ copied \in 0 .. 6
         /\ pfunCB = (IF Busy THEN config - 1 ELSE config)
<1>1. /\ config \in 0 .. MaxInits /\ copied \in 0 .. 6 /\ MaxInits \in Nat
      /\ "pfunCB" \in Fields /\ "pCaller" \in Fields
  BY MaxInitsIsNat, OrderFacts DEF TypeOK, Fields
<1>2. Busy <=> copied < 6
  BY OrderFacts DEF Busy
<1>3. CASE Busy
  <2>1. config >= 1 /\ pfunCB = config - 1 /\ pCaller = (IF copied >= 5 THEN config ELSE config - 1)
    BY <1>3 DEF FieldInv
  <2> QED
    BY <1>1, <1>2, <1>3, <2>1
<1>4. CASE ~Busy
  <2>1. pfunCB = config /\ pCaller = config
    BY <1>1, <1>4 DEF FieldInv, pfunCB, pCaller
  <2> QED
    BY <1>1, <1>2, <1>4, <2>1
<1> QED
  BY <1>3, <1>4

LEMMA InitBeginStep ==
  ASSUME TypeOK, FieldInv, InitBegin
  PROVE  TypeOK' /\ FieldInv' /\ Grows /\ Busy' /\ config' = config + 1
<1>1. /\ ~Busy /\ config < MaxInits /\ config' = config + 1 /\ copied' = 0
      /\ overlap' = [w \in Workers |-> TRUE]
      /\ UNCHANGED <<m_conninfo, pc, account, fn, arg, seen, since, late, discards>>
  BY DEF InitBegin
<1>2. config \in Nat /\ config' \in 0 .. MaxInits /\ pfunCB = config /\ pCaller = config
  <2>1. "pfunCB" \in Fields /\ "pCaller" \in Fields
    BY DEF Fields
  <2> QED
    BY <1>1, <2>1, MaxInitsIsNat DEF TypeOK, FieldInv, pfunCB, pCaller
<1>3. Busy'
  BY <1>1, OrderFacts DEF Busy
<1>4. TypeOK'
  <2>1. 0 \in 0 .. Len(Order)
    BY OrderFacts
  <2> QED
    BY <1>1, <1>2, <2>1 DEF TypeOK
<1>5. pfunCB' = config /\ pCaller' = config
  BY <1>1, <1>2 DEF pfunCB, pCaller
<1>6. FieldInv'
  BY <1>1, <1>2, <1>3, <1>5 DEF FieldInv
<1> QED
  BY <1>1, <1>2, <1>3, <1>4, <1>5, <1>6 DEF Grows

LEMMA AssignBeginStep ==
  ASSUME TypeOK, FieldInv, AssignBegin
  PROVE  TypeOK' /\ FieldInv' /\ Grows /\ Busy
<1>1. /\ Busy /\ m_conninfo' = [m_conninfo EXCEPT ![Order[copied + 1]] = Torn]
      /\ Order[copied + 1] \in Strings
      /\ UNCHANGED <<config, copied, pc, account, fn, arg, seen, since, overlap, late, discards>>
  BY DEF AssignBegin, Assign
<1>2. /\ copied \in 0 .. 6 /\ config \in Nat /\ MaxInits \in Nat /\ Torn \in Values
  BY MaxInitsIsNat, OrderFacts DEF TypeOK, Values, Torn
<1>3. copied \in 0 .. 5
  BY <1>1, <1>2, OrderFacts DEF Busy
<1>4. Busy'
  BY <1>1 DEF Busy
<1>5. m_conninfo \in [Fields -> Values] /\ m_conninfo' \in [Fields -> Values]
  BY <1>1, <1>2 DEF TypeOK
<1>6. \A f \in Fields : f # Order[copied + 1] => m_conninfo'[f] = m_conninfo[f]
  BY <1>1, <1>5
<1>7. TypeOK'
  BY <1>1, <1>5, <1>6 DEF TypeOK
<1>8. copied \in {0, 2, 3}
  <2>1. copied # 1 /\ copied # 4 /\ copied # 5
    BY <1>1, OrderFacts DEF Strings
  <2> QED
    BY <1>3, <2>1
<1>9. FieldInv' /\ Grows
  <2>1. config >= 1 /\ pCaller = config - 1 /\ pfunCB = config - 1
    BY <1>1, <1>8 DEF FieldInv
  <2>2. {"strServerAddress", "nPort", "strUserName", "strPassword", "pCaller", "pfunCB"} \subseteq Fields
    BY DEF Fields, Account, Strings
  <2>3. pCaller' = pCaller /\ pfunCB' = pfunCB
    BY <1>6, <1>8, <2>2, OrderFacts DEF pCaller, pfunCB
  <2>4. CASE copied = 0
    BY <1>1, <1>2, <1>4, <2>1, <2>3, <2>4 DEF FieldInv, Grows
  <2>5. CASE copied = 2
    <3>1. /\ m_conninfo'["strServerAddress"] = m_conninfo["strServerAddress"]
          /\ m_conninfo'["nPort"] = m_conninfo["nPort"]
      BY <1>6, <2>2, <2>5, OrderFacts
    <3> QED
      BY <1>1, <1>2, <1>4, <2>1, <2>3, <2>5, <3>1 DEF FieldInv, Grows
  <2>6. CASE copied = 3
    <3>1. /\ m_conninfo'["strServerAddress"] = m_conninfo["strServerAddress"]
          /\ m_conninfo'["nPort"] = m_conninfo["nPort"]
          /\ m_conninfo'["strUserName"] = m_conninfo["strUserName"]
      BY <1>6, <2>2, <2>6, OrderFacts
    <3> QED
      BY <1>1, <1>2, <1>4, <2>1, <2>3, <2>6, <3>1 DEF FieldInv, Grows
  <2> QED
    BY <1>8, <2>4, <2>5, <2>6
<1> QED
  BY <1>1, <1>7, <1>9

LEMMA AssignEndStep ==
  ASSUME TypeOK, FieldInv, AssignEnd
  PROVE  TypeOK' /\ FieldInv' /\ Grows /\ Busy
<1>1. /\ Busy /\ m_conninfo' = [m_conninfo EXCEPT ![Order[copied + 1]] = config]
      /\ copied' = copied + 1
      /\ late' = IF copied' = Len(Order) THEN [w \in Workers |-> 0] ELSE late
      /\ UNCHANGED <<config, pc, account, fn, arg, seen, since, overlap, discards>>
  BY DEF AssignEnd, Assign
<1>2. /\ copied \in 0 .. 6 /\ config \in Nat /\ MaxInits \in Nat
      /\ config \in Values /\ config # Torn
  BY MaxInitsIsNat, OrderFacts DEF TypeOK, Values, Torn
<1>3. copied \in 0 .. 5 /\ copied' \in 0 .. Len(Order)
  BY <1>1, <1>2, OrderFacts DEF Busy
<1>4. Busy' <=> copied + 1 < 6
  BY <1>1, OrderFacts DEF Busy
<1>5. m_conninfo \in [Fields -> Values] /\ m_conninfo' \in [Fields -> Values]
  BY <1>1, <1>2 DEF TypeOK
<1>6. Order[copied + 1] \in Fields
  <2>1. copied + 1 \in 1 .. 6
    BY <1>3
  <2>2. \A i \in 1 .. 6 : i = 1 \/ i = 2 \/ i = 3 \/ i = 4 \/ i = 5 \/ i = 6
    OBVIOUS
  <2>3. {"strServerAddress", "nPort", "strUserName", "strPassword", "pCaller", "pfunCB"} \subseteq Fields
    BY DEF Fields, Account, Strings
  <2> QED
    BY <2>1, <2>2, <2>3, OrderFacts
<1>7. /\ m_conninfo'[Order[copied + 1]] = config
      /\ \A f \in Fields : f # Order[copied + 1] => m_conninfo'[f] = m_conninfo[f]
  BY <1>1, <1>5, <1>6
<1>8. TypeOK'
  BY <1>1, <1>2, <1>3, <1>5, <1>7 DEF TypeOK
<1>9. /\ config >= 1 /\ pfunCB = config - 1
      /\ copied >= 1 => m_conninfo["strServerAddress"] = config
      /\ copied >= 2 => m_conninfo["nPort"] = config
      /\ copied >= 3 => m_conninfo["strUserName"] = config
      /\ copied >= 4 => m_conninfo["strPassword"] = config
      /\ pCaller = (IF copied >= 5 THEN config ELSE config - 1)
  BY <1>1 DEF FieldInv
<1>10. {"strServerAddress", "nPort", "strUserName", "strPassword", "pCaller", "pfunCB"} \subseteq Fields
       /\ Fields \subseteq {"strServerAddress", "nPort", "strUserName", "strPassword", "pCaller", "pfunCB"}
  BY DEF Fields, Account, Strings
<1>11. FieldInv' /\ Grows
  <2>1. CASE copied = 0
    <3>1. /\ m_conninfo'["strServerAddress"] = config
          /\ m_conninfo'["pCaller"] = m_conninfo["pCaller"] /\ m_conninfo'["pfunCB"] = m_conninfo["pfunCB"]
      BY <1>7, <1>10, <2>1, OrderFacts
    <3> QED
      BY <1>1, <1>2, <1>4, <1>9, <2>1, <3>1 DEF FieldInv, Grows, pCaller, pfunCB
  <2>2. CASE copied = 1
    <3>1. /\ m_conninfo'["strServerAddress"] = m_conninfo["strServerAddress"] /\ m_conninfo'["nPort"] = config
          /\ m_conninfo'["pCaller"] = m_conninfo["pCaller"] /\ m_conninfo'["pfunCB"] = m_conninfo["pfunCB"]
      BY <1>7, <1>10, <2>2, OrderFacts
    <3> QED
      BY <1>1, <1>2, <1>4, <1>9, <2>2, <3>1 DEF FieldInv, Grows, pCaller, pfunCB
  <2>3. CASE copied = 2
    <3>1. /\ m_conninfo'["strServerAddress"] = m_conninfo["strServerAddress"]
          /\ m_conninfo'["nPort"] = m_conninfo["nPort"] /\ m_conninfo'["strUserName"] = config
          /\ m_conninfo'["pCaller"] = m_conninfo["pCaller"] /\ m_conninfo'["pfunCB"] = m_conninfo["pfunCB"]
      BY <1>7, <1>10, <2>3, OrderFacts
    <3> QED
      BY <1>1, <1>2, <1>4, <1>9, <2>3, <3>1 DEF FieldInv, Grows, pCaller, pfunCB
  <2>4. CASE copied = 3
    <3>1. /\ m_conninfo'["strServerAddress"] = m_conninfo["strServerAddress"]
          /\ m_conninfo'["nPort"] = m_conninfo["nPort"]
          /\ m_conninfo'["strUserName"] = m_conninfo["strUserName"] /\ m_conninfo'["strPassword"] = config
          /\ m_conninfo'["pCaller"] = m_conninfo["pCaller"] /\ m_conninfo'["pfunCB"] = m_conninfo["pfunCB"]
      BY <1>7, <1>10, <2>4, OrderFacts
    <3> QED
      BY <1>1, <1>2, <1>4, <1>9, <2>4, <3>1 DEF FieldInv, Grows, pCaller, pfunCB
  <2>5. CASE copied = 4
    <3>1. /\ m_conninfo'["strServerAddress"] = m_conninfo["strServerAddress"]
          /\ m_conninfo'["nPort"] = m_conninfo["nPort"]
          /\ m_conninfo'["strUserName"] = m_conninfo["strUserName"]
          /\ m_conninfo'["strPassword"] = m_conninfo["strPassword"]
          /\ m_conninfo'["pCaller"] = config /\ m_conninfo'["pfunCB"] = m_conninfo["pfunCB"]
      BY <1>7, <1>10, <2>5, OrderFacts
    <3> QED
      BY <1>1, <1>2, <1>4, <1>9, <2>5, <3>1 DEF FieldInv, Grows, pCaller, pfunCB
  <2>6. CASE copied = 5
    <3>1. /\ m_conninfo'["strServerAddress"] = config /\ m_conninfo'["nPort"] = config
          /\ m_conninfo'["strUserName"] = config /\ m_conninfo'["strPassword"] = config
          /\ m_conninfo'["pCaller"] = config /\ m_conninfo'["pfunCB"] = config
      BY <1>7, <1>9, <1>10, <2>6, OrderFacts DEF pCaller
    <3>2. ~Busy'
      BY <1>4, <2>6
    <3>3. \A f \in Fields : m_conninfo'[f] = config'
      BY <1>1, <1>10, <3>1
    <3> QED
      BY <1>1, <1>2, <1>9, <2>6, <3>1, <3>2, <3>3 DEF FieldInv, Grows, pCaller, pfunCB
  <2> QED
    BY <1>3, <2>1, <2>2, <2>3, <2>4, <2>5, <2>6
<1> QED
  BY <1>1, <1>8, <1>11

LEMMA LocalTypes ==
  ASSUME TypeOK, NEW w \in Workers
  PROVE  fn[w] \in Int /\ arg[w] \in Int /\ seen[w] \in Int /\ since[w] \in Int
<1>1. /\ fn[w] \in Values \cup {Unread} /\ arg[w] \in Values \cup {Unread}
      /\ seen[w] \in Values /\ since[w] \in 0 .. MaxInits
  BY DEF TypeOK
<1>2. Values \subseteq Int /\ Unread \in Int
  BY MaxInitsIsNat DEF Values, Torn, Unread
<1>3. since[w] \in Int
  BY <1>1, MaxInitsIsNat
<1>4. fn[w] \in Int /\ arg[w] \in Int /\ seen[w] \in Int
  BY <1>1, <1>2, Zenon
<1> QED
  BY <1>3, <1>4

LEMMA InitKeepsWorker ==
  ASSUME TypeOK, TypeOK', FieldInv, NEW w \in Workers, WorkerInv(w), Grows,
         init
  PROVE  WorkerInv(w)'
<1>1. UNCHANGED <<pc, account, fn, arg, seen, since>>
  BY DEF init, InitBegin, AssignBegin, AssignEnd, Assign
<1>2. CallInv(w)'
  <2>1. /\ pfunCB \in Int /\ pCaller \in Int /\ pfunCB' \in Int /\ pCaller' \in Int
        /\ fn[w] \in Int /\ arg[w] \in Int /\ seen[w] \in Int /\ since[w] \in Int
    <3>1. "pfunCB" \in Fields /\ "pCaller" \in Fields /\ Values \subseteq Int /\ Unread \in Int
      BY MaxInitsIsNat DEF Fields, Values, Torn, Unread
    <3>2. m_conninfo \in [Fields -> Values] /\ m_conninfo' \in [Fields -> Values]
      BY DEF TypeOK
    <3>3. fn[w] \in Int /\ arg[w] \in Int /\ seen[w] \in Int /\ since[w] \in Int
      BY LocalTypes
    <3> QED
      BY <3>1, <3>2, <3>3 DEF pfunCB, pCaller
  <2> QED
    BY <1>1, <2>1 DEF WorkerInv, CallInv, Grows
<1>3. overlap'[w]
  <2>1. CASE InitBegin
    BY <2>1 DEF InitBegin
  <2>2. CASE AssignBegin \/ AssignEnd
    BY <2>2 DEF AssignBegin, AssignEnd, Assign, WorkerInv, QuietInv
  <2> QED
    BY <2>1, <2>2 DEF init
<1>4. QuietInv(w)'
  BY <1>3 DEF QuietInv
<1>5. LateInv(w)'
  <2>1. CASE InitBegin
    <3>1. late' = late /\ Busy'
      BY <2>1, InitBeginStep DEF InitBegin
    <3> QED
      BY <3>1 DEF WorkerInv, LateInv
  <2>2. CASE AssignBegin
    <3>1. late' = late /\ Busy'
      BY <2>2 DEF AssignBegin, Assign, Busy
    <3> QED
      BY <3>1 DEF WorkerInv, LateInv
  <2>3. CASE AssignEnd
    <3>1. copied' \in 0 .. Len(Order) /\ late' = (IF copied' = Len(Order) THEN [u \in Workers |-> 0] ELSE late)
      BY <2>3 DEF AssignEnd, TypeOK
    <3>2. CASE copied' = Len(Order)
      BY <3>1, <3>2 DEF LateInv
    <3>3. CASE copied' # Len(Order)
      <4>1. Busy' /\ late' = late
        BY <3>1, <3>3, OrderFacts DEF Busy
      <4> QED
        BY <4>1 DEF WorkerInv, LateInv
    <3> QED
      BY <3>2, <3>3
  <2> QED
    BY <2>1, <2>2, <2>3 DEF init
<1> QED
  BY <1>2, <1>4, <1>5 DEF WorkerInv

-----------------------------------------------------------------------------
(* A thread.                                                               *)

OthersStill(w) ==
  \A u \in Workers \ {w} : Still(u) /\ overlap'[u] = overlap[u] /\ late'[u] = late[u]

LEMMA StillKeeps ==
  ASSUME NEW u \in Workers, WorkerInv(u), UNCHANGED initVars, Still(u),
         overlap'[u] = overlap[u], late'[u] = late[u]
  PROVE  WorkerInv(u)'
<1>1. UNCHANGED <<m_conninfo, config, copied>>
  BY DEF initVars
<1>2. (Busy' <=> Busy) /\ pfunCB' = pfunCB /\ pCaller' = pCaller
  BY <1>1 DEF Busy, pfunCB, pCaller
<1>3. CallInv(u)'
  BY <1>1, <1>2 DEF WorkerInv, CallInv, Still
<1>4. QuietInv(u)'
  BY <1>1, <1>2 DEF WorkerInv, QuietInv, Still
<1>5. LateInv(u)'
  BY <1>1, <1>2 DEF WorkerInv, LateInv, Still
<1> QED
  BY <1>3, <1>4, <1>5 DEF WorkerInv

\* The types of what a pass can read.
LEMMA ReadTypes ==
  ASSUME TypeOK, FieldInv
  PROVE  /\ Values \subseteq Int /\ Unread \in Int /\ Unread < Torn /\ Unread \notin Values
         /\ \A f \in Account : m_conninfo[f] \in Values
         /\ pfunCB \in Values /\ pCaller \in Values /\ pfunCB # Unread /\ pCaller # Unread
         /\ m_conninfo["pfunCB"] \in Values /\ m_conninfo["pCaller"] \in Values
<1>1. "pfunCB" \in Fields /\ "pCaller" \in Fields /\ Account \subseteq Fields
  BY DEF Fields
<1>2. Values \subseteq Int /\ Unread \in Int /\ Unread < Torn /\ Unread \notin Values
  BY MaxInitsIsNat DEF Values, Torn, Unread
<1> QED
  BY <1>1, <1>2 DEF TypeOK, pfunCB, pCaller

Kept(w) == TypeOK' /\ WorkerInv(w)' /\ OthersStill(w) /\ DiscardNeedsNoCallback'

\* What a step of a thread leaves alone.
LEMMA Frame ==
  ASSUME UNCHANGED initVars
  PROVE  /\ UNCHANGED <<m_conninfo, config, copied>> /\ (Busy' <=> Busy)
         /\ pfunCB' = pfunCB /\ pCaller' = pCaller
BY DEF initVars, Busy, pfunCB, pCaller

LEMMA LookupKeeps ==
  ASSUME TypeOK, FieldInv, NEW w \in Workers, WorkerInv(w), DiscardNeedsNoCallback, Lookup(w)
  PROVE  Kept(w)
<1>1. /\ pc[w] = "lookup" /\ pc' = [pc EXCEPT ![w] = "build"]
      /\ account' = [account EXCEPT ![w] = [f \in Account |-> Unread]]
      /\ since' = [since EXCEPT ![w] = IF Busy THEN config - 1 ELSE config]
      /\ overlap' = [overlap EXCEPT ![w] = Busy]
      /\ UNCHANGED initVars /\ UNCHANGED <<fn, arg, seen, late, discards>>
  BY DEF Lookup, Goto
<1>2. UNCHANGED <<m_conninfo, config, copied>> /\ (Busy' <=> Busy) /\ pfunCB' = pfunCB /\ pCaller' = pCaller
  BY <1>1, Frame
<1>3. pfunCB = (IF Busy THEN config - 1 ELSE config) /\ pfunCB \in 0 .. MaxInits
  BY Numbers
<1>4. since' = [since EXCEPT ![w] = pfunCB]
  BY <1>1, <1>3
<1>5. /\ pc'[w] = "build" /\ account'[w] = [f \in Account |-> Unread] /\ since'[w] = pfunCB
      /\ overlap'[w] = Busy
  BY <1>1, <1>4 DEF TypeOK
<1>6. TypeOK'
  <2>1. Busy \in BOOLEAN
    BY DEF Busy
  <2> QED
    BY <1>1, <1>2, <1>3, <1>4, <2>1 DEF TypeOK
<1>7. OthersStill(w)
  BY <1>1, <1>4 DEF TypeOK, OthersStill, Still
<1>8. CallInv(w)'
  BY <1>2, <1>3, <1>5 DEF CallInv
<1>9. QuietInv(w)'
  BY <1>2, <1>5 DEF QuietInv
<1>10. LateInv(w)'
  BY <1>1, <1>5 DEF WorkerInv, LateInv
<1>11. DiscardNeedsNoCallback'
  BY <1>1, <1>2 DEF DiscardNeedsNoCallback
<1> QED
  BY <1>6, <1>7, <1>8, <1>9, <1>10, <1>11 DEF Kept, WorkerInv

LEMMA ReadAccountKeeps ==
  ASSUME TypeOK, FieldInv, NEW w \in Workers, WorkerInv(w), DiscardNeedsNoCallback,
         NEW f \in Account, ReadAccount(w, f)
  PROVE  Kept(w)
<1>1. /\ pc[w] = "build" /\ account' = [account EXCEPT ![w][f] = m_conninfo[f]]
      /\ UNCHANGED initVars /\ UNCHANGED <<pc, fn, arg, seen, since, overlap, late, discards>>
  BY DEF ReadAccount
<1>2. UNCHANGED <<m_conninfo, config, copied>> /\ (Busy' <=> Busy) /\ pfunCB' = pfunCB /\ pCaller' = pCaller
  BY <1>1, Frame
<1>3. m_conninfo[f] \in Values /\ f \in Fields
  BY ReadTypes DEF Fields
<1>4. /\ account'[w] = [account[w] EXCEPT ![f] = m_conninfo[f]]
      /\ account[w] \in [Account -> Values \cup {Unread}]
      /\ account' \in [Workers -> [Account -> Values \cup {Unread}]]
      /\ \A u \in Workers \ {w} : account'[u] = account[u]
  BY <1>1, <1>3 DEF TypeOK
<1>5. account'[w][f] = m_conninfo[f] /\ \A g \in Account \ {f} : account'[w][g] = account[w][g]
  BY <1>4
<1>6. TypeOK'
  BY <1>1, <1>2, <1>4 DEF TypeOK
<1>7. OthersStill(w)
  BY <1>1, <1>4 DEF OthersStill, Still
<1>8. CallInv(w)' /\ LateInv(w)'
  BY <1>1, <1>2 DEF WorkerInv, CallInv, LateInv
<1>9. QuietInv(w)'
  <2>1. ~overlap[w] => m_conninfo[f] = config
    BY <1>3 DEF WorkerInv, QuietInv, FieldInv
  <2>2. ~overlap[w] => \A g \in Account : account'[w][g] \in {Unread, config}
    BY <1>1, <1>5, <2>1 DEF WorkerInv, QuietInv
  <2> QED
    BY <1>1, <1>2, <2>2 DEF WorkerInv, QuietInv
<1>10. DiscardNeedsNoCallback'
  BY <1>1, <1>2 DEF DiscardNeedsNoCallback
<1> QED
  BY <1>6, <1>7, <1>8, <1>9, <1>10 DEF Kept, WorkerInv

LEMMA ConsumeKeeps ==
  ASSUME TypeOK, FieldInv, NEW w \in Workers, WorkerInv(w), DiscardNeedsNoCallback, Consume(w)
  PROVE  Kept(w)
<1>1. /\ pc[w] = "build" /\ pc' = [pc EXCEPT ![w] = "test"] /\ \A f \in Account : account[w][f] > 0
      /\ UNCHANGED initVars /\ UNCHANGED <<account, fn, arg, seen, since, overlap, late, discards>>
  BY DEF Consume, Goto
<1>2. UNCHANGED <<m_conninfo, config, copied>> /\ (Busy' <=> Busy) /\ pfunCB' = pfunCB /\ pCaller' = pCaller
  BY <1>1, Frame
<1>3. TypeOK' /\ OthersStill(w) /\ pc'[w] = "test"
  BY <1>1, <1>2 DEF TypeOK, OthersStill, Still
<1>4. CallInv(w)' /\ LateInv(w)'
  BY <1>1, <1>2, <1>3 DEF WorkerInv, CallInv, LateInv
<1>5. QuietInv(w)'
  <2>1. ~(Unread > 0)
    BY DEF Unread
  <2> QED
    BY <1>1, <1>2, <1>3, <2>1 DEF WorkerInv, QuietInv
<1>6. DiscardNeedsNoCallback'
  BY <1>1, <1>2 DEF DiscardNeedsNoCallback
<1> QED
  BY <1>3, <1>4, <1>5, <1>6 DEF Kept, WorkerInv

\* A pass that fails, or ends, is at its beginning again.
LEMMA LookupAgainKeeps ==
  ASSUME TypeOK, FieldInv, NEW w \in Workers, WorkerInv(w), DiscardNeedsNoCallback,
         PassFails(w) \/ PassEnds(w)
  PROVE  Kept(w)
<1>1. /\ pc' = [pc EXCEPT ![w] = "lookup"]
      /\ UNCHANGED initVars /\ UNCHANGED <<account, fn, arg, seen, since, overlap, late, discards>>
  BY DEF PassFails, PassEnds, Goto
<1>2. UNCHANGED <<m_conninfo, config, copied>> /\ (Busy' <=> Busy) /\ pfunCB' = pfunCB /\ pCaller' = pCaller
  BY <1>1, Frame
<1>3. TypeOK' /\ OthersStill(w) /\ pc'[w] = "lookup"
  BY <1>1, <1>2 DEF TypeOK, OthersStill, Still
<1>4. CallInv(w)' /\ LateInv(w)' /\ QuietInv(w)'
  BY <1>1, <1>2, <1>3 DEF WorkerInv, CallInv, LateInv, QuietInv
<1>5. DiscardNeedsNoCallback'
  BY <1>1, <1>2 DEF DiscardNeedsNoCallback
<1> QED
  BY <1>3, <1>4, <1>5 DEF Kept, WorkerInv

LEMMA TestKeeps ==
  ASSUME TypeOK, FieldInv, NEW w \in Workers, WorkerInv(w), DiscardNeedsNoCallback, Test(w)
  PROVE  Kept(w)
<1>1. /\ pc[w] = "test" /\ seen' = [seen EXCEPT ![w] = pfunCB]
      /\ fn' = [fn EXCEPT ![w] = Unread] /\ arg' = [arg EXCEPT ![w] = Unread]
      /\ UNCHANGED initVars /\ UNCHANGED <<account, since, overlap, late>>
      /\ \/ pfunCB \in HasCallback /\ pc' = [pc EXCEPT ![w] = "args"] /\ discards' = discards
         \/ /\ pfunCB \notin HasCallback /\ pc' = [pc EXCEPT ![w] = "lookup"]
            /\ discards' = discards \cup {since[w]}
  BY DEF Test, Goto, pfunCB
<1>2. UNCHANGED <<m_conninfo, config, copied>> /\ (Busy' <=> Busy) /\ pfunCB' = pfunCB /\ pCaller' = pCaller
  BY <1>1, Frame
<1>3. /\ pfunCB \in 0 .. MaxInits /\ pfunCB \in Values /\ pfunCB <= config /\ config \in Int
  BY Numbers, ReadTypes
<1>4. /\ seen'[w] = pfunCB /\ fn'[w] = Unread /\ arg'[w] = Unread /\ pc'[w] \in {"args", "lookup"}
      /\ since[w] \in 0 .. MaxInits
  BY <1>1 DEF TypeOK
<1>5. TypeOK'
  BY <1>1, <1>2, <1>3, <1>4 DEF TypeOK
<1>6. OthersStill(w)
  BY <1>1 DEF TypeOK, OthersStill, Still
<1>7. CallInv(w)'
  BY <1>1, <1>2, <1>3, <1>4 DEF WorkerInv, CallInv
<1>8. QuietInv(w)'
  BY <1>1, <1>2, <1>4 DEF WorkerInv, QuietInv
<1>9. LateInv(w)'
  BY <1>1, <1>2, <1>4 DEF WorkerInv, LateInv
<1>10. DiscardNeedsNoCallback'
  <2>1. SUFFICES ASSUME 1 .. config \subseteq HasCallback PROVE discards' \subseteq {0}
    BY <1>2 DEF DiscardNeedsNoCallback
  <2>2. discards \subseteq {0}
    BY <2>1 DEF DiscardNeedsNoCallback
  <2>3. CASE pfunCB \notin HasCallback
    <3>1. pfunCB = 0
      BY <1>3, <2>1, <2>3
    <3>2. since[w] = 0
      BY <1>1, <1>4, <3>1 DEF WorkerInv, CallInv
    <3> QED
      BY <1>1, <2>2, <3>2
  <2> QED
    BY <1>1, <2>2, <2>3
<1> QED
  BY <1>5, <1>6, <1>7, <1>8, <1>9, <1>10 DEF Kept, WorkerInv

LEMMA ReadCallbackKeeps ==
  ASSUME TypeOK, FieldInv, NEW w \in Workers, WorkerInv(w), DiscardNeedsNoCallback, ReadCallback(w)
  PROVE  Kept(w)
<1>1. /\ pc[w] = "args" /\ fn' = [fn EXCEPT ![w] = pfunCB]
      /\ UNCHANGED initVars /\ UNCHANGED <<pc, account, arg, seen, since, overlap, late, discards>>
  BY DEF ReadCallback, pfunCB
<1>2. UNCHANGED <<m_conninfo, config, copied>> /\ (Busy' <=> Busy) /\ pfunCB' = pfunCB /\ pCaller' = pCaller
  BY <1>1, Frame
<1>3. pfunCB \in Values /\ pfunCB \in Int /\ (~Busy => pfunCB = config)
  BY Numbers, ReadTypes
<1>4. fn'[w] = pfunCB /\ TypeOK' /\ OthersStill(w)
  BY <1>1, <1>2, <1>3 DEF TypeOK, OthersStill, Still
<1>5. CallInv(w)' /\ LateInv(w)'
  BY <1>1, <1>2, <1>3, <1>4 DEF WorkerInv, CallInv, LateInv
<1>6. QuietInv(w)'
  BY <1>1, <1>2, <1>3, <1>4 DEF WorkerInv, QuietInv
<1>7. DiscardNeedsNoCallback'
  BY <1>1, <1>2 DEF DiscardNeedsNoCallback
<1> QED
  BY <1>4, <1>5, <1>6, <1>7 DEF Kept, WorkerInv

LEMMA ReadCallerKeeps ==
  ASSUME TypeOK, FieldInv, NEW w \in Workers, WorkerInv(w), DiscardNeedsNoCallback, ReadCaller(w)
  PROVE  Kept(w)
<1>1. /\ pc[w] = "args" /\ arg' = [arg EXCEPT ![w] = pCaller]
      /\ UNCHANGED initVars /\ UNCHANGED <<pc, account, fn, seen, since, overlap, late, discards>>
  BY DEF ReadCaller, pCaller
<1>2. UNCHANGED <<m_conninfo, config, copied>> /\ (Busy' <=> Busy) /\ pfunCB' = pfunCB /\ pCaller' = pCaller
  BY <1>1, Frame
<1>3. pCaller \in Values /\ pCaller \in Int /\ pfunCB \in Int /\ pfunCB <= pCaller
      /\ (~Busy => pCaller = config)
  <2>1. pfunCB <= pCaller /\ pCaller <= config /\ config \in Int /\ pfunCB \in Int /\ pCaller \in Int
        /\ (~Busy => pfunCB = config)
    BY Numbers
  <2> QED
    BY <2>1, ReadTypes
<1>4. arg'[w] = pCaller /\ TypeOK' /\ OthersStill(w) /\ seen[w] \in Int
  <2>1. seen[w] \in Int
    BY ReadTypes DEF TypeOK
  <2> QED
    BY <1>1, <1>2, <1>3, <2>1 DEF TypeOK, OthersStill, Still
<1>5. CallInv(w)' /\ LateInv(w)'
  BY <1>1, <1>2, <1>3, <1>4 DEF WorkerInv, CallInv, LateInv
<1>6. QuietInv(w)'
  BY <1>1, <1>2, <1>3, <1>4 DEF WorkerInv, QuietInv
<1>7. DiscardNeedsNoCallback'
  BY <1>1, <1>2 DEF DiscardNeedsNoCallback
<1> QED
  BY <1>4, <1>5, <1>6, <1>7 DEF Kept, WorkerInv

LEMMA CallKeeps ==
  ASSUME TypeOK, FieldInv, NEW w \in Workers, WorkerInv(w), DiscardNeedsNoCallback, Call(w)
  PROVE  Kept(w)
<1>1. /\ pc[w] = "args" /\ pc' = [pc EXCEPT ![w] = "callback"]
      /\ fn[w] \in HasCallback /\ arg[w] # Unread
      /\ late' = IF ~Busy /\ fn[w] < config THEN [late EXCEPT ![w] = @ + 1] ELSE late
      /\ UNCHANGED initVars /\ UNCHANGED <<account, fn, arg, seen, since, overlap, discards>>
  BY DEF Call, Goto
<1>2. UNCHANGED <<m_conninfo, config, copied>> /\ (Busy' <=> Busy) /\ pfunCB' = pfunCB /\ pCaller' = pCaller
  BY <1>1, Frame
<1>3. fn[w] # Unread
  BY <1>1, CallbacksAreConfigs DEF Unread
<1>4. late[w] \in Nat /\ late[w] <= 1 /\ config \in Int
  BY Numbers DEF TypeOK, WorkerInv, LateInv
<1>5. /\ late' \in [Workers -> Nat] /\ late'[w] <= 1
      /\ \A u \in Workers \ {w} : late'[u] = late[u]
  <2>1. CASE ~Busy /\ fn[w] < config
    <3>1. fn[w] # config
      BY <1>4, <2>1
    <3>2. late[w] = 0
      BY <1>1, <1>3, <1>4, <2>1, <3>1 DEF WorkerInv, LateInv
    <3> QED
      BY <1>1, <2>1, <3>2 DEF TypeOK
  <2>2. CASE ~(~Busy /\ fn[w] < config)
    BY <1>1, <1>4, <2>2 DEF TypeOK
  <2> QED
    BY <2>1, <2>2
<1>6. pc'[w] = "callback" /\ TypeOK'
  BY <1>1, <1>2, <1>5 DEF TypeOK
<1>7. OthersStill(w)
  BY <1>1, <1>5 DEF TypeOK, OthersStill, Still
<1>8. CallInv(w)' /\ LateInv(w)'
  BY <1>1, <1>2, <1>5, <1>6 DEF WorkerInv, CallInv, LateInv
<1>9. QuietInv(w)'
  BY <1>1, <1>2, <1>3, <1>6 DEF WorkerInv, QuietInv
<1>10. DiscardNeedsNoCallback'
  BY <1>1, <1>2 DEF DiscardNeedsNoCallback
<1> QED
  BY <1>6, <1>7, <1>8, <1>9, <1>10 DEF Kept, WorkerInv

-----------------------------------------------------------------------------

LEMMA WorkerKeeps ==
  ASSUME TypeOK, FieldInv, NEW w \in Workers, WorkerInv(w), DiscardNeedsNoCallback, consumerWorker(w)
  PROVE  Kept(w) /\ UNCHANGED initVars
<1>1. UNCHANGED initVars
  BY DEF consumerWorker, Lookup, Consume, PassFails, Test, ReadCallback, ReadCaller, Call, PassEnds, ReadAccount
<1>2. CASE Lookup(w)
  BY <1>1, <1>2, LookupKeeps
<1>3. CASE Consume(w)
  BY <1>1, <1>3, ConsumeKeeps
<1>4. CASE PassFails(w) \/ PassEnds(w)
  BY <1>1, <1>4, LookupAgainKeeps
<1>5. CASE Test(w)
  BY <1>1, <1>5, TestKeeps
<1>6. CASE ReadCallback(w)
  BY <1>1, <1>6, ReadCallbackKeeps
<1>7. CASE ReadCaller(w)
  BY <1>1, <1>7, ReadCallerKeeps
<1>8. CASE Call(w)
  BY <1>1, <1>8, CallKeeps
<1>9. ASSUME NEW f \in Account, ReadAccount(w, f) PROVE Kept(w)
  BY <1>9, ReadAccountKeeps
<1> QED
  BY <1>1, <1>2, <1>3, <1>4, <1>5, <1>6, <1>7, <1>8, <1>9 DEF consumerWorker

LEMMA StepInv == IInv /\ [Next]_vars => IInv'
<1> SUFFICES ASSUME IInv, [Next]_vars PROVE IInv'
  OBVIOUS
<1>1. TypeOK /\ FieldInv /\ DiscardNeedsNoCallback /\ \A w \in Workers : WorkerInv(w)
  BY DEF IInv
<1>2. CASE init
  <2>1. TypeOK' /\ FieldInv' /\ Grows
    BY <1>1, <1>2, InitBeginStep, AssignBeginStep, AssignEndStep DEF init
  <2>2. \A w \in Workers : WorkerInv(w)'
    BY <1>1, <1>2, <2>1, InitKeepsWorker
  <2>3. DiscardNeedsNoCallback'
    <3>1. discards' = discards /\ config' \in {config, config + 1} /\ config \in Int
      BY <1>1, <1>2, Numbers DEF init, InitBegin, AssignBegin, AssignEnd, Assign
    <3>2. 1 .. config \subseteq 1 .. config'
      BY <3>1
    <3> QED
      BY <1>1, <3>1, <3>2 DEF DiscardNeedsNoCallback
  <2> QED
    BY <2>1, <2>2, <2>3 DEF IInv
<1>3. ASSUME NEW w \in Workers, consumerWorker(w) PROVE IInv'
  <2>1. Kept(w) /\ UNCHANGED initVars
    BY <1>1, <1>3, WorkerKeeps
  <2>2. FieldInv'
    BY <1>1, <2>1, Frame DEF FieldInv
  <2>3. ASSUME NEW u \in Workers \ {w} PROVE WorkerInv(u)'
    BY <1>1, <2>1, StillKeeps DEF Kept, OthersStill
  <2> QED
    BY <2>1, <2>2, <2>3 DEF Kept, IInv
<1>4. CASE UNCHANGED vars
  <2>1. UNCHANGED initVars /\ UNCHANGED <<pc, account, fn, arg, seen, since, overlap, late, discards>>
    BY <1>4 DEF vars
  <2>2. UNCHANGED <<m_conninfo, config, copied>>
    BY <2>1, Frame
  <2>3. TypeOK'
    BY <1>1, <2>1, <2>2 DEF TypeOK
  <2>4. FieldInv'
    BY <1>1, <2>1, Frame DEF FieldInv
  <2>5. \A w \in Workers : WorkerInv(w)'
    BY <1>1, <2>1, StillKeeps DEF Still
  <2>6. DiscardNeedsNoCallback'
    BY <1>1, <2>1, <2>2 DEF DiscardNeedsNoCallback
  <2> QED
    BY <2>3, <2>4, <2>5, <2>6 DEF IInv
<1> QED
  BY <1>2, <1>3, <1>4 DEF Next

LEMMA Invariance == Spec => []IInv
BY InitInv, StepInv, PTL DEF Spec

\* The variables have their types: m_conninfo and what a pass reads of it
\* (LibRabbitMq.h:16-61, RabbitMq.cpp:50-68).
THEOREM TypeCorrect == Spec => []TypeOK
<1>1. IInv => TypeOK
  BY DEF IInv
<1> QED
  BY Invariance, <1>1, PTL

\* A pass that no assignment of init overlaps uses one configuration, the latest
\* (LibRabbitMq.h:50-60, RabbitMq.cpp:50, 68).
THEOREM QuietIsWhole == Spec => []QuietPassIsWhole
<1>1. IInv => QuietPassIsWhole
  BY DEF IInv, WorkerInv, QuietInv, QuietPassIsWhole
<1> QED
  BY Invariance, <1>1, PTL

\* Neither the callback nor its pointer is older than the callback that was tested
\* (LibRabbitMq.h:56-57, RabbitMq.cpp:66-68).
THEOREM NeverOlder == Spec => []CallerNotOlder
<1>1. IInv => CallerNotOlder
  BY DEF IInv, WorkerInv, CallInv, CallerNotOlder
<1> QED
  BY Invariance, <1>1, PTL

\* A thread calls an earlier callback at most once after init has returned
\* (RabbitMq.cpp:66-68).
THEOREM AtMostOneLateCall == Spec => []LateOnce
<1>1. IInv => LateOnce
  BY DEF IInv, WorkerInv, LateInv, LateOnce
<1> QED
  BY Invariance, <1>1, PTL

\* Only a pass that began before the first init had returned throws its batch
\* away, as long as every configuration has a callback (RabbitMq.cpp:66).
THEOREM DiscardsNeedNoCallback == Spec => []DiscardNeedsNoCallback
<1>1. IInv => DiscardNeedsNoCallback
  BY DEF IInv
<1> QED
  BY Invariance, <1>1, PTL
=============================================================================
