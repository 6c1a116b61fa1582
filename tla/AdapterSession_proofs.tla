------------------------ MODULE AdapterSession_proofs ------------------------
(***************************************************************************)
(* Proofs about AdapterSession for every number of connections.            *)
(***************************************************************************)
EXTENDS AdapterSession, TLAPS

\* Connections are made in order, and only the living adapter holds one.
MadeInv ==
  /\ \A c \in Conns : c > made <=> state[c] = "unmade"
  /\ m_conn <= made
  /\ (proxy = "none" \/ result = 1) => m_conn = NULL

\* While a call meets no trouble the server answers, and after a login that had
\* to succeed the connection is open, or was closed by Disconnect.
CleanInv ==
  (proxy # "none" /\ ~trouble) =>
    /\ server
    /\ (result # 1 /\ m_user \in accounts) =>
         /\ result = 0 /\ made > 0
         /\ \/ m_conn = made /\ state[made] = "open"
            \/ m_conn = NULL /\ state[made] = "destroyed"

IInv ==
  /\ TypeOK
  /\ MadeInv
  /\ CleanInv
  /\ NoOrphanSession
  /\ NoUseAfterDestroy
  /\ CleanCallReleases

LEMMA InitInv == Init => IInv
<1> SUFFICES ASSUME Init PROVE IInv
  OBVIOUS
<1> USE MaxConnsIsNat DEF Init, Conns, NULL
<1>1. TypeOK
  <2>1. result \in -4 .. 1 /\ made \in 0 .. MaxConns /\ m_conn \in 0 .. MaxConns
    OBVIOUS
  <2>2. state \in [Conns -> {"unmade", "bare", "open", "dead", "destroyed"}]
    OBVIOUS
  <2> QED
    BY <2>1, <2>2 DEF TypeOK, Accounts
<1>2. MadeInv /\ CleanInv
  BY DEF MadeInv, CleanInv
<1>3. NoOrphanSession /\ NoUseAfterDestroy /\ CleanCallReleases
  BY DEF NoOrphanSession, NoUseAfterDestroy, CleanCallReleases
<1> QED
  BY <1>1, <1>2, <1>3 DEF IInv

Calls == {"work", "state"}

LEMMA TypeStep == TypeOK /\ [Next]_vars => TypeOK'
<1> SUFFICES ASSUME TypeOK, [Next]_vars PROVE TypeOK'
  OBVIOUS
<1> USE MaxConnsIsNat DEF TypeOK, Conns, NULL, Accounts, Calls
<1>1. CASE UNCHANGED vars
  BY <1>1 DEF vars
<1>2. CASE ServerTurns
  BY <1>2 DEF ServerTurns
<1>3. ASSUME NEW c \in Conns, LinkLost(c) PROVE TypeOK'
  BY <1>3 DEF LinkLost
<1>4. ASSUME NEW call \in Calls, Build(call) PROVE TypeOK'
  <2>1. trouble' \in BOOLEAN /\ faulty' \in BOOLEAN
    BY <1>4, Zenon DEF Build
  <2>2. proxy' \in {"none", "work", "left", "state", "crashed"} /\ m_user' \in Accounts
    BY <1>4 DEF Build
  <2>3. m_conn' \in 0 .. MaxConns /\ result' \in -4 .. 1
    BY <1>4 DEF Build
  <2>4. UNCHANGED <<server, accounts, made, state>>
    BY <1>4 DEF Build
  <2> HIDE DEF Accounts
  <2> QED
    BY <2>1, <2>2, <2>3, <2>4
<1>5. CASE ConnectNoMemory
  BY <1>5 DEF ConnectNoMemory, Connect
<1>6. CASE ConnectNoSocket
  BY <1>6 DEF ConnectNoSocket, Connect, Make
<1>7. CASE ConnectNoServer
  BY <1>7 DEF ConnectNoServer, Connect, Make
<1>8. CASE ConnectRefused
  BY <1>8 DEF ConnectRefused, Connect, Make
<1>9. CASE ConnectLoggedIn
  BY <1>9 DEF ConnectLoggedIn, Connect, Make
<1>10. CASE Disconnect
  <2>1. trouble' \in BOOLEAN /\ faulty' \in BOOLEAN
    BY <1>10, Zenon DEF Disconnect, Leave, CloseFails, Close, DestroyFails
  <2>2. state' \in [Conns -> {"unmade", "bare", "open", "dead", "destroyed"}]
    BY <1>10 DEF Disconnect, Leave, CloseFails, Close, DestroyFails
  <2>3. /\ proxy' \in {"none", "work", "left", "state", "crashed"} /\ m_conn' \in 0 .. MaxConns
        /\ UNCHANGED <<server, accounts, made, m_user, result>>
    BY <1>10 DEF Disconnect, Leave
  <2> HIDE DEF Accounts
  <2> QED
    BY <2>1, <2>2, <2>3
<1>11. CASE Destroy
  <2>1. trouble' \in BOOLEAN /\ faulty' \in BOOLEAN
    BY <1>11, Zenon DEF Destroy, EndCall, CloseFails, Close, DestroyFails
  <2>2. state' \in [Conns -> {"unmade", "bare", "open", "dead", "destroyed"}]
    BY <1>11 DEF Destroy, EndCall, CloseFails, Close, DestroyFails
  <2>3. /\ proxy' \in {"none", "work", "left", "state", "crashed"} /\ m_conn' \in 0 .. MaxConns
        /\ UNCHANGED <<server, accounts, made, m_user, result>>
    BY <1>11 DEF Destroy, EndCall
  <2> HIDE DEF Accounts
  <2> QED
    BY <2>1, <2>2, <2>3
<1>12. CASE DestroyCrashes
  BY <1>12 DEF DestroyCrashes
<1> QED
  BY <1>1, <1>2, <1>3, <1>4, <1>5, <1>6, <1>7, <1>8, <1>9, <1>10, <1>11, <1>12 DEF Next, Calls

LEMMA MadeStep == TypeOK /\ MadeInv /\ [Next]_vars => MadeInv'
<1> SUFFICES ASSUME TypeOK, MadeInv, [Next]_vars PROVE MadeInv'
  OBVIOUS
<1> USE MaxConnsIsNat DEF TypeOK, Conns, NULL, MadeInv
<1>1. CASE UNCHANGED vars
  BY <1>1 DEF vars
<1>2. CASE ServerTurns
  BY <1>2 DEF ServerTurns
<1>3. ASSUME NEW c \in Conns, LinkLost(c) PROVE MadeInv'
  BY <1>3 DEF LinkLost
<1>4. ASSUME NEW call \in Calls, Build(call) PROVE MadeInv'
  BY <1>4 DEF Build, Calls
<1>5. CASE ConnectNoMemory
  BY <1>5 DEF ConnectNoMemory, Connect
<1>6. CASE ConnectNoSocket
  BY <1>6 DEF ConnectNoSocket, Connect, Make
<1>7. CASE ConnectNoServer
  BY <1>7 DEF ConnectNoServer, Connect, Make
<1>8. CASE ConnectRefused
  BY <1>8 DEF ConnectRefused, Connect, Make
<1>9. CASE ConnectLoggedIn
  BY <1>9 DEF ConnectLoggedIn, Connect, Make
<1>10. CASE Disconnect
  BY <1>10 DEF Disconnect, Leave, CloseFails, Close, DestroyFails
<1>11. CASE Destroy
  BY <1>11 DEF Destroy, EndCall, CloseFails, Close, DestroyFails
<1>12. CASE DestroyCrashes
  BY <1>12 DEF DestroyCrashes
<1> QED
  BY <1>1, <1>2, <1>3, <1>4, <1>5, <1>6, <1>7, <1>8, <1>9, <1>10, <1>11, <1>12 DEF Next, Calls

LEMMA CleanStep == TypeOK /\ MadeInv /\ CleanInv /\ [Next]_vars => CleanInv'
<1> SUFFICES ASSUME TypeOK, MadeInv, CleanInv, [Next]_vars PROVE CleanInv'
  OBVIOUS
<1> USE MaxConnsIsNat DEF TypeOK, Conns, NULL, MadeInv, CleanInv
<1>1. CASE UNCHANGED vars
  BY <1>1 DEF vars
<1>2. CASE ServerTurns
  BY <1>2 DEF ServerTurns
<1>3. ASSUME NEW c \in Conns, LinkLost(c) PROVE CleanInv'
  BY <1>3 DEF LinkLost
<1>4. ASSUME NEW call \in Calls, Build(call) PROVE CleanInv'
  BY <1>4 DEF Build, Calls
<1>5. CASE ConnectNoMemory
  BY <1>5 DEF ConnectNoMemory, Connect
<1>6. CASE ConnectNoSocket
  BY <1>6 DEF ConnectNoSocket, Connect, Make
<1>7. CASE ConnectNoServer
  BY <1>7 DEF ConnectNoServer, Connect, Make
<1>8. CASE ConnectRefused
  BY <1>8 DEF ConnectRefused, Connect, Make
<1>9. CASE ConnectLoggedIn
  BY <1>9 DEF ConnectLoggedIn, Connect, Make
<1>10. CASE Disconnect
  BY <1>10 DEF Disconnect, Leave, CloseFails, Close, DestroyFails
<1>11. CASE Destroy
  BY <1>11 DEF Destroy, EndCall, CloseFails, Close, DestroyFails
<1>12. CASE DestroyCrashes
  BY <1>12 DEF DestroyCrashes
<1> QED
  BY <1>1, <1>2, <1>3, <1>4, <1>5, <1>6, <1>7, <1>8, <1>9, <1>10, <1>11, <1>12 DEF Next, Calls

LEMMA OrphanStep == TypeOK /\ MadeInv /\ NoOrphanSession /\ [Next]_vars => NoOrphanSession'
<1> SUFFICES ASSUME TypeOK, MadeInv, NoOrphanSession, [Next]_vars PROVE NoOrphanSession'
  OBVIOUS
<1> USE MaxConnsIsNat DEF TypeOK, Conns, NULL, MadeInv, NoOrphanSession
<1>1. CASE UNCHANGED vars
  BY <1>1 DEF vars
<1>2. CASE ServerTurns
  BY <1>2 DEF ServerTurns
<1>3. ASSUME NEW c \in Conns, LinkLost(c) PROVE NoOrphanSession'
  BY <1>3 DEF LinkLost
<1>4. ASSUME NEW call \in Calls, Build(call) PROVE NoOrphanSession'
  BY <1>4 DEF Build, Calls
<1>5. CASE ConnectNoMemory
  BY <1>5 DEF ConnectNoMemory, Connect
<1>6. CASE ConnectNoSocket
  BY <1>6 DEF ConnectNoSocket, Connect, Make
<1>7. CASE ConnectNoServer
  BY <1>7 DEF ConnectNoServer, Connect, Make
<1>8. CASE ConnectRefused
  BY <1>8 DEF ConnectRefused, Connect, Make
<1>9. CASE ConnectLoggedIn
  BY <1>9 DEF ConnectLoggedIn, Connect, Make
<1>10. CASE Disconnect
  BY <1>10 DEF Disconnect, Leave, CloseFails, Close, DestroyFails
<1>11. CASE Destroy
  BY <1>11 DEF Destroy, EndCall, CloseFails, Close, DestroyFails
<1>12. CASE DestroyCrashes
  BY <1>12 DEF DestroyCrashes
<1> QED
  BY <1>1, <1>2, <1>3, <1>4, <1>5, <1>6, <1>7, <1>8, <1>9, <1>10, <1>11, <1>12 DEF Next, Calls

LEMMA DestroyStep == TypeOK /\ MadeInv /\ NoUseAfterDestroy /\ [Next]_vars => NoUseAfterDestroy'
<1> SUFFICES ASSUME TypeOK, MadeInv, NoUseAfterDestroy, [Next]_vars PROVE NoUseAfterDestroy'
  OBVIOUS
<1> USE MaxConnsIsNat DEF TypeOK, Conns, NULL, MadeInv, NoUseAfterDestroy
<1>1. CASE UNCHANGED vars
  BY <1>1 DEF vars
<1>2. CASE ServerTurns
  BY <1>2 DEF ServerTurns
<1>3. ASSUME NEW c \in Conns, LinkLost(c) PROVE NoUseAfterDestroy'
  BY <1>3 DEF LinkLost
<1>4. ASSUME NEW call \in Calls, Build(call) PROVE NoUseAfterDestroy'
  BY <1>4 DEF Build, Calls
<1>5. CASE ConnectNoMemory
  BY <1>5 DEF ConnectNoMemory, Connect
<1>6. CASE ConnectNoSocket
  BY <1>6 DEF ConnectNoSocket, Connect, Make
<1>7. CASE ConnectNoServer
  BY <1>7 DEF ConnectNoServer, Connect, Make
<1>8. CASE ConnectRefused
  BY <1>8 DEF ConnectRefused, Connect, Make
<1>9. CASE ConnectLoggedIn
  BY <1>9 DEF ConnectLoggedIn, Connect, Make
<1>10. CASE Disconnect
  BY <1>10 DEF Disconnect, Leave, CloseFails, Close, DestroyFails
<1>11. CASE Destroy
  BY <1>11 DEF Destroy, EndCall, CloseFails, Close, DestroyFails
<1>12. CASE DestroyCrashes
  BY <1>12 DEF DestroyCrashes
<1> QED
  BY <1>1, <1>2, <1>3, <1>4, <1>5, <1>6, <1>7, <1>8, <1>9, <1>10, <1>11, <1>12 DEF Next, Calls

LEMMA ReleaseStep == TypeOK /\ MadeInv /\ CleanInv /\ CleanCallReleases /\ [Next]_vars => CleanCallReleases'
<1> SUFFICES ASSUME TypeOK, MadeInv, CleanInv, CleanCallReleases, [Next]_vars PROVE CleanCallReleases'
  OBVIOUS
<1> USE MaxConnsIsNat DEF TypeOK, Conns, NULL, MadeInv, CleanInv, CleanCallReleases
<1>1. CASE UNCHANGED vars
  BY <1>1 DEF vars
<1>2. CASE ServerTurns
  BY <1>2 DEF ServerTurns
<1>3. ASSUME NEW c \in Conns, LinkLost(c) PROVE CleanCallReleases'
  BY <1>3 DEF LinkLost
<1>4. ASSUME NEW call \in Calls, Build(call) PROVE CleanCallReleases'
  BY <1>4 DEF Build, Calls
<1>5. CASE ConnectNoMemory
  BY <1>5 DEF ConnectNoMemory, Connect
<1>6. CASE ConnectNoSocket
  BY <1>6 DEF ConnectNoSocket, Connect, Make
<1>7. CASE ConnectNoServer
  BY <1>7 DEF ConnectNoServer, Connect, Make
<1>8. CASE ConnectRefused
  BY <1>8 DEF ConnectRefused, Connect, Make
<1>9. CASE ConnectLoggedIn
  BY <1>9 DEF ConnectLoggedIn, Connect, Make
<1>10. CASE Disconnect
  BY <1>10 DEF Disconnect, Leave, CloseFails, Close, DestroyFails
<1>11. CASE Destroy
  BY <1>11 DEF Destroy, EndCall, CloseFails, Close, DestroyFails
<1>12. CASE DestroyCrashes
  BY <1>12 DEF DestroyCrashes
<1> QED
  BY <1>1, <1>2, <1>3, <1>4, <1>5, <1>6, <1>7, <1>8, <1>9, <1>10, <1>11, <1>12 DEF Next, Calls

LEMMA StepInv == IInv /\ [Next]_vars => IInv'
BY TypeStep, MadeStep, CleanStep, OrphanStep, DestroyStep, ReleaseStep DEF IInv

-----------------------------------------------------------------------------

THEOREM Invariance == Spec => []IInv
BY InitInv, StepInv, PTL DEF Spec

\* Every variable keeps its type; the callers of Connect compare its result
\* with 0.
THEOREM TypeCorrect == Spec => []TypeOK
<1>1. IInv => TypeOK
  BY DEF IInv
<1> QED
  BY Invariance, <1>1, PTL

\* No session at the server outlives the call that logged in.
THEOREM SessionsEnd == Spec => []NoOrphanSession
<1>1. IInv => NoOrphanSession
  BY DEF IInv
<1> QED
  BY Invariance, <1>1, PTL

\* The adapter holds a connection that was destroyed only after an
\* amqp_destroy_connection that reported a failure.
THEOREM NeverUsedAfterDestroy == Spec => []NoUseAfterDestroy
<1>1. IInv => NoUseAfterDestroy
  BY DEF IInv
<1> QED
  BY Invariance, <1>1, PTL

\* A call that met no trouble destroyed its connection.
THEOREM CleanCallsRelease == Spec => []CleanCallReleases
<1>1. IInv => CleanCallReleases
  BY DEF IInv
<1> QED
  BY Invariance, <1>1, PTL
=============================================================================
