--------------------------- MODULE AdapterSession ---------------------------
(***************************************************************************)
(* The connections that CRabbitMQ_Adapter makes and forgets: Connect,      *)
(* Disconnect and the destructor, for the proxies that live through one    *)
(* call of CRabbitMq: a pass or a publishMsg ("work"), or a GetConnState.  *)
(* The operations between Connect and Disconnect leave m_conn alone and    *)
(* are in ConsumerWorker and PublishPath.                                  *)
(*                                                                         *)
(* A connection object is external, of librabbitmq: bare, opened by a      *)
(* login, dead once its link is gone or closed, destroyed with its socket. *)
(* Closing one that is not open fails.  Destroying one may fail too, and   *)
(* free it or not.  The server may go and come, links break, and the       *)
(* server knows a set of accounts.                                         *)
(***************************************************************************)
EXTENDS Integers

CONSTANTS
  Configured,   \* the account of m_conninfo
  Guest,        \* the default account of the constructors
  MaxConns      \* bound: connections made

ASSUME MaxConnsIsNat == MaxConns \in Nat

Conns == 1 .. MaxConns
NULL == 0
Accounts == {Configured, Guest}

VARIABLES
  server,     \* the server answers
  accounts,   \* the accounts it lets in
  made,       \* connections made so far are 1 .. made
  state,      \* of a connection object
  proxy,      \* the call that owns a proxy: "none", "work", "left" when work has
              \* called Disconnect, "state", or "crashed": the process has ended
  m_user,
  m_conn,
  result,     \* what Connect returned, 1 before it returns
  trouble,    \* history: in this call the server was away, a link broke, memory
              \* ran out, or amqp_destroy_connection failed
  faulty      \* history: in this call amqp_destroy_connection failed

vars == <<server, accounts, made, state, proxy, m_user, m_conn, result, trouble, faulty>>

TypeOK ==
  /\ server \in BOOLEAN
  /\ accounts \subseteq Accounts
  /\ made \in 0 .. MaxConns
  /\ state \in [Conns -> {"unmade", "bare", "open", "dead", "destroyed"}]
  /\ proxy \in {"none", "work", "left", "state", "crashed"}
  /\ m_user \in Accounts
  /\ m_conn \in 0 .. MaxConns
  /\ result \in -4 .. 1
  /\ trouble \in BOOLEAN /\ faulty \in BOOLEAN

Init ==
  /\ server \in BOOLEAN
  /\ accounts \in SUBSET Accounts
  /\ made = 0
  /\ state = [c \in Conns |-> "unmade"]
  /\ proxy = "none"
  /\ m_user = Configured
  /\ m_conn = NULL
  /\ result = 1
  /\ trouble = FALSE /\ faulty = FALSE

-----------------------------------------------------------------------------
(* The server and the network.                                             *)

ServerTurns ==
  /\ server' = ~server
  /\ state' = [c \in Conns |-> IF state[c] = "open" THEN "dead" ELSE state[c]]
  /\ trouble' = TRUE
  /\ UNCHANGED <<accounts, made, proxy, m_user, m_conn, result, faulty>>

LinkLost(c) ==
  /\ state[c] = "open"
  /\ state' = [state EXCEPT ![c] = "dead"]
  /\ trouble' = TRUE
  /\ UNCHANGED <<server, accounts, made, proxy, m_user, m_conn, result, faulty>>

-----------------------------------------------------------------------------
(* Connect.                                                                *)

\* The constructor; GetConnState leaves the account to its default.
Build(call) ==
  /\ proxy = "none"
  /\ proxy' = call
  /\ m_user' = IF call = "state" THEN Guest ELSE Configured
  /\ m_conn' = NULL
  /\ result' = 1
  /\ trouble' = ~server /\ faulty' = FALSE
  /\ UNCHANGED <<server, accounts, made, state>>

\* Mutant: the number of the step that failed is returned without its sign.
Connect_Unsigned(code) ==
  /\ proxy # "none" /\ result = 1
  /\ result' = -code
  /\ UNCHANGED <<server, accounts, proxy, m_user, faulty>>

Connect(code) ==
  /\ proxy # "none" /\ result = 1
  /\ result' = code
  /\ UNCHANGED <<server, accounts, proxy, m_user, faulty>>

\* m_conn is set before anything is known of the connection.
Make(as) ==
  /\ made < MaxConns
  /\ made' = made + 1
  /\ state' = [state EXCEPT ![made + 1] = as]
  /\ m_conn' = made + 1

ConnectNoMemory ==
  /\ Connect(-1)
  /\ trouble' = TRUE
  /\ UNCHANGED <<made, state, m_conn>>

ConnectNoSocket == Connect(-2) /\ Make("bare") /\ trouble' = TRUE

ConnectNoServer == ~server /\ Connect(-3) /\ Make("dead") /\ UNCHANGED trouble

\* The server refuses the account and closes the link.
ConnectRefused ==
  server /\ m_user \notin accounts /\ Connect(-4) /\ Make("dead") /\ UNCHANGED trouble

ConnectLoggedIn ==
  server /\ m_user \in accounts /\ Connect(0) /\ Make("open") /\ UNCHANGED trouble

-----------------------------------------------------------------------------
(* Disconnect.                                                             *)

\* amqp_connection_close fails on what is not open.
CloseFails ==
  /\ state[m_conn] # "open"
  /\ UNCHANGED <<state, trouble, faulty>>

\* The session is closed, and amqp_destroy_connection succeeds.
Close ==
  /\ state[m_conn] = "open"
  /\ state' = [state EXCEPT ![m_conn] = "destroyed"]
  /\ UNCHANGED <<trouble, faulty>>

\* The session is closed, and amqp_destroy_connection reports a failure.
DestroyFails ==
  /\ state[m_conn] = "open"
  /\ \E as \in {"dead", "destroyed"} : state' = [state EXCEPT ![m_conn] = as]
  /\ trouble' = TRUE /\ faulty' = TRUE

Leave ==
  /\ proxy = "work" /\ result = 0
  /\ proxy' = "left"
  /\ UNCHANGED <<server, accounts, made, m_user, result>>

\* Mutant: m_conn is not reset.
Disconnect_KeepsPointer ==
  /\ Leave
  /\ CloseFails \/ Close \/ DestroyFails
  /\ UNCHANGED m_conn

\* Mutant: m_conn is reset, and the close is skipped.
Disconnect_OnlyForgets ==
  /\ Leave
  /\ m_conn' = NULL
  /\ UNCHANGED <<state, trouble, faulty>>

\* The call made when a pass or a publishMsg reaches its end.  m_conn is reset
\* only when nothing failed.
Disconnect ==
  /\ Leave
  /\ \/ (CloseFails \/ DestroyFails) /\ UNCHANGED m_conn
     \/ Close /\ m_conn' = NULL

EndCall ==
  /\ proxy \in {"work", "left", "state"} /\ result # 1
  /\ proxy' = "none"
  /\ m_conn' = NULL
  /\ UNCHANGED <<server, accounts, made, m_user, result>>

\* Mutant: the destructor trusts its user to have disconnected.
Destroy_Trusting == EndCall /\ UNCHANGED <<state, trouble, faulty>>

\* The destructor of the proxy, and so of the adapter, when the call returns:
\* Disconnect once more, then m_conn is forgotten whatever came of it.
Destroy ==
  /\ EndCall
  /\ IF m_conn # NULL THEN CloseFails \/ Close \/ DestroyFails
     ELSE UNCHANGED <<state, trouble, faulty>>

\* The destructor closes a connection that was freed: the process may end.  Where
\* it does not, the close fails as in Destroy.
DestroyCrashes ==
  /\ proxy = "left" /\ m_conn # NULL /\ state[m_conn] = "destroyed"
  /\ proxy' = "crashed"
  /\ UNCHANGED <<server, accounts, made, state, m_user, m_conn, result, trouble, faulty>>

Next ==
  \/ ServerTurns
  \/ \E c \in Conns : LinkLost(c)
  \/ \E call \in {"work", "state"} : Build(call)
  \/ ConnectNoMemory \/ ConnectNoSocket \/ ConnectNoServer
  \/ ConnectRefused \/ ConnectLoggedIn
  \/ Disconnect \/ Destroy \/ DestroyCrashes

Spec == Init /\ [][Next]_vars

-----------------------------------------------------------------------------
(* Safety.                                                                 *)

\* No session at the server outlives the call that logged in, whichever way
\* the call is left: an open connection is the one of the living adapter
\* (RabbitMQ_Adapter.cpp:30-63).
NoOrphanSession ==
  \A c \in Conns : state[c] = "open" => proxy # "none" /\ m_conn = c

\* The adapter holds a destroyed connection, which the destructor then closes
\* again, only after an amqp_destroy_connection that reported a failure: a
\* Disconnect that succeeded or stopped at the close is safe to repeat, and no
\* call inherits the connection of another (RabbitMQ_Adapter.cpp:35-39, 54-61).
NoUseAfterDestroy == (m_conn # NULL /\ ~faulty) => state[m_conn] # "destroyed"

\* A call that meets no trouble and whose account is let in gives back what it
\* took: its connection is destroyed when it returns (RabbitMQ_Adapter.cpp:30-91).
CleanCallReleases ==
  (proxy = "none" /\ made > 0 /\ ~trouble /\ m_user \in accounts) => state[made] = "destroyed"

\* amqp_tcp_socket.h:38 asks for the release of every socket ("Call
\* amqp_socket_close() to release socket resources."), which here only
\* amqp_destroy_connection does.
SocketsReleased ==
  \A c \in Conns : state[c] = "dead" => proxy # "none" /\ m_conn = c
=============================================================================
