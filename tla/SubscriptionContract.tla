------------------------ MODULE SubscriptionContract ------------------------
(***************************************************************************)
(* What a client of ILibRabbitMqBase may rely on when it subscribes to     *)
(* queues, with no lock, no thread handles and no map.  A subscription     *)
(* grants at most one worker; a worker starts a pass over its queue only   *)
(* while the queue is subscribed, and delivers at most once in a pass; so  *)
(* it delivers at most once after its queue was unsubscribed.  It may stop *)
(* only while its queue is not subscribed, and it must stop once its queue *)
(* stays unsubscribed.                                                     *)
(*                                                                         *)
(* A grant is a pair <<ticket, queue>>: the promise, made when the queue   *)
(* enters the set of subscriptions, of one worker for that queue.          *)
(***************************************************************************)

CONSTANTS Queues, Threads, Tickets, None

VARIABLES
  subscribed,   \* the queues subscribed
  grants,       \* workers promised and not yet started
  worker,       \* "unborn", "idle", "armed", "delivering" or "gone", per thread
  serves        \* the queue a thread serves, None while unborn

cvars == <<subscribed, grants, worker, serves>>

CTypeOK ==
  /\ subscribed \subseteq Queues
  /\ grants \subseteq Tickets \X Queues
  /\ worker \in [Threads -> {"unborn", "idle", "armed", "delivering", "gone"}]
  /\ serves \in [Threads -> Queues \cup {None}]

CInit ==
  /\ subscribed = {}
  /\ grants = {}
  /\ worker = [t \in Threads |-> "unborn"]
  /\ serves = [t \in Threads |-> None]

-----------------------------------------------------------------------------

Subscribe(k, q) ==
  /\ q \notin subscribed
  /\ <<k, q>> \notin grants
  /\ subscribed' = subscribed \cup {q}
  /\ grants' = grants \cup {<<k, q>>}
  /\ UNCHANGED <<worker, serves>>

Unsubscribe(q) ==
  /\ subscribed' = subscribed \ {q}
  /\ UNCHANGED <<grants, worker, serves>>

Start(k, q, t) ==
  /\ <<k, q>> \in grants
  /\ worker[t] = "unborn"
  /\ grants' = grants \ {<<k, q>>}
  /\ worker' = [worker EXCEPT ![t] = "idle"]
  /\ serves' = [serves EXCEPT ![t] = q]
  /\ UNCHANGED subscribed

\* The thread could not be created: the grant lapses.
Forfeit(k, q) ==
  /\ <<k, q>> \in grants
  /\ grants' = grants \ {<<k, q>>}
  /\ UNCHANGED <<subscribed, worker, serves>>

Move(t, from, to) ==
  /\ worker[t] = from
  /\ worker' = [worker EXCEPT ![t] = to]
  /\ UNCHANGED <<subscribed, grants, serves>>

Arm(t) == serves[t] \in subscribed /\ Move(t, "idle", "armed")

Disarm(t) == Move(t, "armed", "idle")

Deliver(t) == Move(t, "armed", "delivering")

Finish(t) == Move(t, "delivering", "idle")

Stop(t) == serves[t] \notin subscribed /\ Move(t, "idle", "gone")

CNext ==
  \/ \E k \in Tickets, q \in Queues : Subscribe(k, q) \/ Forfeit(k, q)
  \/ \E q \in Queues : Unsubscribe(q)
  \/ \E k \in Tickets, q \in Queues, t \in Threads : Start(k, q, t)
  \/ \E t \in Threads : Arm(t) \/ Disarm(t) \/ Deliver(t) \/ Finish(t) \/ Stop(t)

CSafety == CInit /\ [][CNext]_cvars

\* A pass ends, a delivery ends, and a worker whose queue stays
\* unsubscribed stops.
CFairness ==
  \A t \in Threads :
    WF_cvars(Disarm(t) \/ Deliver(t)) /\ WF_cvars(Finish(t)) /\ WF_cvars(Stop(t))
=============================================================================
