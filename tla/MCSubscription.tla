--------------------------- MODULE MCSubscription ---------------------------
(* SubscriptionManager on small sets of actors and queues.                 *)
EXTENDS SubscriptionManager, TLC

CONSTANTS c1, c2, t1, t2, t3, q1, q2

OneClient == {c1}
TwoClients == {c1, c2}
OneThread == {t1}
TwoThreads == {t1, t2}
ThreeThreads == {t1, t2, t3}
OneQueue == {q1}
TwoQueues == {q1, q2}

\* Who calls the library: the clients alone, or their callbacks too.
ClientsOnly == Clients
Everyone == Clients \cup Threads

Symmetry == Permutations(Clients) \cup Permutations(Threads) \cup Permutations(Queues)
=============================================================================
