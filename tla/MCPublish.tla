----------------------------- MODULE MCPublish -----------------------------
(* PublishPath with one or three publishers.                               *)
EXTENDS PublishPath, TLC

CONSTANTS p1, p2, p3, x1, cfdefault, q1, q2

OnePublisher == {p1}
ThreePublishers == {p1, p2, p3}
TwoExchanges == {x1, cfdefault}
TwoQueues == {q1, q2}
OneQueue == {q1}

\* Earlier calls published to the exchange that calls fall back to.
DefaultBound == {<<cfdefault, q, q>> : q \in {q1, q2}}
NoBindings == {}

Symmetry == Permutations(Publishers) \cup Permutations(Queues)
=============================================================================
