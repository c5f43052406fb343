---------------------------- MODULE MCRetryConsumer ----------------------------
\* Instances of RetryConsumer for TLC.
EXTENDS RetryConsumer, TLC

CONSTANTS m1, m2, q1, q2

\* m1 is routed to every queue there is, m2 (where there is one) to q1 alone.
MCRoutesTo == [m \in Msgs |-> IF m = m2 THEN {q1} ELSE Queues]
===============================================================================
