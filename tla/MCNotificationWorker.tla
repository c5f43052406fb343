------------------------- MODULE MCNotificationWorker -------------------------
\* Instances of NotificationWorker for TLC.
EXTENDS NotificationWorker

\* A poison message at the head of the queue, then one of each other kind.
OnePoison == [m \in Msgs |-> CASE m = 1 -> "poison" [] m = 2 -> "external"
                               [] m = 3 -> "in-app" [] OTHER -> "no recipient"]

===============================================================================
