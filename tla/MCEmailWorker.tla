----------------------------- MODULE MCEmailWorker -----------------------------
\* Two workers, a single mail, and batches of two and of three.
EXTENDS EmailWorker

CONSTANTS single, pair, three

MCMessages == {single, pair, three}
MCTo == [m \in MCMessages |-> CASE m = single -> {1} [] m = pair -> {1, 2} [] OTHER -> {1, 2, 3}]

===============================================================================
