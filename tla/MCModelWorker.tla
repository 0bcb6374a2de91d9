--------------------------- MODULE MCModelWorker ---------------------------
\* Two handles of one process: one shared by a backfill flush and a query, the
\* case the priorities are for, and one that serves queries only, as the search
\* command's does.
EXTENDS ModelWorker
TwoWorkers == [c \in Clients |-> IF c = "q2" THEN "search" ELSE "capture"]
Priority   == [c \in Clients |-> IF c = "flush" THEN 0 ELSE 3]
=============================================================================
