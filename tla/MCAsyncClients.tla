---- MODULE MCAsyncClients ----
EXTENDS AsyncClients
CONSTANTS c1, c2, c3, mqtt, t1, t2, p1, p2
====
