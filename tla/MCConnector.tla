---- MODULE MCConnector ----
EXTENDS Connector, TLC
Sym == Permutations(Conns) \cup Permutations(Threads)
====
