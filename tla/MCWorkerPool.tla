---------------------------- MODULE MCWorkerPool ----------------------------
(* Instances of WorkerPool for TLC.  Workers are interchangeable, and so are  *)
(* clients: nothing in the specification or its properties names one.        *)
EXTENDS WorkerPool, TLC

Symmetry == Permutations(Workers) \union Permutations(Clients)
=============================================================================
