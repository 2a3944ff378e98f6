---------------------------- MODULE MCAdminKeys ----------------------------
(* Instances of AdminKeys for TLC.                                         *)
EXTENDS AdminKeys, TLC

\* Two processes; the jobs are executed by one of them.
MCHome == ("t1" :> "b") @@ ("t2" :> "b")

\* The second one is configured for a key more.
MCWanted == ("a" :> 1) @@ ("b" :> 2)

\* The second key was revoked.
MCInitChain == <<FALSE, TRUE>>
=============================================================================
