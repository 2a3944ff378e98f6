----------------------------- MODULE MCRequests -----------------------------
(* An instance of Requests for TLC.                                        *)
EXTENDS Requests, TLC

\* A job and a change of the settings with one key, a job with another.
MCKeyOf == ("r1" :> "k1") @@ ("r2" :> "k1") @@ ("r3" :> "k2")
MCKinds == ("r1" :> "job") @@ ("r2" :> "settings") @@ ("r3" :> "job")
=============================================================================
