----------------------------- MODULE JobLedger ------------------------------
(***************************************************************************)
(* What the job engine promises its callers, without tables, copies,       *)
(* queues or clocks: a job is open until it ends; while it is open one     *)
(* runner at a time runs it; a runner may give a job up, or be killed, and *)
(* then another may run it; it ends once, by the hand of its runner, and   *)
(* stays ended.                                                            *)
(***************************************************************************)
EXTENDS Integers, Sequences

CONSTANTS Runners, Nobody

VARIABLES
    outcome,  \* of each job: "open", "COMPLETE" or "FAILED"
    runner    \* the runner of each job, or Nobody

Ended == {"COMPLETE", "FAILED"}

LedgerTypeOK ==
    /\ outcome \in Seq({"open"} \union Ended)
    /\ runner \in Seq(Runners \union {Nobody})
    /\ Len(runner) = Len(outcome)

Init == outcome = <<>> /\ runner = <<>>

Submit ==
    /\ outcome' = Append(outcome, "open")
    /\ runner' = Append(runner, Nobody)

Run(j, r) ==
    /\ outcome[j] = "open"
    /\ runner[j] = Nobody
    /\ runner' = [runner EXCEPT ![j] = r]
    /\ UNCHANGED outcome

\* A crash makes every runner of a process give up at once.
GiveUp(lost) ==
    /\ runner' = [j \in DOMAIN runner |-> IF j \in lost THEN Nobody ELSE runner[j]]
    /\ UNCHANGED outcome

End(j, result) ==
    /\ runner[j] # Nobody
    /\ outcome' = [outcome EXCEPT ![j] = result]
    /\ runner' = [runner EXCEPT ![j] = Nobody]

Next ==
    \/ Submit
    \/ \E j \in DOMAIN outcome, r \in Runners : Run(j, r)
    \/ \E lost \in SUBSET DOMAIN runner : GiveUp(lost)
    \/ \E j \in DOMAIN outcome, result \in Ended : End(j, result)

Spec == Init /\ [][Next]_<<outcome, runner>>
=============================================================================
