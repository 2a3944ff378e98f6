------------------------------ MODULE AdminKeys ------------------------------
(***************************************************************************)
(* The admin account and its proposal keys: packages accounts, keys/basic, *)
(* keys and transactions, and the part of main before the server serves.   *)
(*                                                                         *)
(* Every server instance brings the table of proposal keys up to the       *)
(* number it is configured for before it serves: it may add keys to the    *)
(* admin account on chain, and replaces the whole table row by row, with   *)
(* nothing that keeps another instance from doing the same or from taking  *)
(* keys meanwhile.  Then it executes jobs that create accounts, and jobs   *)
(* that send transactions of the admin account signed earlier, each with   *)
(* the least recently used of its first proposal keys.                     *)
(*                                                                         *)
(* A chain index is counted from 1 here, from 0 in the code.               *)
(***************************************************************************)
EXTENDS Integers, Sequences, FiniteSets, SequencesExt

CONSTANTS
    Instances,  \* server processes that share the database
    Threads,    \* their workers and waiting requests
    Home,       \* of each thread, its instance
    Wanted,     \* of each instance, AdminProposalKeyCount
    InitChain,  \* the admin's keys on chain at first: is each one revoked?
    Kinds,      \* which jobs are submitted
    Faults,     \* which faults happen
    MaxExec,    \* bound of the instance: transactions signed by threads
    MaxFaults   \* bound of the instance: faults

AllKinds == {"account",  \* create an account
             "raw"}      \* an asynchronous transaction of the admin account
AllFaults == {"send",    \* sending fails, before or after it has taken effect
              "result",  \* asking for the result of a sent transaction fails
              "drop",    \* the network rejects a transaction or lets it expire
              "store",   \* the account cannot be stored
              "crash"}   \* a process dies

\* AdminKeyIndex: the key that all keys of the admin account are copies of.
AdminKey == 1

ASSUME AdminOK ==
    /\ Home \in [Threads -> Instances] /\ Wanted \in [Instances -> Nat \ {0}]
    /\ InitChain \in Seq(BOOLEAN) /\ Len(InitChain) > 0 /\ ~ InitChain[AdminKey]
    /\ Kinds \subseteq AllKinds /\ Faults \subseteq AllFaults
    /\ IsFiniteSet(Threads) /\ MaxExec \in Nat /\ MaxFaults \in Nat

VARIABLES
    chain,    \* keys of the admin account on the Flow network
    admin,    \* is the admin account's row there?
    table,    \* proposal_keys, by id: the index of each key
    turn,     \* the same indices by updated_at
    txs,      \* transactions by id
    stored,   \* created accounts that have a row, by transaction
    server,   \* of each instance: how far it is, and what it has read
    thread,   \* of each thread: what it does
    cut,      \* history: account creations cut off after their transaction was sent
    torn,     \* history: an instance has died, or met another one, while it replaced the table
    execs,    \* history: transactions signed by threads
    faults    \* history: faults so far

vars == <<chain, admin, table, turn, txs, stored, server, thread, cut, torn, execs, faults>>

Key == [seq : Nat, revoked : BOOLEAN]
ProposalKey == Nat \ {0}
Tx == [kind : AllKinds \union {"keys"}, key : Nat \ {0}, seq : Nat, count : Nat,
       state : {"signed", "pending", "sealed", "failed"}]
Server == [pc : {"down", "admin", "insert", "chain", "table", "get", "delete", "fill", "sign", "send", "wait", "serve"},
           keys : SUBSET ProposalKey,  \* what is left to insert
           found : Nat,            \* how many keys there were
           tx : Nat,               \* the transaction that adds keys, 0 before there is one
           replaces : BOOLEAN]     \* history: it has read the keys and does not serve yet
Execution == [pc : {"idle", "sign", "send", "wait", "save"}, kind : AllKinds, key : Nat, tx : Nat,
              picks : Nat,         \* history: choices of a key since this one
              reset : BOOLEAN]     \* history: the table was changed since

Down == [pc |-> "down", keys |-> {}, found |-> 0, tx |-> 0, replaces |-> FALSE]
Idle == [pc |-> "idle", kind |-> "raw", key |-> 0, tx |-> 0, picks |-> 0, reset |-> FALSE]

Init ==
    /\ chain = [k \in DOMAIN InitChain |-> [seq |-> 0, revoked |-> InitChain[k]]]
    /\ admin = FALSE /\ table = <<>> /\ turn = <<>>
    /\ txs = <<>> /\ stored = {}
    /\ server = [i \in Instances |-> Down] /\ thread = [t \in Threads |-> Idle]
    /\ cut = 0 /\ torn = FALSE /\ execs = 0 /\ faults = 0

-----------------------------------------------------------------------------
\* Faulty variants for mutation testing: UsableAll, FindAdminBlind, FilledOnce, PickNewest
\* and AccountStoredNever each break a property of the run in the place of the definition below them.
UsableAll == DOMAIN chain

\* The keys of GetAccount that are not revoked.
Usable == {k \in DOMAIN chain : ~ chain[k].revoked}

At(i, pc) == server[i].pc = pc
Goes(i, pc) == server' = [server EXCEPT ![i].pc = pc]
Signed(kind, key, count) ==
    txs' = Append(txs, [kind |-> kind, key |-> key, seq |-> chain[key].seq, count |-> count, state |-> "signed"])

\* SendTransaction; one that the network has already is sent in vain.
Sent(k) == txs' = [txs EXCEPT ![k].state = IF @ = "signed" THEN "pending" ELSE @]

\* An error ends the process (log.Fatal); whoever runs it starts it again.
Fatal(i) == server' = [server EXCEPT ![i] = Down]

MayFail(f) == f \in Faults /\ faults < MaxFaults /\ faults' = faults + 1

-----------------------------------------------------------------------------
(* Before an instance serves: InitAdminAccount.                            *)

Start(i) ==
    /\ At(i, "down")
    /\ Goes(i, "admin")
    /\ UNCHANGED <<chain, admin, table, turn, txs, stored, thread, cut, torn, execs, faults>>

FindAdminBlind(i) ==
    /\ At(i, "admin")
    /\ Goes(i, "insert")
    /\ UNCHANGED <<chain, admin, table, turn, txs, stored, thread, cut, torn, execs, faults>>

FindAdmin(i) ==
    /\ At(i, "admin")
    /\ Goes(i, IF admin THEN "chain" ELSE "insert")
    /\ UNCHANGED <<chain, admin, table, turn, txs, stored, thread, cut, torn, execs, faults>>

\* The address is the primary key.
InsertAdmin(i) ==
    /\ At(i, "insert")
    /\ IF admin THEN Fatal(i) ELSE Goes(i, "chain")
    /\ admin' = TRUE
    /\ UNCHANGED <<chain, table, turn, txs, stored, thread, cut, torn, execs, faults>>

\* CheckAdminProposalKeyCount.
CheckChain(i) ==
    /\ At(i, "chain")
    /\ Goes(i, IF Cardinality(Usable) < Wanted[i] THEN "get" ELSE "table")
    /\ UNCHANGED <<chain, admin, table, turn, txs, stored, thread, cut, torn, execs, faults>>

CheckTable(i) ==
    /\ At(i, "table")
    /\ IF Len(table) < Wanted[i] THEN Goes(i, "get") ELSE server' = [server EXCEPT ![i] = [Down EXCEPT !.pc = "serve"]]
    /\ UNCHANGED <<chain, admin, table, turn, txs, stored, thread, cut, torn, execs, faults>>

\* InitAdminProposalKeys.
GetKeys(i) ==
    /\ At(i, "get")
    /\ server' = [server EXCEPT ![i] = [@ EXCEPT !.pc = "delete", !.keys = Usable, !.found = Cardinality(Usable),
                                                  !.replaces = TRUE]]
    /\ torn' = (torn \/ \E j \in Instances \ {i} : server[j].replaces)
    /\ UNCHANGED <<chain, admin, table, turn, txs, stored, thread, cut, execs, faults>>

TableChanges == thread' = [t \in Threads |-> [thread[t] EXCEPT !.reset = thread[t].pc # "idle"]]

DeleteAll(i) ==
    /\ At(i, "delete")
    /\ table' = <<>> /\ turn' = <<>>
    /\ Goes(i, "fill")
    /\ TableChanges
    /\ UNCHANGED <<chain, admin, txs, stored, cut, torn, execs, faults>>

\* In the order of the chain.  The index of a key is unique in the table.
InsertKey(i) ==
    /\ At(i, "fill")
    /\ \E key \in server[i].keys :
         /\ \A k \in server[i].keys : key <= k
         /\ \/ /\ key \in Range(table)
               /\ Fatal(i) /\ UNCHANGED <<table, turn, thread>>
            \/ /\ key \notin Range(table)
               /\ table' = Append(table, key) /\ turn' = Append(turn, key)
               /\ server' = [server EXCEPT ![i].keys = @ \ {key}]
               /\ TableChanges
    /\ UNCHANGED <<chain, admin, txs, stored, cut, torn, execs, faults>>

FilledOnce(i) ==
    /\ At(i, "fill") /\ server[i].keys = {}
    /\ server' = [server EXCEPT ![i] = [Down EXCEPT !.pc = "serve"]]
    /\ UNCHANGED <<chain, admin, table, turn, txs, stored, thread, cut, torn, execs, faults>>

\* The table has all keys that were on chain.  It is not looked at again after keys were added.
Filled(i) ==
    /\ At(i, "fill") /\ server[i].keys = {}
    /\ IF server[i].tx = 0 /\ server[i].found < Wanted[i]
         THEN Goes(i, "sign")
         ELSE server' = [server EXCEPT ![i] = [Down EXCEPT !.pc = "serve"]]
    /\ UNCHANGED <<chain, admin, table, turn, txs, stored, thread, cut, torn, execs, faults>>

\* addAdminProposalKeys: the admin's own key proposes.
SignAdd(i) ==
    /\ At(i, "sign")
    /\ Signed("keys", AdminKey, Wanted[i] - server[i].found)
    /\ server' = [server EXCEPT ![i].pc = "send", ![i].tx = Len(txs) + 1]
    /\ UNCHANGED <<chain, admin, table, turn, stored, thread, cut, torn, execs, faults>>

SendAdd(i) ==
    /\ At(i, "send")
    /\ Sent(server[i].tx) /\ Goes(i, "wait")
    /\ UNCHANGED <<chain, admin, table, turn, stored, thread, cut, torn, execs, faults>>

Added(i) ==
    /\ At(i, "wait") /\ txs[server[i].tx].state = "sealed"
    /\ Goes(i, "get")
    /\ UNCHANGED <<chain, admin, table, turn, txs, stored, thread, cut, torn, execs, faults>>

NotAdded(i) ==
    /\ At(i, "wait") /\ txs[server[i].tx].state = "failed"
    /\ Fatal(i) /\ torn' = TRUE
    /\ UNCHANGED <<chain, admin, table, turn, txs, stored, thread, cut, execs, faults>>

-----------------------------------------------------------------------------
(* Jobs.                                                                   *)

Serving(t) == server[Home[t]].pc = "serve"
Done(t) == thread' = [thread EXCEPT ![t] = Idle]
Sending(t) == thread[t].kind = "account" /\ thread[t].pc \in {"wait", "save"}

\* Does the chain have an account of this thread's, or will it, that is not stored?
Cut(T) == cut' = cut + Cardinality({t \in T : Sending(t)})

Candidates(t) == {table[n] : n \in {m \in DOMAIN table : m <= Wanted[Home[t]]}}

PickNewest(t) ==
    {n \in DOMAIN turn : turn[n] \in Candidates(t) /\ \A m \in DOMAIN turn : turn[m] \in Candidates(t) => m <= n}

\* ProposalKeyIndex, behind a lock: where the least recently used one stands.
Pick(t) ==
    {n \in DOMAIN turn : turn[n] \in Candidates(t) /\ \A m \in DOMAIN turn : turn[m] \in Candidates(t) => n <= m}

\* createAccount, or the signing of a transaction to be sent by a job.  While
\* the table is empty there is no key to choose, and the request fails.
Begin(t, kind) ==
    /\ kind \in Kinds
    /\ thread[t].pc = "idle" /\ Serving(t)
    /\ execs < MaxExec /\ execs' = execs + 1
    /\ \E n \in Pick(t) :
         /\ turn' = Append(RemoveAt(turn, n), turn[n])
         /\ thread' = [u \in Threads |->
              IF u = t THEN [Idle EXCEPT !.pc = "sign", !.kind = kind, !.key = turn[n]]
              ELSE IF thread[u].pc = "idle" THEN Idle ELSE [thread[u] EXCEPT !.picks = @ + 1]]
    /\ UNCHANGED <<chain, admin, table, txs, stored, server, cut, torn, faults>>

\* The sequence number is read from the chain after the key was chosen.  A raw transaction
\* is stored, and its job sends it later.
Sign(t) ==
    /\ thread[t].pc = "sign"
    /\ Signed(thread[t].kind, thread[t].key, 0)
    /\ IF thread[t].kind = "raw" THEN Done(t)
       ELSE thread' = [thread EXCEPT ![t].pc = "send", ![t].tx = Len(txs) + 1]
    /\ UNCHANGED <<chain, admin, table, turn, stored, server, cut, torn, execs, faults>>

\* executeTransactionJob, as often as the job engine likes: the same transaction each time.
Execute(t, k) ==
    /\ thread[t].pc = "idle" /\ Serving(t)
    /\ txs[k].kind = "raw" /\ txs[k].state \in {"signed", "pending"}
    /\ thread' = [thread EXCEPT ![t] = [Idle EXCEPT !.pc = "send", !.tx = k, !.key = txs[k].key, !.reset = TRUE]]
    /\ UNCHANGED <<chain, admin, table, turn, txs, stored, server, cut, torn, execs, faults>>

Send(t) ==
    /\ thread[t].pc = "send"
    /\ Sent(thread[t].tx)
    /\ thread' = [thread EXCEPT ![t].pc = "wait"]
    /\ UNCHANGED <<chain, admin, table, turn, stored, server, cut, torn, execs, faults>>

SendFails(t) ==
    /\ thread[t].pc = "send" /\ MayFail("send")
    /\ \/ UNCHANGED <<txs, cut>>
       \/ Sent(thread[t].tx) /\ cut' = cut + (IF thread[t].kind = "account" THEN 1 ELSE 0)
    /\ Done(t)
    /\ UNCHANGED <<chain, admin, table, turn, stored, server, torn, execs>>

\* The result: an account is to be stored, a raw transaction was all there was to do.
Sealed(t) ==
    /\ thread[t].pc = "wait" /\ txs[thread[t].tx].state = "sealed"
    /\ IF thread[t].kind = "raw" THEN Done(t) ELSE thread' = [thread EXCEPT ![t].pc = "save"]
    /\ UNCHANGED <<chain, admin, table, turn, txs, stored, server, cut, torn, execs, faults>>

Failed(t) ==
    /\ thread[t].pc = "wait" /\ txs[thread[t].tx].state = "failed"
    /\ Done(t)
    /\ UNCHANGED <<chain, admin, table, turn, txs, stored, server, cut, torn, execs, faults>>

AccountStoredNever(t) == Done(t) /\ UNCHANGED stored

\* InsertAccount, with the keys.
AccountStored(t) == Done(t) /\ stored' = stored \union {thread[t].tx}

Save(t) ==
    /\ thread[t].pc = "save"
    /\ AccountStored(t)
    /\ UNCHANGED <<chain, admin, table, turn, txs, server, cut, torn, execs, faults>>

\* The key pair was only in the hands of this thread.
CutOff(t) ==
    /\ \/ thread[t].pc = "wait" /\ MayFail("result")
       \/ thread[t].pc = "save" /\ MayFail("store")
    /\ Cut({t}) /\ Done(t)
    /\ UNCHANGED <<chain, admin, table, turn, txs, stored, server, torn, execs>>

-----------------------------------------------------------------------------
(* The Flow network.                                                       *)

Valid(k) == txs[k].seq = chain[txs[k].key].seq /\ ~ chain[txs[k].key].revoked

\* Keys are added as copies of the admin's key.
Includes(k) ==
    /\ txs[k].state = "pending" /\ Valid(k)
    /\ chain' = [chain EXCEPT ![txs[k].key].seq = @ + 1]
                   \o [n \in 1..txs[k].count |-> [seq |-> 0, revoked |-> FALSE]]
    /\ txs' = [txs EXCEPT ![k].state = "sealed"]
    /\ UNCHANGED <<admin, table, turn, stored, server, thread, cut, torn, execs, faults>>

Rejects(k) ==
    /\ txs[k].state = "pending"
    /\ IF Valid(k) THEN MayFail("drop") ELSE UNCHANGED faults
    /\ txs' = [txs EXCEPT ![k].state = "failed"]
    /\ UNCHANGED <<chain, admin, table, turn, stored, server, thread, cut, torn, execs>>

Crash(i) ==
    /\ ~ At(i, "down") /\ MayFail("crash")
    /\ Fatal(i)
    /\ torn' = (torn \/ server[i].replaces)
    /\ Cut({t \in Threads : Home[t] = i})
    /\ thread' = [t \in Threads |-> IF Home[t] = i THEN Idle ELSE thread[t]]
    /\ UNCHANGED <<chain, admin, table, turn, txs, stored, execs>>

-----------------------------------------------------------------------------
Boot(i) ==
    \/ Start(i) \/ FindAdmin(i) \/ InsertAdmin(i) \/ CheckChain(i) \/ CheckTable(i)
    \/ GetKeys(i) \/ DeleteAll(i) \/ InsertKey(i) \/ Filled(i)
    \/ SignAdd(i) \/ SendAdd(i) \/ Added(i) \/ NotAdded(i)

ThreadStep(t) ==
    \/ \E kind \in Kinds : Begin(t, kind)
    \/ \E k \in DOMAIN txs : Execute(t, k)
    \/ Sign(t) \/ Send(t) \/ SendFails(t) \/ Sealed(t) \/ Failed(t) \/ Save(t) \/ CutOff(t)

Decides(k) == Includes(k) \/ Rejects(k)

Next ==
    \/ \E i \in Instances : Boot(i) \/ Crash(i)
    \/ \E t \in Threads : ThreadStep(t)
    \/ \E k \in DOMAIN txs : Decides(k)

Spec == Init /\ [][Next]_vars

\* A process takes its next step and is started again, and the network decides.
FairSpec ==
    /\ Spec
    /\ \A i \in Instances : WF_vars(Boot(i))
    /\ WF_vars(\E k \in DOMAIN txs : Decides(k))

-----------------------------------------------------------------------------
(* Properties.                                                             *)

TypeOK ==
    /\ chain \in Seq(Key) /\ admin \in BOOLEAN
    /\ table \in Seq(ProposalKey) /\ turn \in Seq(ProposalKey)
    /\ txs \in Seq(Tx) /\ stored \subseteq DOMAIN txs
    /\ server \in [Instances -> Server] /\ thread \in [Threads -> Execution]
    /\ cut \in Nat /\ torn \in BOOLEAN /\ execs \in Nat /\ faults \in Nat

\* However the instances interleave while they replace the table, it never has a key
\* twice, one beyond the end of the list the chain returns, or a revoked one.
TableUsable ==
    /\ TypeOK
    /\ \A m, n \in DOMAIN table : table[m] = table[n] => m = n
    /\ Range(turn) = Range(table) /\ Len(turn) = Len(table)
    /\ \A k \in Range(table) : k \in DOMAIN chain /\ ~ chain[k].revoked

\* An instance that serves has as many keys in the table as it is configured for, unless
\* one is just replacing them, or has died or met another one while it did.
ServesWithKeys ==
    \A i \in Instances : At(i, "serve") =>
        Len(table) >= Wanted[i] \/ torn \/ \E j \in Instances : server[j].replaces

Lost == {k \in DOMAIN txs : txs[k].kind = "account" /\ txs[k].state = "sealed" /\ k \notin stored}

\* Every account on chain whose key is known to nobody comes from an execution that was cut
\* off after it had sent its transaction.
AccountsAccounted ==
    Cardinality({k \in Lost : \A t \in Threads : thread[t].tx # k}) <= cut

\* Two executions have the same key in hand only if as many keys were chosen since the
\* earlier choice as the later one has to choose from, or the table changed in between.
InTurn ==
    \A t, u \in Threads :
        t # u /\ thread[t].pc # "idle" /\ thread[u].pc # "idle" /\ thread[t].key = thread[u].key =>
            \/ thread[t].picks >= Cardinality(Candidates(u)) \/ thread[u].picks >= Cardinality(Candidates(t))
            \/ thread[t].reset \/ thread[u].reset

\* Instances that start at the same time may end each other's start, but not for ever.
EveryoneServes == \A i \in Instances : []<>At(i, "serve")
=============================================================================
