----------------------------- MODULE AccountKeys -----------------------------
(***************************************************************************)
(* The keys of one custodial account: packages accounts, keys and the      *)
(* synchronous part of transactions.                                       *)
(*                                                                         *)
(* The account has a list of keys on chain, which only grows (a key is     *)
(* revoked, never removed), and rows in storable_keys with the private     *)
(* keys.  Jobs add a key, revoke one, or bring the number of clones up to  *)
(* the configured count, each with a transaction the account itself signs  *)
(* by its least recently used row, and a change of the table after the     *)
(* seal.  The job engine runs a job at least once and several at a time,   *)
(* so a worker here may begin any operation at any time; a retry is one    *)
(* more execution.                                                         *)
(*                                                                         *)
(* A chain index is counted from 1 here, from 0 in the code.  Keys are     *)
(* told apart by their public keys; the original key pair is 0.            *)
(***************************************************************************)
EXTENDS Integers, Sequences, FiniteSets

CONSTANTS
    Workers,    \* goroutines of one wallet process that execute jobs
    Kinds,      \* which jobs are submitted
    Faults,     \* which faults happen
    InitKeys,   \* clones the account was created with
    NumKeys,    \* DefaultAccountKeyCount now, the target of a sync
    MaxExec     \* bound of the instance: executions

AllKinds == {"add", "revoke", "sync", "send"}
AllFaults == {"lost",    \* asking for the result of a sent transaction fails
              "expire",  \* a transaction expires before it is executed
              "reject",  \* a call before the transaction is sent fails
              "store",   \* the change of the table after the seal fails
              "crash"}   \* the process dies

ASSUME ConstantsOK ==
    /\ Kinds \subseteq AllKinds /\ Faults \subseteq AllFaults
    /\ InitKeys \in Nat \ {0} /\ NumKeys \in Nat \ {0}
    /\ MaxExec \in Nat
    /\ IsFiniteSet(Workers) /\ "nobody" \notin Workers

VARIABLES
    chain,   \* the account's keys on chain
    rows,    \* storable_keys, by id; a deleted row stays, no longer live
    clock,   \* time, as far as the table's updated_at tells it
    sent,    \* transactions the access node has and whose fate is not known
    worker,  \* of each worker: what it executes, how far it is, what it has read
    execs,   \* history: executions begun
    cut,     \* history: executions of addKey cut off after their transaction was sent
    smooth,  \* history: one execution at a time, and none cut off
    aligned  \* history: every sync that adds clones has found the chain's last key in the table

vars == <<chain, rows, clock, sent, worker, execs, cut, smooth, aligned>>

Pubs == 0..MaxExec
ChainKey == [pub : Pubs, revoked : BOOLEAN, seq : Nat]
Row == [index : Nat \ {0}, pub : Pubs, used : Nat, live : BOOLEAN]
Tx == [owner : Workers \cup {"nobody"}, op : AllKinds, signer : Nat \ {0}, key : Pubs, seq : Nat,
       index : Nat, pub : Pubs, count : Nat, status : {"pending", "sealed", "failed"}]
Execution ==
    [pc : {"idle", "seen", "pick", "sign", "send", "wait", "save"},
     op : AllKinds,
     index : Nat,           \* add: index foreseen; revoke: index to revoke; sync: first new index
     pub : Pubs,            \* add: the generated key; sync: the key to clone
     count : Nat,           \* sync: clones to add
     row : Nat,             \* revoke: id of the row to delete
     key : Nat,             \* id of the row that signs
     at : Nat,              \* updated_at of that row when it was picked
     seq : Nat,             \* sequence number read for it
     seen : Seq(ChainKey)]  \* sync: the keys GetAccount returned

NoExecution ==
    [pc |-> "idle", op |-> "send", index |-> 0, pub |-> 0, count |-> 0, row |-> 0,
     key |-> 0, at |-> 0, seq |-> 0, seen |-> <<>>]

\* As createAccount leaves it: InitKeys clones of one key pair, in both places.
Init ==
    /\ chain = [i \in 1..InitKeys |-> [pub |-> 0, revoked |-> FALSE, seq |-> 0]]
    /\ rows = [i \in 1..InitKeys |-> [index |-> i, pub |-> 0, used |-> 0, live |-> TRUE]]
    /\ clock = 0 /\ sent = {}
    /\ worker = [w \in Workers |-> NoExecution]
    /\ execs = 0 /\ cut = 0 /\ smooth = TRUE /\ aligned = TRUE

-----------------------------------------------------------------------------
Busy == {w \in Workers : worker[w].pc # "idle"}
Live == {r \in DOMAIN rows : rows[r].live}
Matching(keys, pub) == {i \in DOMAIN keys : ~keys[i].revoked /\ keys[i].pub = pub}

\* The row of the highest index, from which a sync numbers the clones it adds.
IsLast(r) == \A q \in Live : rows[q].index <= rows[r].index

\* Faulty variants for mutation testing: NextIndexFromTable, FailUnseen, PickKeyLatest, InsertKeysOld
\* and SignBehind each break a property of the run in the place of the definition below them.
NextIndexFromTable == rows[CHOOSE r \in Live : IsLast(r)].index + 1

\* getNextIndex: one above the last key on chain.
NextIndex == Len(chain) + 1

\* The worker ends its execution; what it sent and nobody waits for is only
\* remembered while it may still be executed.
Ended(w) == [worker EXCEPT ![w] = NoExecution]
Abandoned(W) ==
    {t \in sent : t.owner \notin W}
        \cup {[t EXCEPT !.owner = "nobody"] : t \in {u \in sent : u.owner \in W /\ u.status = "pending"}}

Begin(w) ==
    /\ worker[w].pc = "idle"
    /\ execs < MaxExec
    /\ execs' = execs + 1
    /\ UNCHANGED <<chain, rows, clock, sent, cut, aligned>>

\* The executions that have sent the key they add and not yet stored it.
Adding == {w \in Workers : worker[w].pc \in {"wait", "save"} /\ worker[w].op = "add"}

CutOff(W) == cut' = cut + Cardinality(Adding \cap W) /\ smooth' = FALSE

\* A panic in a job executor, which nothing recovers, or a crash: all workers stop.
ProcessDies ==
    /\ worker' = [w \in Workers |-> NoExecution]
    /\ sent' = Abandoned(Workers)
    /\ CutOff(Workers)
    /\ UNCHANGED <<chain, rows, clock, aligned>>

-----------------------------------------------------------------------------
(* Reading what the operation needs.  An early return with an error leaves   *)
(* no trace but the error of the job, and is not a step.                     *)

\* addKey up to the transaction: the table is read only to see that a first key
\* exists (Keys[0] panics without one), then a key is generated and getNextIndex asks the chain.
AddRead(w) ==
    /\ "add" \in Kinds
    /\ Live # {}
    /\ Begin(w)
    /\ worker' = [worker EXCEPT ![w] =
         [NoExecution EXCEPT !.pc = "pick", !.op = "add", !.index = NextIndex, !.pub = execs + 1]]
    /\ smooth' = (smooth /\ Busy = {})

\* revokeKey up to the transaction.  With several rows of one index, the last that is listed.
RevokeRead(w) ==
    /\ "revoke" \in Kinds
    /\ Cardinality(Live) # 1
    /\ \E r \in Live :
         worker' = [worker EXCEPT ![w] =
           [NoExecution EXCEPT !.pc = "pick", !.op = "revoke", !.index = rows[r].index, !.row = r]]
    /\ Begin(w)
    /\ smooth' = (smooth /\ Busy = {})

\* syncAccountKeyCount asks the chain first ...
SyncReadChain(w) ==
    /\ "sync" \in Kinds
    /\ Begin(w)
    /\ worker' = [worker EXCEPT ![w] = [NoExecution EXCEPT !.pc = "seen", !.op = "sync", !.seen = chain]]
    /\ smooth' = (smooth /\ Busy = {})

\* ... then the table, where some row comes first and is the one to clone.  The clones are
\* numbered from the table's last row, whatever the chain's last key is.
SyncReadRows(w) ==
    /\ worker[w].pc = "seen"
    /\ \E r, last \in Live :
         LET valid == Cardinality(Matching(worker[w].seen, rows[r].pub)) IN
         /\ IsLast(last)
         /\ \/ /\ valid >= NumKeys
               /\ worker' = Ended(w)
               /\ UNCHANGED aligned
            \/ /\ valid < NumKeys
               /\ worker' = [worker EXCEPT ![w] =
                    [NoExecution EXCEPT !.pc = "pick", !.op = "sync", !.index = rows[last].index + 1,
                                        !.pub = rows[r].pub, !.count = NumKeys - valid]]
               /\ aligned' = (aligned /\ rows[last].index = Len(chain))
    /\ UNCHANGED <<chain, rows, clock, sent, execs, cut, smooth>>

\* Any other transaction of the account.
SendRead(w) ==
    /\ "send" \in Kinds
    /\ Begin(w)
    /\ worker' = [worker EXCEPT ![w] = [NoExecution EXCEPT !.pc = "pick", !.op = "send"]]
    /\ smooth' = (smooth /\ Busy = {})

\* addKey and syncAccountKeyCount index the empty list of keys.
PanicNoKeys(w) ==
    /\ Live = {}
    /\ \/ /\ worker[w].pc = "idle" /\ "add" \in Kinds /\ execs < MaxExec /\ execs' = execs + 1
       \/ /\ worker[w].pc = "seen" /\ UNCHANGED execs
    /\ ProcessDies

-----------------------------------------------------------------------------
(* transactions.Create with sync = true.                                     *)

PickKeyLatest(w) ==
    /\ worker[w].pc = "pick"
    /\ \E r \in Live :
         /\ \A q \in Live : rows[r].used >= rows[q].used
         /\ rows' = [rows EXCEPT ![r].used = clock + 1]
         /\ worker' = [worker EXCEPT ![w].pc = "sign", ![w].key = r, ![w].at = clock + 1]
    /\ clock' = clock + 1
    /\ UNCHANGED <<chain, sent, execs, cut, smooth, aligned>>

\* The store's AccountKey: least recently used row, touched; no other caller in between.
PickKey(w) ==
    /\ worker[w].pc = "pick"
    /\ \E r \in Live :
         /\ \A q \in Live : rows[r].used <= rows[q].used
         /\ rows' = [rows EXCEPT ![r].used = clock + 1]
         /\ worker' = [worker EXCEPT ![w].pc = "sign", ![w].key = r, ![w].at = clock + 1]
    /\ clock' = clock + 1
    /\ UNCHANGED <<chain, sent, execs, cut, smooth, aligned>>

SignBehind(w) ==
    /\ worker[w].pc = "sign"
    /\ worker' = [worker EXCEPT ![w].pc = "send", ![w].seq = chain[rows[worker[w].key].index].seq - 1]
    /\ UNCHANGED <<chain, rows, clock, sent, execs, cut, smooth, aligned>>

\* MakeAuthorizer asks the chain for the sequence number; the transaction is signed and stored.
Sign(w) ==
    /\ worker[w].pc = "sign"
    /\ worker' = [worker EXCEPT ![w].pc = "send", ![w].seq = chain[rows[worker[w].key].index].seq]
    /\ UNCHANGED <<chain, rows, clock, sent, execs, cut, smooth, aligned>>

Transaction(w) ==
    LET e == worker[w] IN
    [owner |-> w, op |-> e.op, signer |-> rows[e.key].index, key |-> rows[e.key].pub, seq |-> e.seq,
     index |-> e.index, pub |-> e.pub, count |-> e.count, status |-> "pending"]

Send(w) ==
    /\ worker[w].pc = "send"
    /\ sent' = sent \cup {Transaction(w)}
    /\ worker' = [worker EXCEPT ![w].pc = "wait"]
    /\ UNCHANGED <<chain, rows, clock, execs, cut, smooth, aligned>>

FailUnseen(w) ==
    /\ worker[w].op # "sync"
    /\ worker' = [worker EXCEPT ![w].pc = "save"]
    /\ sent' = Abandoned({w})

\* Create returns no transaction with its error: addKey and revokeKey return the error,
\* syncAccountKeyCount reads the id of the missing transaction and panics.
Fail(w) ==
    /\ worker[w].op # "sync"
    /\ worker' = Ended(w)
    /\ sent' = Abandoned({w})

Rejected(w) ==
    /\ \/ "reject" \in Faults /\ worker[w].pc \in {"pick", "sign", "send"}
       \/ worker[w].pc = "pick" /\ Live = {}
    /\ \/ /\ Fail(w)
          /\ UNCHANGED <<chain, rows, clock, cut, smooth, aligned>>
       \/ worker[w].op = "sync" /\ ProcessDies
    /\ UNCHANGED execs

\* WaitForSeal finds an error or an expired transaction.
TxFails(w) ==
    /\ \E t \in sent : t.owner = w /\ t.status = "failed"
    /\ \/ /\ Fail(w)
          /\ UNCHANGED <<chain, rows, clock, cut, smooth, aligned>>
       \/ worker[w].op = "sync" /\ ProcessDies
    /\ UNCHANGED execs

\* WaitForSeal cannot get the result, or its timeout is over.
ResultLost(w) ==
    /\ "lost" \in Faults
    /\ worker[w].pc = "wait"
    /\ \/ /\ Fail(w)
          /\ CutOff({w})
          /\ UNCHANGED <<chain, rows, clock, aligned>>
       \/ worker[w].op = "sync" /\ ProcessDies
    /\ UNCHANGED execs

\* WaitForSeal finds the transaction sealed.
Sealed(w) ==
    /\ \E t \in sent : t.owner = w /\ t.status = "sealed"
    /\ sent' = {t \in sent : t.owner # w}
    /\ worker' = IF worker[w].op = "send" THEN Ended(w) ELSE [worker EXCEPT ![w].pc = "save"]
    /\ UNCHANGED <<chain, rows, clock, execs, cut, smooth, aligned>>

-----------------------------------------------------------------------------
(* The change of the table after the seal.                                   *)

NewRow(index, pub) == [index |-> index, pub |-> pub, used |-> clock + 1, live |-> TRUE]

InsertKeysOld(w) ==
    LET e == worker[w] IN
    \/ e.op = "add" /\ rows' = Append(rows, NewRow(e.index, rows[e.key].pub))
    \/ e.op = "sync" /\ rows' = rows \o [j \in 1..e.count |-> NewRow(e.index + j - 1, e.pub)]

\* SaveAccount inserts the new keys and leaves the other rows alone.
InsertKeys(w) ==
    LET e == worker[w] IN
    \/ e.op = "add" /\ rows' = Append(rows, NewRow(e.index, e.pub))
    \/ e.op = "sync" /\ rows' = rows \o [j \in 1..e.count |-> NewRow(e.index + j - 1, e.pub)]

\* DeleteKeyForAccount, a soft delete.
DeleteKey(w) ==
    /\ worker[w].op = "revoke"
    /\ rows' = [rows EXCEPT ![worker[w].row].live = FALSE]

Save(w) ==
    /\ worker[w].pc = "save"
    /\ InsertKeys(w) \/ DeleteKey(w)
    /\ clock' = clock + 1
    /\ worker' = Ended(w)
    /\ UNCHANGED <<chain, sent, execs, cut, smooth, aligned>>

SaveFails(w) ==
    /\ "store" \in Faults
    /\ worker[w].pc = "save"
    /\ worker' = Ended(w)
    /\ CutOff({w})
    /\ UNCHANGED <<chain, rows, clock, sent, execs, aligned>>

Crash ==
    /\ "crash" \in Faults
    /\ Busy # {}
    /\ ProcessDies
    /\ UNCHANGED execs

-----------------------------------------------------------------------------
(* The chain, external: it takes the transactions in any order.              *)

Authorized(t) ==
    LET k == chain[t.signer] IN ~k.revoked /\ k.pub = t.key /\ k.seq = t.seq

NewKeys(t) ==
    LET n == CASE t.op = "add" -> 1 [] t.op = "sync" -> t.count [] OTHER -> 0
    IN [j \in 1..n |-> [pub |-> t.pub, revoked |-> FALSE, seq |-> 0]]

\* Revoking a key again changes nothing.
After(t) ==
    [i \in DOMAIN chain |->
        [pub |-> chain[i].pub,
         revoked |-> chain[i].revoked \/ (t.op = "revoke" /\ i = t.index),
         seq |-> chain[i].seq + IF i = t.signer THEN 1 ELSE 0]] \o NewKeys(t)

\* A result nobody waits for is forgotten.
Settled(t, status) ==
    (sent \ {t}) \cup IF t.owner = "nobody" THEN {} ELSE {[t EXCEPT !.status = status]}

Execute(t) ==
    /\ t.status = "pending"
    /\ IF Authorized(t)
       THEN /\ chain' = After(t)
            /\ sent' = Settled(t, "sealed")
       ELSE /\ sent' = Settled(t, "failed")
            /\ UNCHANGED chain
    /\ UNCHANGED <<rows, clock, worker, execs, cut, smooth, aligned>>

Expire(t) ==
    /\ "expire" \in Faults
    /\ t.status = "pending"
    /\ sent' = Settled(t, "failed")
    /\ UNCHANGED <<chain, rows, clock, worker, execs, cut, smooth, aligned>>

-----------------------------------------------------------------------------
\* No job is in hand: the wallet waits for the next.
Waits == Busy = {} /\ sent = {} /\ UNCHANGED vars

Next ==
    \/ \E w \in Workers :
         \/ AddRead(w) \/ RevokeRead(w) \/ SyncReadChain(w) \/ SyncReadRows(w) \/ SendRead(w)
         \/ PanicNoKeys(w)
         \/ PickKey(w) \/ Sign(w) \/ Send(w)
         \/ Rejected(w) \/ TxFails(w) \/ ResultLost(w) \/ Sealed(w)
         \/ Save(w) \/ SaveFails(w)
    \/ Crash \/ Waits
    \/ \E t \in sent : Execute(t) \/ Expire(t)

Spec == Init /\ [][Next]_vars

-----------------------------------------------------------------------------
TypeOK ==
    /\ chain \in Seq(ChainKey) /\ rows \in Seq(Row) /\ clock \in Nat
    /\ sent \subseteq Tx
    /\ worker \in [Workers -> Execution]
    /\ execs \in 0..MaxExec /\ cut \in Nat /\ smooth \in BOOLEAN /\ aligned \in BOOLEAN

\* The table never runs ahead of the chain, whatever fails and however jobs overlap: a row
\* is stored after its key was added (service.go:544 before 553), a row is deleted after the chain
\* revoked its index (612 before 621), and MakeAuthorizer, which indexes the chain's keys with a
\* row's index without a check (keys/basic/keys.go:187), never reaches beyond their end.
TableFollowsChain ==
    \A r \in DOMAIN rows :
        /\ \E i \in DOMAIN chain : chain[i].pub = rows[r].pub
        /\ rows[r].index \in DOMAIN chain
        /\ ~rows[r].live => chain[rows[r].index].revoked

Usable(r) ==
    LET k == chain[rows[r].index] IN ~k.revoked /\ k.pub = rows[r].pub

\* As long as jobs run one at a time and are not cut off, the table and the chain agree between
\* jobs, key by key, and the account can always sign: the index getNextIndex foresees is the one
\* the chain gives, a revoked key loses its own row, and the last key is never revoked.  Excepted
\* are the runs in which a sync adds clones while the chain's last key is a revoked one: it counts
\* their indices from the last row (service.go:276), so a clone's row has the index of that key.
KeysAgree ==
    smooth /\ aligned =>
        /\ \E r \in Live : Usable(r)
        /\ Busy = {} =>
             {<<rows[r].index, rows[r].pub>> : r \in Live}
                 = {<<i, chain[i].pub>> : i \in {j \in DOMAIN chain : ~chain[j].revoked}}

\* A key on chain whose private key the wallet does not have stands for an execution of addKey
\* that was cut off after it had sent its transaction, or is not over: retries and overlapping
\* jobs strand no further keys.
StrandedAccounted ==
    LET stranded == {i \in DOMAIN chain : \A r \in DOMAIN rows : rows[r].pub # chain[i].pub}
    IN Cardinality(stranded) <= cut + Cardinality(Adding)

\* Keys are taken in turn: while a transaction is on its way, its key is picked again, and with it
\* perhaps the same sequence number read, only after every other key of the account has been
\* picked or added.
TakenInTurn ==
    \A w \in Workers : worker[w].pc \in {"sign", "send", "wait"} =>
        LET e == worker[w] IN
        /\ rows[e.key].used >= e.at
        /\ rows[e.key].used > e.at => \A r \in Live : rows[r].used > e.at

\* What the guard of revokeKey is for (service.go:594): the account keeps a key it can sign with.
\* Two jobs may both have counted two rows before either revokes its key.
KeepsAKey == \E r \in Live : Usable(r)
=============================================================================
