------------------------------ MODULE Transfers ------------------------------
(***************************************************************************)
(* Withdrawals and deposits: package tokens, on top of package templates.  *)
(*                                                                         *)
(* A withdrawal is a job, or a request that waits: it signs a transaction, *)
(* sends it, waits for the seal and stores a transfer.  The job engine     *)
(* executes a job at least once, one worker at a time (WorkerPool), and    *)
(* each execution is a new transaction.  A deposit is a transfer stored by *)
(* the handler of a chain event, which is delivered at least once, in a    *)
(* goroutine of its own (ChainListener); a handler that meets an error     *)
(* only logs it.  Both may store the same transfer.  The accounts which    *)
(* deposits are registered for come and go with the watch list.            *)
(***************************************************************************)
EXTENDS TokenRegistry

CONSTANTS
    Threads,    \* workers, waiting requests and event handlers
    Requested,  \* withdrawals by id: [to, name], in the sender's name
    Sync,       \* those of them a client waits for
    Outside,    \* transactions of others by id: [to, contract, times, raw]
    Custodial,  \* accounts of the wallet
    Watched,    \* addresses that may be put on the watch list
    SetUp,      \* pairs of an account and a token name that Setup is called with
    Faults,     \* which faults happen
    MaxTxs,     \* bound of the instance: transactions
    MaxHandled  \* bound of the instance: deliveries of deposit events

AllFaults == {"send",   \* sending fails, before or after it has taken effect
              "result", \* asking for the result of a sent transaction fails
              "store",  \* a statement of the database fails
              "crash"}  \* the process dies

Requests == DOMAIN Requested
Accounts == Custodial \union Watched

ASSUME TransfersOK ==
    /\ Faults \subseteq AllFaults
    /\ Sync \subseteq Requests
    /\ Requests \intersect DOMAIN Outside = {}
    /\ Custodial \intersect Watched = {} /\ SetUp \subseteq Accounts \X Names
    /\ \A o \in DOMAIN Outside : Outside[o].to \in STRING /\ Outside[o].contract \in Contracts
                                 /\ Outside[o].times \in Nat \ {0}
    /\ \A i \in Requests : Requested[i].to \in STRING /\ Requested[i].name \in Names
    /\ MaxTxs \in Nat /\ MaxHandled \in Nat

VARIABLES
    txs,       \* transactions by id, with what the chain and the table transactions say of them
    rows,      \* token_transfers
    enabled,   \* account_tokens: pairs of an account and a token
    accounts,  \* accounts, by address
    status,    \* of each request: the state of its job
    thread,    \* of each thread: what it does and has read
    cut,       \* history, of each request: executions cut off after their transaction was sent
    raced,     \* history: transactions that two threads were busy with at a time
    handled,   \* history: deposits whose handler ended without an error
    begun      \* history: deliveries

transferVars == <<txs, rows, enabled, accounts, status, thread, cut, raced, handled, begun>>
vars == <<registryVars, transferVars>>

\* transactions.Type; "none" is no row.
RowTypes == {"none", "Unknown", "General", "FtTransfer", "NftTransfer"}
Tx == [origin : Requests \union DOMAIN Outside, to : STRING, contract : Contracts, times : Nat \ {0},
       state : {"signed", "pending", "sealed", "failed"}, type : RowTypes]
Transfer == [tx : Nat \ {0}, to : STRING, name : Names, nth : Nat \ {0}, by : {"withdrawal", "deposit"}]
AccountToken == Accounts \X Contracts
Execution == [pc : {"idle", "send", "wait", "save", "report", "enable", "look", "insert"},
              tx : Nat, nth : Nat, token : Contracts]

Idle == [pc |-> "idle", tx |-> 0, nth |-> 0, token |-> CHOOSE c \in Contracts : TRUE]
InHand(k) == {t \in Threads : thread[t].pc # "idle" /\ thread[t].tx = k}

Init ==
    /\ RegistryInit
    /\ txs = <<>> /\ rows = <<>> /\ enabled = {}
    /\ accounts = Custodial
    /\ status = [i \in Requests |-> "open"]
    /\ thread = [t \in Threads |-> Idle]
    /\ cut = [i \in Requests |-> 0]
    /\ raced = {} /\ handled = {} /\ begun = 0

-----------------------------------------------------------------------------
(* Withdrawals.                                                            *)

\* Faulty variants for mutation testing: TransferTypeToken, ReportOpen, TypedUnknown,
\* TypedAlways and FoundNever each break a property of the run in the place of the definition
\* below them.
TransferTypeToken(token) == token.type

\* The type of the transaction that moves a token.
TransferType(token) == IF token.type = "FT" THEN "FtTransfer" ELSE "NftTransfer"

Request(t) == txs[thread[t].tx].origin
Done(t) == thread' = [thread EXCEPT ![t] = Idle]

\* An error is the answer to a client; a job is tried again unless it has failed too often.
Fails(i) == \E s \in (IF i \in Sync THEN {"failed"} ELSE {"open", "failed"}) : status' = [status EXCEPT ![i] = s]

\* createWithdrawal up to InsertTransaction: it signs with the token of that name now.
Withdraw(t, i) ==
    /\ thread[t].pc = "idle" /\ status[i] = "open"
    /\ \A u \in Threads : thread[u].pc # "idle" => txs[thread[u].tx].origin # i
    /\ Len(txs) < MaxTxs
    /\ \E token \in GetByName(Requested[i].name) :
         /\ txs' = Append(txs, [origin |-> i, to |-> Requested[i].to, contract |-> token, times |-> 1,
                                state |-> "signed", type |-> TransferType(token)])
         /\ thread' = [thread EXCEPT ![t] = [pc |-> "send", tx |-> Len(txs) + 1, nth |-> 1, token |-> token]]
    /\ UNCHANGED <<registryVars, rows, enabled, accounts, status, cut, raced, handled, begun>>

Send(t) ==
    /\ thread[t].pc = "send"
    /\ txs' = [txs EXCEPT ![thread[t].tx].state = "pending"]
    /\ thread' = [thread EXCEPT ![t].pc = "wait"]
    /\ UNCHANGED <<registryVars, rows, enabled, accounts, status, cut, raced, handled, begun>>

SendFails(t) ==
    /\ "send" \in Faults /\ thread[t].pc = "send"
    /\ \/ UNCHANGED <<txs, cut>>
       \/ /\ txs' = [txs EXCEPT ![thread[t].tx].state = "pending"]
          /\ cut' = [cut EXCEPT ![Request(t)] = @ + 1]
    /\ Fails(Request(t)) /\ Done(t)
    /\ UNCHANGED <<registryVars, rows, enabled, accounts, raced, handled, begun>>

\* The network executes a transaction, or it fails or expires.
Execute(k) ==
    /\ txs[k].state = "pending"
    /\ \E s \in {"sealed", "failed"} : txs' = [txs EXCEPT ![k].state = s]
    /\ UNCHANGED <<registryVars, rows, enabled, accounts, status, thread, cut, raced, handled, begun>>

\* WaitForSeal.
Sealed(t) ==
    /\ thread[t].pc = "wait" /\ txs[thread[t].tx].state = "sealed"
    /\ thread' = [thread EXCEPT ![t].pc = "save"]
    /\ UNCHANGED <<registryVars, txs, rows, enabled, accounts, status, cut, raced, handled, begun>>

Rejected(t) ==
    /\ thread[t].pc = "wait" /\ txs[thread[t].tx].state = "failed"
    /\ Fails(Request(t)) /\ Done(t)
    /\ UNCHANGED <<registryVars, txs, rows, enabled, accounts, cut, raced, handled, begun>>

SaveTransfer(t) ==
    /\ thread[t].pc = "save"
    /\ rows' = Append(rows, [tx |-> thread[t].tx, to |-> Requested[Request(t)].to,
                             name |-> thread[t].token.name, nth |-> 1, by |-> "withdrawal"])
    /\ thread' = [thread EXCEPT ![t].pc = "report"]
    /\ UNCHANGED <<registryVars, txs, enabled, accounts, status, cut, raced, handled, begun>>

\* Asking for the result fails or times out, or a transfer or the end of the job cannot be stored.
CutOff(t) ==
    /\ \/ "result" \in Faults /\ thread[t].pc = "wait" /\ Fails(Request(t))
       \/ "store" \in Faults /\ thread[t].pc = "save" /\ Fails(Request(t))
       \/ "store" \in Faults /\ thread[t].pc = "report" /\ Request(t) \notin Sync /\ UNCHANGED status
    /\ cut' = [cut EXCEPT ![Request(t)] = @ + 1]
    /\ Done(t)
    /\ UNCHANGED <<registryVars, txs, rows, enabled, accounts, raced, handled, begun>>

ReportOpen(t) ==
    /\ thread[t].pc = "report"
    /\ Done(t)
    /\ UNCHANGED <<registryVars, txs, rows, enabled, accounts, status, cut, raced, handled, begun>>

\* The job is complete, or the client has the transaction.
Report(t) ==
    /\ thread[t].pc = "report"
    /\ status' = [status EXCEPT ![Request(t)] = "done"]
    /\ Done(t)
    /\ UNCHANGED <<registryVars, txs, rows, enabled, accounts, cut, raced, handled, begun>>

-----------------------------------------------------------------------------
(* Deposits.                                                               *)

\* A transaction a client of the wallet wrote has a row, of its own type.
RowOf(o) == IF Outside[o].raw THEN "General" ELSE "none"

\* Someone else's transaction, or such a one.
Arrive(o) ==
    /\ \A k \in DOMAIN txs : txs[k].origin # o
    /\ Len(txs) < MaxTxs
    /\ txs' = Append(txs, [origin |-> o, to |-> Outside[o].to, contract |-> Outside[o].contract,
                           times |-> Outside[o].times, state |-> "sealed",
                           type |-> RowOf(o)])
    /\ UNCHANGED <<registryVars, rows, enabled, accounts, status, thread, cut, raced, handled, begun>>

TypedUnknown(type) == IF type = "none" THEN "Unknown" ELSE type
TypedAlways(type) == "FtTransfer"

\* RegisterDeposit takes a transaction it does not know for a transfer of a fungible token.
Typed(type) == IF type \in {"none", "Unknown"} THEN "FtTransfer" ELSE type

\* The event is delivered, its token resolved and its account found.
Delivered(k, n) ==
    /\ begun < MaxHandled
    /\ txs[k].state = "sealed" /\ n \in 1..txs[k].times
    /\ DepositEventType(txs[k].contract) \in EventTypes
    /\ txs[k].to \in accounts

\* handleDeposit, and RegisterDeposit up to the SELECT of InsertAccountToken.
Handle(t, k, n) ==
    /\ thread[t].pc = "idle" /\ Delivered(k, n)
    /\ \E token \in TokenFromEvent(txs[k].contract) :
         thread' = [thread EXCEPT ![t] = [pc |-> IF <<txs[k].to, token>> \in enabled THEN "look" ELSE "enable",
                                          tx |-> k, nth |-> n, token |-> token]]
    /\ txs' = [txs EXCEPT ![k].type = Typed(@)]
    /\ raced' = IF InHand(k) = {} THEN raced ELSE raced \union {k}
    /\ begun' = begun + 1
    /\ UNCHANGED <<registryVars, rows, enabled, accounts, status, cut, handled>>

\* The access node does not return the transaction, or its type cannot be saved: the
\* row stays behind, and the deposit is lost.
HandleFails(k, n) ==
    /\ Faults \intersect {"result", "store"} # {}
    /\ Delivered(k, n) /\ TokenFromEvent(txs[k].contract) # {}
    /\ txs' = [txs EXCEPT ![k].type = IF @ = "none" THEN "Unknown" ELSE @]
    /\ begun' = begun + 1
    /\ UNCHANGED <<registryVars, rows, enabled, accounts, status, thread, cut, raced, handled>>

\* The INSERT of InsertAccountToken.
Enable(t) ==
    LET pair == <<txs[thread[t].tx].to, thread[t].token>> IN
    /\ thread[t].pc = "enable"
    /\ pair \notin enabled /\ pair[1] \in accounts
    /\ enabled' = enabled \union {pair}
    /\ thread' = [thread EXCEPT ![t].pc = "look"]
    /\ UNCHANGED <<registryVars, txs, rows, accounts, status, cut, raced, handled, begun>>

\* Someone else has inserted it since the SELECT, or the account is gone, or the
\* database fails: an error, and the deposit is lost.
Lose(t) ==
    LET pair == <<txs[thread[t].tx].to, thread[t].token>> IN
    /\ \/ thread[t].pc = "enable" /\ (pair \in enabled \/ pair[1] \notin accounts)
       \/ "store" \in Faults /\ thread[t].pc \in {"enable", "look", "insert"}
    /\ Done(t)
    /\ UNCHANGED <<registryVars, txs, rows, enabled, accounts, status, cut, raced, handled, begun>>

FoundNever(t) == FALSE

\* TokenDeposit: joined with the transaction, which has to be of the token's type.
Found(t) ==
    /\ txs[thread[t].tx].type = TransferType(thread[t].token)
    /\ \E r \in DOMAIN rows : /\ rows[r].tx = thread[t].tx /\ rows[r].to = txs[thread[t].tx].to
                              /\ rows[r].name = thread[t].token.name

Look(t) ==
    /\ thread[t].pc = "look"
    /\ \/ /\ Found(t)
          /\ handled' = handled \union {<<thread[t].tx, thread[t].nth>>}
          /\ Done(t)
       \/ /\ ~ Found(t)
          /\ thread' = [thread EXCEPT ![t].pc = "insert"]
          /\ UNCHANGED handled
    /\ UNCHANGED <<registryVars, txs, rows, enabled, accounts, status, cut, raced, begun>>

Insert(t) ==
    /\ thread[t].pc = "insert"
    /\ rows' = Append(rows, [tx |-> thread[t].tx, to |-> txs[thread[t].tx].to, name |-> thread[t].token.name,
                             nth |-> thread[t].nth, by |-> "deposit"])
    /\ handled' = handled \union {<<thread[t].tx, thread[t].nth>>}
    /\ Done(t)
    /\ UNCHANGED <<registryVars, txs, enabled, accounts, status, cut, raced, begun>>

-----------------------------------------------------------------------------
(* Accounts and their tokens.                                              *)

\* Setup, AddAccountToken and the handler of AccountAdded: what the handler of a
\* deposit does, but an error is only logged.
EnableToken(a, n) ==
    /\ a \in accounts
    /\ \E token \in GetByName(n) : <<a, token>> \notin enabled /\ enabled' = enabled \union {<<a, token>>}
    /\ UNCHANGED <<registryVars, txs, rows, accounts, status, thread, cut, raced, handled, begun>>

\* AddNonCustodialAccount.  It stores the address as it was spelled: in another spelling than
\* the wallet's own it is a row no event finds.
Watch(a) ==
    /\ a \notin accounts
    /\ accounts' = accounts \union {a}
    /\ UNCHANGED <<registryVars, txs, rows, enabled, status, thread, cut, raced, handled, begun>>

\* DeleteNonCustodialAccount; the foreign key takes the account's tokens with it.
Unwatch(a) ==
    /\ a \in accounts
    /\ accounts' = accounts \ {a}
    /\ enabled' = {p \in enabled : p[1] # a}
    /\ UNCHANGED <<registryVars, txs, rows, status, thread, cut, raced, handled, begun>>

\* The process dies; a job it executed is still open, a client that waited has no answer.
Crash ==
    /\ "crash" \in Faults /\ \E t \in Threads : thread[t].pc # "idle"
    /\ Boot
    /\ thread' = [t \in Threads |-> Idle]
    /\ LET Busy(i, pcs) == \E t \in Threads : thread[t].pc \in pcs /\ Request(t) = i
       IN /\ status' = [i \in Requests |-> IF i \in Sync /\ Busy(i, {"send", "wait", "save", "report"})
                                             THEN "failed" ELSE status[i]]
          /\ cut' = [i \in Requests |-> IF Busy(i, {"wait", "save", "report"}) THEN cut[i] + 1 ELSE cut[i]]
    /\ UNCHANGED <<txs, rows, enabled, accounts, raced, handled, begun>>

Restart == Boot /\ temp' # temp /\ (\A t \in Threads : thread[t].pc = "idle") /\ UNCHANGED transferVars

ThreadStep(t) ==
    \/ \E i \in Requests : Withdraw(t, i)
    \/ Send(t) \/ SendFails(t) \/ Sealed(t) \/ Rejected(t) \/ SaveTransfer(t) \/ CutOff(t) \/ Report(t)
    \/ \E k \in DOMAIN txs : \E n \in 1..txs[k].times : Handle(t, k, n)
    \/ Enable(t) \/ Lose(t) \/ Look(t) \/ Insert(t)

Next ==
    \/ \E t \in Threads : ThreadStep(t)
    \/ \E k \in DOMAIN txs : Execute(k) \/ \E n \in 1..txs[k].times : HandleFails(k, n)
    \/ \E o \in DOMAIN Outside : Arrive(o)
    \/ \E p \in SetUp : EnableToken(p[1], p[2])
    \/ \E a \in Watched : Watch(a) \/ Unwatch(a)
    \/ RegistryStep /\ UNCHANGED transferVars
    \/ Crash \/ Restart

Spec == Init /\ [][Next]_vars

-----------------------------------------------------------------------------
(* Properties.                                                             *)

TypeOK ==
    /\ RegistryTypeOK
    /\ txs \in Seq(Tx) /\ rows \in Seq(Transfer)
    /\ enabled \subseteq AccountToken
    /\ accounts \subseteq Accounts
    /\ status \in [Requests -> {"open", "done", "failed"}]
    /\ thread \in [Threads -> Execution]
    /\ \A t \in Threads : thread[t].pc # "idle" => thread[t].tx \in DOMAIN txs /\ thread[t].nth > 0
    /\ cut \in [Requests -> Nat] /\ begun \in Nat
    /\ raced \subseteq DOMAIN txs /\ handled \subseteq (DOMAIN txs) \X Nat

Payments(i) == {k \in DOMAIN txs : txs[k].origin = i /\ txs[k].state = "sealed"}

\* However often the job of a withdrawal is executed, the recipient is paid once for it, and
\* once more for each execution that was cut off after its transaction was sent.  A failed
\* withdrawal that was never cut off has paid nothing.
PaymentsAccounted ==
    \A i \in Requests :
        Cardinality(Payments(i)) <=
            cut[i] + (IF status[i] = "done" \/ \E k \in Payments(i) : InHand(k) # {} THEN 1 ELSE 0)

\* The list of deposits or withdrawals of a token has a transfer only under the token's type.
Shown(r) == txs[rows[r].tx].type = TransferType(txs[rows[r].tx].contract)

\* A complete withdrawal has paid, and is in the sender's list of withdrawals.
CompleteIsListed ==
    \A i \in Requests : status[i] = "done" =>
        \E r \in DOMAIN rows : rows[r].tx \in Payments(i) /\ rows[r].by = "withdrawal" /\ Shown(r)

\* One transfer is stored once, however often its event is delivered and whether or not the wallet
\* sent it: unless two threads were busy with it at a time, or its transaction has another type
\* than the token (a non-fungible token from outside, a transaction a client wrote).
RegisteredOnce ==
    \A r, q \in DOMAIN rows :
        rows[r].tx = rows[q].tx /\ rows[r].name = rows[q].name /\ rows[r].tx \notin raced /\ Shown(r) => r = q

\* A deposit of a fungible token from outside whose handler had no error is in the list of
\* deposits: itself, or another one of the same transaction to the same account.
HandledIsListed ==
    \A d \in handled :
        LET tx == txs[d[1]] IN
        tx.contract.type = "FT" /\ tx.type # "General" =>
            \E r \in DOMAIN rows : rows[r].tx = d[1] /\ rows[r].to = tx.to /\ Shown(r)

\* Adding a token never changes the token a known name leads to, whatever its spelling:
\* withdrawals under way keep their contract.
AddKeepsNames ==
    [][Len(tokens') > Len(tokens) =>
          \A n \in Names : GetByName(n) # {} => GetByName(n)' = GetByName(n)]_vars
=============================================================================
