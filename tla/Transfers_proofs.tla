--------------------------- MODULE Transfers_proofs ---------------------------
(***************************************************************************)
(* Proofs about Transfers and TokenRegistry, for any tokens, withdrawals,  *)
(* deposits, accounts and faults: payments and lists of transfers agree    *)
(* with the chain, and adding a token keeps what known names lead to.      *)
(***************************************************************************)
EXTENDS Transfers, FiniteSetTheorems, SequenceTheorems, TLAPS

-----------------------------------------------------------------------------
(* The tokens.                                                             *)

\* What a name leads to is a token.
LEMMA FoundTokens ==
    ASSUME RegistryTypeOK
    PROVE  /\ \A n : FromDB(n) \subseteq Contracts /\ GetByName(n) \subseteq Contracts
           /\ \A c : TokenFromEvent(c) \subseteq Contracts
<1>1. temp \subseteq Contracts
  BY RegistryOK DEF RegistryTypeOK
<1>4. \A i \in DOMAIN tokens : tokens[i].token \in Contracts
  <2>. \A i \in DOMAIN tokens : tokens[i] \in Token
    BY DEF RegistryTypeOK
  <2>. QED
    BY DEF Token
<1>2. \A n : FromDB(n) \subseteq Contracts
  <2>. TAKE n
  <2>. \A i \in First({j \in Live : <<n, tokens[j].token.name>> \in Alike}) : i \in DOMAIN tokens
    BY DEF First, Live
  <2>. QED
    BY <1>4 DEF FromDB
<1>3. \A n : GetByName(n) \subseteq Contracts
  BY <1>1, <1>2 DEF GetByName, FromTemp
<1>. QED
  BY <1>2, <1>3 DEF TokenFromEvent

LEMMA RegistryInitType == RegistryInit => RegistryTypeOK
<1>. SUFFICES ASSUME RegistryInit PROVE RegistryTypeOK
  OBVIOUS
<1>1. tokens \in Seq(Token)
  <2>1. /\ InitTokens \in Seq(Contracts) /\ Len(InitTokens) \in Nat
        /\ DOMAIN InitTokens = 1..Len(InitTokens) /\ \A i \in DOMAIN InitTokens : InitTokens[i] \in Contracts
    BY RegistryOK
  <2>2. tokens = [i \in 1..Len(InitTokens) |-> [token |-> InitTokens[i], live |-> TRUE]]
    BY <2>1 DEF RegistryInit
  <2>3. \A i \in 1..Len(InitTokens) : [token |-> InitTokens[i], live |-> TRUE] \in Token
    BY <2>1 DEF Token
  <2>4. tokens \in [1..Len(InitTokens) -> Token]
    BY <2>2, <2>3
  <2>. QED
    BY <2>1, <2>4, SeqDef
<1>2. \A i \in DOMAIN tokens : i \in DOMAIN InitTokens /\ tokens[i].token = InitTokens[i]
  BY DEF RegistryInit
<1>. QED
  BY <1>1, <1>2, RegistryOK DEF RegistryInit, RegistryTypeOK, Live

LEMMA RegistryTypeStep ==
    ASSUME RegistryTypeOK, RegistryStep \/ Boot \/ UNCHANGED registryVars
    PROVE  RegistryTypeOK'
<1>1. ASSUME NEW t \in Added, AddToken(t) PROVE RegistryTypeOK'
  <2>1. t \in Contracts /\ Len(tokens) \in Nat
    BY RegistryOK DEF RegistryTypeOK
  <2>0. [token |-> t, live |-> TRUE] \in Token
    BY <2>1 DEF Token
  <2>2. tokens' \in Seq(Token) /\ temp' \subseteq Enabled
    BY <1>1, <2>0, <2>1 DEF AddToken, RegistryTypeOK
  <2>3. \A i \in Live' : \/ i \in Live /\ tokens'[i] = tokens[i]
                         \/ i = Len(tokens) + 1 /\ tokens'[i].token = t
    <3>. tokens' = Append(tokens, [token |-> t, live |-> TRUE])
      BY <1>1 DEF AddToken
    <3>. DOMAIN tokens = 1..Len(tokens) /\ DOMAIN tokens' = 1..(Len(tokens) + 1)
      BY <2>1 DEF RegistryTypeOK
    <3>. QED
      BY <1>1, <2>1 DEF AddToken, RegistryTypeOK, Live
  <2>. QED
    BY <1>1, <2>2, <2>3 DEF AddToken, RegistryTypeOK
<1>2. ASSUME NEW i \in DOMAIN tokens, RemoveToken(i) PROVE RegistryTypeOK'
  <2>3. tokens[i] \in Token /\ tokens' = [tokens EXCEPT ![i] = [tokens[i] EXCEPT !.live = FALSE]]
    BY <1>2 DEF RemoveToken, RegistryTypeOK
  <2>4. [tokens[i] EXCEPT !.live = FALSE] \in Token
    BY <2>3 DEF Token
  <2>1. tokens' \in Seq(Token) /\ temp' \subseteq Enabled
    BY <1>2, <2>3, <2>4, ExceptSeq DEF RemoveToken, RegistryTypeOK
  <2>2. \A j \in Live' : j \in Live /\ tokens'[j].token = tokens[j].token
    BY <1>2 DEF RemoveToken, RegistryTypeOK, Live, Token
  <2>. QED
    BY <2>1, <2>2 DEF RegistryTypeOK
<1>3. CASE Boot
  BY <1>3 DEF Boot, RegistryTypeOK, Live
<1>4. CASE UNCHANGED registryVars
  BY <1>4 DEF registryVars, RegistryTypeOK, Live
<1>. QED
  BY <1>1, <1>2, <1>3, <1>4 DEF RegistryStep

\* A token that is added gets the last place in the table: the row that a name finds first
\* stays the first one.
LEMMA AddedIsLast ==
    ASSUME RegistryTypeOK, NEW t \in Added, AddToken(t), NEW n, FromDB(n) # {}
    PROVE  FromDB(n)' = FromDB(n)
<1>. DEFINE A == {j \in Live : <<n, tokens[j].token.name>> \in Alike}
            B == {j \in Live' : <<n, tokens'[j].token.name>> \in Alike}
<1>1. /\ Len(tokens) \in Nat /\ DOMAIN tokens = 1..Len(tokens)
      /\ tokens' = Append(tokens, [token |-> t, live |-> TRUE])
      /\ DOMAIN tokens' = 1..(Len(tokens) + 1) /\ \A j \in DOMAIN tokens : tokens'[j] = tokens[j]
  BY DEF AddToken, RegistryTypeOK
<1>2. A \subseteq 1..Len(tokens) /\ A \subseteq B /\ B \subseteq A \union {Len(tokens) + 1}
  BY <1>1 DEF Live
<1>. HIDE DEF A, B
<1>3. First(A) # {}
  BY DEF FromDB, A
<1>4. First(B) = First(A)
  <2>1. \A i \in First(A) : i \in First(B)
    BY <1>1, <1>2 DEF First
  <2>2. ASSUME NEW i \in First(B) PROVE i \in First(A)
    <3>1. PICK j \in First(A) : TRUE
      BY <1>3
    <3>2. i \in A
      BY <1>1, <1>2, <3>1 DEF First
    <3>. QED
      BY <1>2, <3>2 DEF First
  <2>. QED
    BY <2>1, <2>2
<1>5. First(A) \subseteq DOMAIN tokens
  BY <1>1, <1>2 DEF First
<1>6. FromDB(n) = {tokens[i].token : i \in First(A)}
  BY DEF FromDB, A
<1>7. FromDB(n)' = {tokens'[i].token : i \in First(B)}
  BY DEF FromDB, B, First
<1>. QED
  BY <1>1, <1>4, <1>5, <1>6, <1>7

-----------------------------------------------------------------------------
(* The inductive invariant.                                                *)

Withdraws(t) == thread[t].pc \in {"send", "wait", "save", "report"}

\* A transaction is of its token's type, unless it came from outside and no deposit of it
\* was of that type; a withdrawal's goes to the recipient.
TxsHonest ==
    \A k \in DOMAIN txs :
        /\ txs[k].type \in {"none", "Unknown", "General", "FtTransfer"} \/ txs[k].type = TransferType(txs[k].contract)
        /\ txs[k].origin \in Requests =>
              txs[k].to = Requested[txs[k].origin].to /\ txs[k].type = TransferType(txs[k].contract)

\* One thread at a time executes an open withdrawal, and is as far as its transaction is.
\* The type of a transaction in hand is settled.
InHandHonest ==
    \A t \in Threads :
        /\ thread[t].pc # "idle" => txs[thread[t].tx].type \notin {"none", "Unknown"}
        /\ Withdraws(t) =>
              /\ Request(t) \in Requests /\ status[Request(t)] = "open"
              /\ \A u \in Threads : Withdraws(u) /\ Request(u) = Request(t) => u = t
              /\ txs[thread[t].tx].contract = thread[t].token
              /\ thread[t].pc = "send" <=> txs[thread[t].tx].state = "signed"
              /\ thread[t].pc \in {"save", "report"} => txs[thread[t].tx].state = "sealed"

\* What a withdrawal has paid, or may still pay, without a thread that waits for it.
Settled(i) ==
    {k \in DOMAIN txs : /\ txs[k].origin = i /\ txs[k].state \in {"pending", "sealed"}
                        /\ \A t \in Threads : Withdraws(t) => thread[t].tx # k}

SettledAccounted ==
    \A i \in Requests : Cardinality(Settled(i)) <= cut[i] + (IF status[i] = "done" THEN 1 ELSE 0)

\* A stored transfer is one of a transaction whose type is settled, to its recipient.
RowsHonest ==
    \A r \in DOMAIN rows :
        /\ rows[r].tx \in DOMAIN txs /\ txs[rows[r].tx].type \notin {"none", "Unknown"}
        /\ rows[r].to = txs[rows[r].tx].to

\* A thread that is about to report has stored its transfer.
ReportsListed ==
    \A t \in Threads : thread[t].pc = "report" =>
        \E r \in DOMAIN rows : rows[r].tx = thread[t].tx /\ rows[r].by = "withdrawal"

\* But for the transactions that are raced for, one thread has one in hand, and has not found
\* the transfer that it is going to store.
AloneAndNew ==
    \A t \in Threads : thread[t].pc # "idle" /\ thread[t].tx \notin raced =>
        /\ \A u \in Threads : thread[u].pc # "idle" /\ thread[u].tx = thread[t].tx => u = t
        /\ thread[t].pc \in {"send", "wait", "save"} => \A r \in DOMAIN rows : rows[r].tx # thread[t].tx
        /\ thread[t].pc = "insert" /\ txs[thread[t].tx].type = TransferType(thread[t].token) =>
              \A r \in DOMAIN rows : rows[r].tx = thread[t].tx => rows[r].name # thread[t].token.name

\* The token that an event is resolved to is of the contract's type.
TokensApart ==
    \A c, d \in Contracts : c.address = d.address /\ <<c.name, d.name>> \in Alike => c.type = d.type

\* An event is resolved to a token at its contract's address, of a name like its own.
TokensFromEvents ==
    \A t \in Threads : thread[t].pc # "idle" =>
        LET contract == txs[thread[t].tx].contract
        IN  thread[t].token.address = contract.address /\ <<contract.name, thread[t].token.name>> \in Alike

TransfersInv ==
    /\ TypeOK
    /\ TxsHonest /\ InHandHonest /\ SettledAccounted
    /\ RowsHonest /\ ReportsListed /\ AloneAndNew /\ TokensFromEvents
    /\ CompleteIsListed /\ HandledIsListed /\ (TokensApart => RegisteredOnce)

-----------------------------------------------------------------------------
(* Types.                                                                  *)

LEMMA IdleThread == Idle \in Execution /\ Idle.pc = "idle"
BY RegistryOK DEF Idle, Execution

LEMMA Seqs ==
    ASSUME TypeOK
    PROVE  /\ Len(txs) \in Nat /\ DOMAIN txs = 1..Len(txs) /\ \A k \in DOMAIN txs : txs[k] \in Tx
           /\ Len(rows) \in Nat /\ DOMAIN rows = 1..Len(rows) /\ \A r \in DOMAIN rows : rows[r] \in Transfer
BY DEF TypeOK

\* A row of the new transaction's is put behind the others.
LEMMA TxAppended ==
    ASSUME TypeOK, NEW tx \in Tx, txs' = Append(txs, tx)
    PROVE  /\ txs' \in Seq(Tx) /\ DOMAIN txs' = 1..(Len(txs) + 1) /\ Len(txs) + 1 \in DOMAIN txs'
           /\ DOMAIN txs \subseteq DOMAIN txs' /\ Len(txs) + 1 \notin DOMAIN txs
           /\ \A k \in DOMAIN txs : txs'[k] = txs[k]
           /\ txs'[Len(txs) + 1] = tx
BY Seqs, AppendProperties DEF TypeOK

\* The state or the type of a transaction changes.
LEMMA TxChanged ==
    ASSUME TypeOK, NEW k \in DOMAIN txs, NEW tx \in Tx, txs' = [txs EXCEPT ![k] = tx]
    PROVE  /\ txs' \in Seq(Tx) /\ DOMAIN txs' = DOMAIN txs
           /\ txs'[k] = tx /\ \A j \in DOMAIN txs : j # k => txs'[j] = txs[j]
BY Seqs, ExceptSeq DEF TypeOK

LEMMA RowAppended ==
    ASSUME TypeOK, NEW row \in Transfer, rows' = Append(rows, row)
    PROVE  /\ rows' \in Seq(Transfer) /\ DOMAIN rows' = 1..(Len(rows) + 1)
           /\ DOMAIN rows \subseteq DOMAIN rows' /\ Len(rows) + 1 \notin DOMAIN rows
           /\ \A r \in DOMAIN rows : rows'[r] = rows[r]
           /\ rows'[Len(rows) + 1] = row
BY Seqs, AppendProperties DEF TypeOK

\* What the steps make of the transactions.
LEMMA TxSteps ==
    ASSUME TypeOK, NEW k \in DOMAIN txs
    PROVE  /\ \A s \in {"pending", "sealed", "failed"} :
                [txs EXCEPT ![k].state = s] = [txs EXCEPT ![k] = [txs[k] EXCEPT !.state = s]]
                /\ [txs[k] EXCEPT !.state = s] \in Tx
           /\ \A ty \in RowTypes :
                [txs EXCEPT ![k].type = ty] = [txs EXCEPT ![k] = [txs[k] EXCEPT !.type = ty]]
                /\ [txs[k] EXCEPT !.type = ty] \in Tx
           /\ Typed(txs[k].type) \in RowTypes
           /\ (IF txs[k].type = "none" THEN "Unknown" ELSE txs[k].type) \in RowTypes
<1>1. txs[k] \in Tx
  BY Seqs
<1>. QED
  BY <1>1 DEF Tx, RowTypes, Typed

LEMMA StateSet ==
    ASSUME TypeOK, NEW k \in DOMAIN txs, NEW s, txs' = [txs EXCEPT ![k].state = s]
    PROVE  /\ DOMAIN txs' = DOMAIN txs /\ txs'[k].state = s
           /\ \A j \in DOMAIN txs : j # k => txs'[j] = txs[j]
           /\ \A j \in DOMAIN txs : /\ txs'[j].origin = txs[j].origin /\ txs'[j].to = txs[j].to
                                    /\ txs'[j].contract = txs[j].contract /\ txs'[j].type = txs[j].type
BY Seqs DEF Tx

LEMMA TransfersInitType == Init => TypeOK
<1>. SUFFICES ASSUME Init PROVE TypeOK
  OBVIOUS
<1>1. RegistryTypeOK
  BY RegistryInitType DEF Init
<1>2. Custodial \subseteq Accounts
  BY DEF Accounts
<1>. QED
  BY <1>1, <1>2, IdleThread DEF Init, TypeOK

\* A withdrawal that fails is open or failed.
LEMMA FailsType ==
    ASSUME TypeOK, NEW i \in Requests, Fails(i)
    PROVE  /\ status' \in [Requests -> {"open", "done", "failed"}]
           /\ status'[i] # "done" /\ \A j \in Requests : j # i => status'[j] = status[j]
BY DEF TypeOK, Fails

LEMMA TransfersTypeStep ==
    ASSUME TypeOK, InHandHonest, [Next]_vars
    PROVE  TypeOK'
<1>. USE DEF TypeOK
<1>0. \A t \in Threads : Withdraws(t) => Request(t) \in Requests
  BY DEF InHandHonest
<1>1. ASSUME NEW t \in Threads, NEW i \in Requests, Withdraw(t, i) PROVE TypeOK'
  <2>1. PICK token \in GetByName(Requested[i].name) :
          /\ txs' = Append(txs, [origin |-> i, to |-> Requested[i].to, contract |-> token, times |-> 1,
                                 state |-> "signed", type |-> TransferType(token)])
          /\ thread' = [thread EXCEPT ![t] = [pc |-> "send", tx |-> Len(txs) + 1, nth |-> 1, token |-> token]]
    BY <1>1 DEF Withdraw
  <2>2. token \in Contracts
    BY <2>1, FoundTokens
  <2>3. [origin |-> i, to |-> Requested[i].to, contract |-> token, times |-> 1,
         state |-> "signed", type |-> TransferType(token)] \in Tx
    BY <2>2, TransfersOK DEF Tx, TransferType, RowTypes
  <2>4. txs' \in Seq(Tx) /\ DOMAIN txs \subseteq DOMAIN txs' /\ Len(txs) + 1 \in DOMAIN txs'
    BY <2>1, <2>3, TxAppended
  <2>5. [pc |-> "send", tx |-> Len(txs) + 1, nth |-> 1, token |-> token] \in Execution
    BY <2>2, Seqs DEF Execution
  <2>6. /\ thread' \in [Threads -> Execution]
        /\ \A u \in Threads : thread'[u].pc # "idle" => thread'[u].tx \in DOMAIN txs' /\ thread'[u].nth > 0
    BY <2>1, <2>4, <2>5
  <2>7. RegistryTypeOK'
    BY <1>1, RegistryTypeStep DEF Withdraw
  <2>. QED
    BY <1>1, <2>4, <2>6, <2>7 DEF Withdraw
<1>2. ASSUME NEW t \in Threads, Send(t) PROVE TypeOK'
  <2>1. txs' \in Seq(Tx) /\ DOMAIN txs' = DOMAIN txs
    BY <1>2, TxSteps, TxChanged DEF Send
  <2>. QED
    BY <1>2, <2>1, RegistryTypeStep DEF Send, Execution
<1>3. ASSUME NEW t \in Threads, SendFails(t) PROVE TypeOK'
  <2>1. Request(t) \in Requests
    BY <1>0, <1>3 DEF SendFails, Withdraws
  <2>2. txs' \in Seq(Tx) /\ DOMAIN txs' = DOMAIN txs
    BY <1>3, TxSteps, TxChanged DEF SendFails
  <2>3. cut' \in [Requests -> Nat]
    BY <1>3, <2>1 DEF SendFails
  <2>. QED
    BY <1>3, <2>1, <2>2, <2>3, FailsType, IdleThread, RegistryTypeStep DEF SendFails, Done
<1>4. ASSUME NEW k \in DOMAIN txs, Execute(k) PROVE TypeOK'
  BY <1>4, TxSteps, TxChanged, RegistryTypeStep DEF Execute
<1>5. ASSUME NEW t \in Threads, Sealed(t) PROVE TypeOK'
  BY <1>5, RegistryTypeStep DEF Sealed, Execution
<1>6. ASSUME NEW t \in Threads, Rejected(t) PROVE TypeOK'
  <2>1. Request(t) \in Requests
    BY <1>0, <1>6 DEF Rejected, Withdraws
  <2>. QED
    BY <1>6, <2>1, FailsType, IdleThread, RegistryTypeStep DEF Rejected, Done
<1>7. ASSUME NEW t \in Threads, SaveTransfer(t) PROVE TypeOK'
  <2>1. Request(t) \in Requests /\ thread[t].token \in Contracts /\ thread[t].tx \in Nat \ {0}
    BY <1>0, <1>7, Seqs DEF SaveTransfer, Withdraws, Execution
  <2>2. [tx |-> thread[t].tx, to |-> Requested[Request(t)].to,
         name |-> thread[t].token.name, nth |-> 1, by |-> "withdrawal"] \in Transfer
    BY <2>1, TransfersOK DEF Transfer, Names
  <2>3. rows' \in Seq(Transfer)
    BY <1>7, <2>2, RowAppended DEF SaveTransfer
  <2>. QED
    BY <1>7, <2>3, RegistryTypeStep DEF SaveTransfer, Execution
<1>8. ASSUME NEW t \in Threads, CutOff(t) PROVE TypeOK'
  <2>1. Request(t) \in Requests
    BY <1>0, <1>8 DEF CutOff, Withdraws
  <2>2. status' \in [Requests -> {"open", "done", "failed"}]
    BY <1>8, <2>1, FailsType DEF CutOff
  <2>3. cut' \in [Requests -> Nat]
    BY <1>8, <2>1 DEF CutOff
  <2>. QED
    BY <1>8, <2>2, <2>3, IdleThread, RegistryTypeStep DEF CutOff, Done
<1>9. ASSUME NEW t \in Threads, Report(t) PROVE TypeOK'
  BY <1>0, <1>9, IdleThread, RegistryTypeStep DEF Report, Done, Withdraws
<1>10. ASSUME NEW o \in DOMAIN Outside, Arrive(o) PROVE TypeOK'
  <2>1. [origin |-> o, to |-> Outside[o].to, contract |-> Outside[o].contract,
         times |-> Outside[o].times, state |-> "sealed", type |-> RowOf(o)] \in Tx
    BY TransfersOK DEF Tx, RowOf, RowTypes
  <2>2. txs' \in Seq(Tx) /\ DOMAIN txs \subseteq DOMAIN txs'
    BY <1>10, <2>1, TxAppended DEF Arrive
  <2>. QED
    BY <1>10, <2>2, RegistryTypeStep DEF Arrive
<1>11. ASSUME NEW t \in Threads, NEW k \in DOMAIN txs, NEW n \in 1..txs[k].times, Handle(t, k, n) PROVE TypeOK'
  <2>1. PICK token \in TokenFromEvent(txs[k].contract) :
          thread' = [thread EXCEPT ![t] = [pc |-> IF <<txs[k].to, token>> \in enabled THEN "look" ELSE "enable",
                                           tx |-> k, nth |-> n, token |-> token]]
    BY <1>11 DEF Handle
  <2>2. token \in Contracts
    BY <2>1, FoundTokens
  <2>3. txs' \in Seq(Tx) /\ DOMAIN txs' = DOMAIN txs
    BY <1>11, TxSteps, TxChanged DEF Handle
  <2>4. [pc |-> IF <<txs[k].to, token>> \in enabled THEN "look" ELSE "enable",
         tx |-> k, nth |-> n, token |-> token] \in Execution
    BY <2>2, Seqs DEF Execution
  <2>5. /\ thread' \in [Threads -> Execution]
        /\ \A u \in Threads : thread'[u].pc # "idle" => thread'[u].tx \in DOMAIN txs' /\ thread'[u].nth > 0
    BY <2>1, <2>3, <2>4
  <2>. QED
    BY <1>11, <2>3, <2>5, RegistryTypeStep DEF Handle
<1>12. ASSUME NEW k \in DOMAIN txs, NEW n \in 1..txs[k].times, HandleFails(k, n) PROVE TypeOK'
  <2>1. txs' \in Seq(Tx) /\ DOMAIN txs' = DOMAIN txs
    BY <1>12, TxSteps, TxChanged DEF HandleFails
  <2>. QED
    BY <1>12, <2>1, RegistryTypeStep DEF HandleFails
<1>13. ASSUME NEW t \in Threads, Enable(t) PROVE TypeOK'
  <2>1. thread[t].token \in Contracts /\ txs[thread[t].tx].to \in Accounts
    BY <1>13 DEF Enable, Execution
  <2>2. enabled' \subseteq AccountToken
    BY <1>13, <2>1 DEF Enable, AccountToken
  <2>. QED
    BY <1>13, <2>2, RegistryTypeStep DEF Enable, Execution
<1>14. ASSUME NEW t \in Threads, Lose(t) PROVE TypeOK'
  BY <1>14, IdleThread, RegistryTypeStep DEF Lose, Done
<1>15. ASSUME NEW t \in Threads, Look(t) PROVE TypeOK'
  <2>1. thread[t].nth \in Nat
    BY DEF Execution
  <2>2. handled' \subseteq (DOMAIN txs) \X Nat
    BY <1>15, <2>1 DEF Look
  <2>3. /\ thread' \in [Threads -> Execution]
        /\ \A u \in Threads : thread'[u].pc # "idle" =>
              thread'[u].tx = thread[u].tx /\ thread'[u].nth = thread[u].nth /\ thread[u].pc # "idle"
    <3>1. CASE thread' = [thread EXCEPT ![t] = Idle]
      BY <3>1, IdleThread
    <3>2. CASE thread' = [thread EXCEPT ![t].pc = "insert"]
      BY <1>15, <3>2 DEF Look, Execution
    <3>. QED
      BY <1>15, <3>1, <3>2 DEF Look, Done
  <2>. QED
    BY <1>15, <2>2, <2>3, RegistryTypeStep DEF Look
<1>16. ASSUME NEW t \in Threads, Insert(t) PROVE TypeOK'
  <2>1. /\ thread[t].nth \in Nat /\ thread[t].token \in Contracts /\ thread[t].tx \in Nat \ {0}
        /\ txs[thread[t].tx].to \in STRING
    BY <1>16, Seqs DEF Insert, Execution, Tx
  <2>2. handled' \subseteq (DOMAIN txs) \X Nat
    BY <1>16, <2>1 DEF Insert
  <2>3. [tx |-> thread[t].tx, to |-> txs[thread[t].tx].to, name |-> thread[t].token.name,
         nth |-> thread[t].nth, by |-> "deposit"] \in Transfer
    BY <1>16, <2>1 DEF Insert, Transfer, Names
  <2>4. rows' \in Seq(Transfer)
    BY <1>16, <2>3, RowAppended DEF Insert
  <2>. QED
    BY <1>16, <2>2, <2>4, IdleThread, RegistryTypeStep DEF Insert, Done
<1>17. ASSUME NEW a, NEW n, EnableToken(a, n) PROVE TypeOK'
  <2>1. enabled' \subseteq AccountToken
    BY <1>17, FoundTokens DEF EnableToken, AccountToken
  <2>. QED
    BY <1>17, <2>1, RegistryTypeStep DEF EnableToken
<1>18. ASSUME NEW a \in Watched, Watch(a) \/ Unwatch(a) PROVE TypeOK'
  BY <1>18, RegistryTypeStep DEF Watch, Unwatch, Accounts
<1>19. CASE RegistryStep /\ UNCHANGED transferVars
  BY <1>19, RegistryTypeStep DEF transferVars
<1>20. CASE Crash
  <2>1. thread' \in [Threads -> Execution] /\ \A t \in Threads : thread'[t].pc = "idle"
    BY <1>20, IdleThread DEF Crash
  <2>2. cut' \in [Requests -> Nat]
    BY <1>20 DEF Crash
  <2>3. status' \in [Requests -> {"open", "done", "failed"}]
    BY <1>20 DEF Crash
  <2>. QED
    BY <1>20, <2>1, <2>2, <2>3, RegistryTypeStep DEF Crash
<1>21. CASE Restart
  BY <1>21, RegistryTypeStep DEF Restart, transferVars
<1>22. CASE UNCHANGED vars
  BY <1>22, RegistryTypeStep DEF vars, transferVars
<1>. QED
  BY <1>1, <1>2, <1>3, <1>4, <1>5, <1>6, <1>7, <1>8, <1>9, <1>10, <1>11, <1>12, <1>13, <1>14, <1>15,
     <1>16, <1>17, <1>18, <1>19, <1>20, <1>21, <1>22 DEF Next, ThreadStep

-----------------------------------------------------------------------------
(* Transactions.                                                           *)

\* A transaction keeps what it says, its state only goes on, and a type that is settled stays.
Kept(k) ==
    /\ k \in DOMAIN txs'
    /\ txs'[k].origin = txs[k].origin /\ txs'[k].to = txs[k].to /\ txs'[k].contract = txs[k].contract
    /\ txs[k].state = "sealed" => txs'[k].state = "sealed"
    /\ txs[k].type \notin {"none", "Unknown"} => txs'[k].type = txs[k].type
    /\ txs'[k].type \in {txs[k].type, "Unknown", "FtTransfer"}

\* A transaction that is new is a withdrawal's, of its token's type, or comes from outside.
Fresh(k) ==
    \/ /\ txs'[k].origin \in Requests /\ txs'[k].to = Requested[txs'[k].origin].to
       /\ txs'[k].type = TransferType(txs'[k].contract)
    \/ txs'[k].origin \notin Requests /\ txs'[k].type \in {"none", "General"}

LEMMA TxsMove ==
    ASSUME TypeOK, InHandHonest, [Next]_vars
    PROVE  /\ \A k \in DOMAIN txs : Kept(k)
           /\ \A k \in DOMAIN txs' : k \in DOMAIN txs \/ Fresh(k)
<1>. DEFINE Goal == (\A k \in DOMAIN txs : Kept(k)) /\ (\A k \in DOMAIN txs' : k \in DOMAIN txs \/ Fresh(k))
<1>. SUFFICES Goal
  OBVIOUS
<1>1. CASE UNCHANGED txs
  BY <1>1 DEF Kept
<1>2. ASSUME NEW t \in Threads, NEW i \in Requests, Withdraw(t, i) PROVE Goal
  <2>1. PICK token \in GetByName(Requested[i].name) :
          txs' = Append(txs, [origin |-> i, to |-> Requested[i].to, contract |-> token, times |-> 1,
                              state |-> "signed", type |-> TransferType(token)])
    BY <1>2 DEF Withdraw
  <2>2. token \in Contracts
    BY <2>1, FoundTokens DEF TypeOK
  <2>3. [origin |-> i, to |-> Requested[i].to, contract |-> token, times |-> 1,
         state |-> "signed", type |-> TransferType(token)] \in Tx
    BY <2>2, TransfersOK DEF Tx, TransferType, RowTypes
  <2>. QED
    BY <2>1, <2>3, TxAppended, Seqs DEF Kept, Fresh
<1>3. ASSUME NEW o \in DOMAIN Outside, Arrive(o) PROVE Goal
  <2>1. [origin |-> o, to |-> Outside[o].to, contract |-> Outside[o].contract,
         times |-> Outside[o].times, state |-> "sealed", type |-> RowOf(o)] \in Tx
    BY TransfersOK DEF Tx, RowOf, RowTypes
  <2>2. o \notin Requests /\ RowOf(o) \in {"none", "General"}
    BY TransfersOK DEF RowOf
  <2>. QED
    BY <1>3, <2>1, <2>2, TxAppended, Seqs DEF Arrive, Kept, Fresh
<1>4. ASSUME NEW k \in DOMAIN txs, NEW s \in {"pending", "sealed", "failed"},
             txs' = [txs EXCEPT ![k].state = s], txs[k].state # "sealed" PROVE Goal
  BY <1>4, TxSteps, TxChanged, Seqs DEF Kept, Tx
<1>5. ASSUME NEW k \in DOMAIN txs, NEW type \in RowTypes, txs' = [txs EXCEPT ![k].type = type],
             type = txs[k].type \/ (txs[k].type \in {"none", "Unknown"} /\ type \in {"Unknown", "FtTransfer"})
      PROVE Goal
  BY <1>5, TxSteps, TxChanged, Seqs DEF Kept, Tx
<1>6. ASSUME NEW t \in Threads, Send(t) \/ SendFails(t) PROVE Goal
  <2>1. thread[t].tx \in DOMAIN txs /\ txs[thread[t].tx].state = "signed"
    BY <1>6 DEF TypeOK, InHandHonest, Send, SendFails, Withdraws
  <2>. QED
    BY <1>1, <1>4, <1>6, <2>1 DEF Send, SendFails
<1>7. ASSUME NEW k \in DOMAIN txs, Execute(k) PROVE Goal
  BY <1>4, <1>7 DEF Execute
<1>8. ASSUME NEW t \in Threads, NEW k \in DOMAIN txs, NEW n, Handle(t, k, n) PROVE Goal
  <2>1. txs' = [txs EXCEPT ![k].type = Typed(txs[k].type)] /\ Typed(txs[k].type) \in RowTypes
    BY <1>8, TxSteps DEF Handle
  <2>2. Typed(txs[k].type) = txs[k].type
          \/ (txs[k].type \in {"none", "Unknown"} /\ Typed(txs[k].type) = "FtTransfer")
    BY DEF Typed
  <2>. HIDE DEF Goal
  <2>. QED
    BY <1>5, <2>1, <2>2
<1>9. ASSUME NEW k \in DOMAIN txs, NEW n, HandleFails(k, n) PROVE Goal
  <2>1. txs' = [txs EXCEPT ![k].type = IF txs[k].type = "none" THEN "Unknown" ELSE txs[k].type]
    BY <1>9 DEF HandleFails
  <2>. DEFINE type == IF txs[k].type = "none" THEN "Unknown" ELSE txs[k].type
  <2>2. type \in RowTypes /\ (type = txs[k].type \/ (txs[k].type = "none" /\ type = "Unknown"))
    BY TxSteps
  <2>. HIDE DEF type, Goal
  <2>3. txs' = [txs EXCEPT ![k].type = type]
    BY <2>1 DEF type
  <2>. QED
    BY <1>5, <2>2, <2>3
<1>10. ASSUME NEW t \in Threads,
              Sealed(t) \/ Rejected(t) \/ SaveTransfer(t) \/ CutOff(t) \/ Report(t)
                 \/ Enable(t) \/ Lose(t) \/ Look(t) \/ Insert(t)
       PROVE UNCHANGED txs
  BY <1>10 DEF Sealed, Rejected, SaveTransfer, CutOff, Report, Enable, Lose, Look, Insert
<1>11. ASSUME NEW a, NEW n, EnableToken(a, n) \/ Watch(a) \/ Unwatch(a) PROVE UNCHANGED txs
  BY <1>11 DEF EnableToken, Watch, Unwatch
<1>12. ASSUME (RegistryStep /\ UNCHANGED transferVars) \/ Crash \/ Restart \/ UNCHANGED vars
       PROVE  UNCHANGED txs
  BY <1>12 DEF transferVars, Crash, Restart, vars
<1>. QED
  BY <1>1, <1>2, <1>3, <1>6, <1>7, <1>8, <1>9, <1>10, <1>11, <1>12 DEF Next, ThreadStep

LEMMA TxsStep ==
    ASSUME TypeOK, TxsHonest, InHandHonest, [Next]_vars
    PROVE  TxsHonest'
<1>. SUFFICES ASSUME NEW k \in DOMAIN txs'
     PROVE  /\ txs'[k].type \in {"none", "Unknown", "General", "FtTransfer"}
                  \/ txs'[k].type = TransferType(txs'[k].contract)
            /\ txs'[k].origin \in Requests =>
                  txs'[k].to = Requested[txs'[k].origin].to /\ txs'[k].type = TransferType(txs'[k].contract)
  BY DEF TxsHonest, TransferType
<1>1. CASE k \notin DOMAIN txs
  BY <1>1, TxsMove DEF Fresh
<1>2. CASE k \in DOMAIN txs
  <2>1. Kept(k)
    BY <1>2, TxsMove
  <2>. QED
    BY <1>2, <2>1 DEF TxsHonest, Kept, TransferType
<1>. QED
  BY <1>1, <1>2

-----------------------------------------------------------------------------
(* Threads.                                                                *)

\* A thread has in hand what it had, or begins.
LEMMA ThreadsMove ==
    ASSUME TypeOK, [Next]_vars, NEW u \in Threads, thread'[u].pc # "idle"
    PROVE  \/ /\ thread[u].pc # "idle" /\ (Withdraws(u)' <=> Withdraws(u))
              /\ thread'[u].tx = thread[u].tx /\ thread'[u].token = thread[u].token
           \/ \E i \in Requests : Withdraw(u, i)
           \/ \E k \in DOMAIN txs : \E n \in 1..txs[k].times : Handle(u, k, n)
<1>. DEFINE GoesOn == /\ thread[u].pc # "idle" /\ (Withdraws(u)' <=> Withdraws(u))
                      /\ thread'[u].tx = thread[u].tx /\ thread'[u].token = thread[u].token
<1>1. CASE thread'[u] = thread[u]
  BY <1>1 DEF Withdraws
<1>2. ASSUME NEW t \in Threads,
             Send(t) \/ SendFails(t) \/ Sealed(t) \/ Rejected(t) \/ SaveTransfer(t) \/ CutOff(t) \/ Report(t)
                \/ Enable(t) \/ Lose(t) \/ Look(t) \/ Insert(t)
      PROVE  GoesOn
  <2>1. thread \in [Threads -> Execution]
    BY DEF TypeOK
  <2>2. PICK next \in {"idle", "send", "wait", "save", "report", "look", "insert"} :
          /\ thread' = [thread EXCEPT ![t].pc = next] \/ thread' = [thread EXCEPT ![t] = Idle]
          /\ next \in {"wait", "save", "report"} => Withdraws(t)
          /\ next \in {"look", "insert"} => thread[t].pc # "idle" /\ ~ Withdraws(t)
          /\ next # "send"
          /\ next = "idle" => thread' = [thread EXCEPT ![t] = Idle]
    BY <1>2 DEF Send, SendFails, Sealed, Rejected, SaveTransfer, CutOff, Report, Enable, Lose, Look, Insert,
       Done, Withdraws
  <2>3. CASE u # t
    <3>. thread'[u] = thread[u]
      BY <2>1, <2>2, <2>3
    <3>. QED
      BY DEF Withdraws
  <2>4. CASE u = t
    <3>1. thread' = [thread EXCEPT ![t].pc = next] /\ next # "idle"
      BY <2>1, <2>2, <2>4, IdleThread
    <3>2. thread'[t].pc = next /\ thread'[t].tx = thread[t].tx /\ thread'[t].token = thread[t].token
      BY <2>1, <3>1 DEF Execution
    <3>. QED
      BY <2>2, <2>4, <3>1, <3>2 DEF Withdraws
  <2>. QED
    BY <2>3, <2>4
<1>3. ASSUME NEW t \in Threads, t # u,
             (\E i \in Requests : Withdraw(t, i)) \/ (\E k \in DOMAIN txs : \E n \in 1..txs[k].times : Handle(t, k, n))
      PROVE  thread'[u] = thread[u]
  BY <1>3 DEF Withdraw, Handle, TypeOK
<1>4. ASSUME NEW t \in Threads, ThreadStep(t)
      PROVE  GoesOn \/ (\E i \in Requests : Withdraw(u, i))
                \/ (\E k \in DOMAIN txs : \E n \in 1..txs[k].times : Handle(u, k, n))
  BY <1>1, <1>2, <1>3, <1>4 DEF ThreadStep
<1>5. ASSUME NEW k, Execute(k) \/ \E n \in 1..txs[k].times : HandleFails(k, n) PROVE UNCHANGED thread
  BY <1>5 DEF Execute, HandleFails
<1>6. ASSUME NEW a, NEW n, EnableToken(a, n) \/ Watch(a) \/ Unwatch(a) \/ Arrive(a) PROVE UNCHANGED thread
  BY <1>6 DEF EnableToken, Watch, Unwatch, Arrive
<1>7. ASSUME (RegistryStep /\ UNCHANGED transferVars) \/ Restart \/ UNCHANGED vars
       PROVE  UNCHANGED thread
  BY <1>7 DEF transferVars, Restart, vars
<1>8. ~ Crash
  BY IdleThread DEF Crash
<1>. QED
  BY <1>1, <1>4, <1>5, <1>6, <1>7, <1>8 DEF Next

\* A withdrawal is over: its thread is idle, and nobody else's transaction or job has changed.
LEMMA OthersGoOn ==
    ASSUME TypeOK, InHandHonest, NEW t \in Threads, Withdraws(t), Done(t),
           \A i \in Requests : i # Request(t) => status'[i] = status[i],
           \A k \in DOMAIN txs : /\ txs'[k].origin = txs[k].origin /\ txs'[k].contract = txs[k].contract
                                 /\ txs'[k].type = txs[k].type
                                 /\ k # thread[t].tx => txs'[k].state = txs[k].state
    PROVE  InHandHonest'
<1>1. /\ thread' \in [Threads -> Execution] /\ thread'[t].pc = "idle"
      /\ \A u \in Threads : u # t => thread'[u] = thread[u]
  BY IdleThread DEF TypeOK, Done
<1>2. \A u \in Threads : thread[u].pc # "idle" => thread[u].tx \in DOMAIN txs
  BY DEF TypeOK
<1>3. \A u \in Threads : Withdraws(u)' => u # t /\ Withdraws(u) /\ Request(u)' = Request(u)
  BY <1>1, <1>2 DEF Withdraws, Request
<1>4. \A u \in Threads : Withdraws(u) /\ u # t => Request(u) # Request(t) /\ thread[u].tx # thread[t].tx
  BY DEF InHandHonest, Request
<1>5. ASSUME NEW u \in Threads, thread'[u].pc # "idle" PROVE txs'[thread'[u].tx].type \notin {"none", "Unknown"}
  BY <1>1, <1>2, <1>5 DEF InHandHonest
<1>6. ASSUME NEW u \in Threads, Withdraws(u)'
      PROVE  /\ Request(u)' \in Requests /\ status'[Request(u)'] = "open"
             /\ txs'[thread'[u].tx].contract = thread'[u].token
             /\ thread'[u].pc = "send" <=> txs'[thread'[u].tx].state = "signed"
             /\ thread'[u].pc \in {"save", "report"} => txs'[thread'[u].tx].state = "sealed"
  BY <1>1, <1>2, <1>3, <1>4, <1>6 DEF InHandHonest, Withdraws
<1>7. ASSUME NEW u \in Threads, NEW v \in Threads, Withdraws(u)', Withdraws(v)', Request(v)' = Request(u)' PROVE v = u
  BY <1>3, <1>7 DEF InHandHonest
<1>. QED
  BY <1>5, <1>6, <1>7 DEF InHandHonest

\* Nothing happens to the withdrawals under way: no thread begins or ends one.
LEMMA WithdrawalsGoOn ==
    ASSUME TypeOK, TypeOK', InHandHonest, UNCHANGED status,
           \A u \in Threads : Withdraws(u)' <=> Withdraws(u),
           \A u \in Threads : Withdraws(u) =>
               /\ thread'[u].tx = thread[u].tx /\ thread'[u].token = thread[u].token
               /\ thread'[u].pc = "send" <=> txs'[thread[u].tx].state = "signed"
               /\ thread'[u].pc \in {"save", "report"} => txs'[thread[u].tx].state = "sealed",
           \A k \in DOMAIN txs : Kept(k),
           \A u \in Threads : thread'[u].pc # "idle" => txs'[thread'[u].tx].type \notin {"none", "Unknown"}
    PROVE  InHandHonest'
<1>1. \A u \in Threads : Withdraws(u) => thread[u].tx \in DOMAIN txs
  BY DEF TypeOK, Withdraws
<1>2. \A u \in Threads : Withdraws(u) =>
        Request(u)' = Request(u) /\ txs'[thread'[u].tx].contract = txs[thread[u].tx].contract
  BY <1>1 DEF Request, Kept
<1>. QED
  BY <1>1, <1>2 DEF InHandHonest

\* The type of what a thread has in hand is settled.
LEMMA SettledStep ==
    ASSUME TypeOK, InHandHonest, [Next]_vars, NEW u \in Threads, thread'[u].pc # "idle"
    PROVE  txs'[thread'[u].tx].type \notin {"none", "Unknown"}
<1>1. CASE thread[u].pc # "idle" /\ thread'[u].tx = thread[u].tx
  BY <1>1, TxsMove DEF InHandHonest, TypeOK, Kept
<1>2. ASSUME NEW i \in Requests, Withdraw(u, i) PROVE txs'[thread'[u].tx].type \notin {"none", "Unknown"}
  <2>1. PICK token \in GetByName(Requested[i].name) :
          /\ txs' = Append(txs, [origin |-> i, to |-> Requested[i].to, contract |-> token, times |-> 1,
                                 state |-> "signed", type |-> TransferType(token)])
          /\ thread' = [thread EXCEPT ![u] = [pc |-> "send", tx |-> Len(txs) + 1, nth |-> 1, token |-> token]]
    BY <1>2 DEF Withdraw
  <2>. QED
    BY <2>1, Seqs DEF TypeOK, TransferType
<1>3. ASSUME NEW k \in DOMAIN txs, NEW n \in 1..txs[k].times, Handle(u, k, n)
      PROVE  txs'[thread'[u].tx].type \notin {"none", "Unknown"}
  <2>1. thread'[u].tx = k
    BY <1>3 DEF Handle, TypeOK
  <2>2. txs'[k].type = Typed(txs[k].type)
    BY <1>3, Seqs DEF Handle, Tx
  <2>. QED
    BY <2>1, <2>2 DEF Typed
<1>. QED
  BY <1>1, <1>2, <1>3, ThreadsMove

LEMMA InHandStep ==
    ASSUME TypeOK, TypeOK', InHandHonest, TxsHonest, [Next]_vars
    PROVE  InHandHonest'
<1>. USE DEF TypeOK
<1>0. /\ \A k \in DOMAIN txs : Kept(k)
      /\ \A u \in Threads : thread'[u].pc # "idle" => txs'[thread'[u].tx].type \notin {"none", "Unknown"}
  BY TxsMove, SettledStep
<1>1. ASSUME NEW t \in Threads, NEW i \in Requests, Withdraw(t, i) PROVE InHandHonest'
  <2>1. PICK token \in GetByName(Requested[i].name) :
          /\ txs' = Append(txs, [origin |-> i, to |-> Requested[i].to, contract |-> token, times |-> 1,
                                 state |-> "signed", type |-> TransferType(token)])
          /\ thread' = [thread EXCEPT ![t] = [pc |-> "send", tx |-> Len(txs) + 1, nth |-> 1, token |-> token]]
    BY <1>1 DEF Withdraw
  <2>2. txs'[Len(txs) + 1].origin = i /\ txs'[Len(txs) + 1].contract = token /\ txs'[Len(txs) + 1].state = "signed"
    BY <2>1, Seqs
  <2>3. \A k \in DOMAIN txs : txs'[k] = txs[k]
    BY <2>1, Seqs
  <2>4. /\ thread'[t].pc = "send" /\ thread'[t].tx = Len(txs) + 1 /\ thread'[t].token = token
        /\ \A u \in Threads : u # t => thread'[u] = thread[u]
    BY <2>1
  <2>5. status[i] = "open" /\ UNCHANGED status /\ \A u \in Threads : thread[u].pc # "idle" => Request(u) # i
    BY <1>1 DEF Withdraw, Request
  <2>6. Request(t)' = i /\ \A u \in Threads : u # t /\ thread[u].pc # "idle" => Request(u)' = Request(u)
    BY <2>2, <2>3, <2>4 DEF Request
  <2>7. \A u \in Threads : u # t /\ Withdraws(u)' => Withdraws(u) /\ thread[u].pc # "idle"
    BY <2>4 DEF Withdraws
  <2>8. ASSUME NEW u \in Threads, u # t, Withdraws(u)'
        PROVE  /\ Request(u)' \in Requests /\ status'[Request(u)'] = "open"
               /\ txs'[thread'[u].tx].contract = thread'[u].token
               /\ thread'[u].pc = "send" <=> txs'[thread'[u].tx].state = "signed"
               /\ thread'[u].pc \in {"save", "report"} => txs'[thread'[u].tx].state = "sealed"
    BY <2>3, <2>4, <2>5, <2>6, <2>7, <2>8 DEF InHandHonest
  <2>9. ASSUME NEW u \in Threads, NEW v \in Threads, Withdraws(u)', Withdraws(v)', Request(v)' = Request(u)' PROVE v = u
    BY <2>5, <2>6, <2>7, <2>9 DEF InHandHonest
  <2>. QED
    BY <1>0, <2>2, <2>4, <2>5, <2>6, <2>8, <2>9 DEF InHandHonest
<1>2. ASSUME NEW t \in Threads, Send(t) PROVE InHandHonest'
  <2>1. Withdraws(t) /\ thread[t].tx \in DOMAIN txs /\ Request(t) \in Requests
    BY <1>2 DEF Send, Withdraws, InHandHonest
  <2>2. \A u \in Threads : Withdraws(u) /\ u # t => thread[u].tx # thread[t].tx
    BY <2>1 DEF InHandHonest, Request
  <2>3. /\ thread'[t].pc = "wait" /\ thread'[t].tx = thread[t].tx /\ thread'[t].token = thread[t].token
        /\ \A u \in Threads : u # t => thread'[u] = thread[u]
    BY <1>2 DEF Send, Execution
  <2>4. txs'[thread[t].tx].state = "pending" /\ \A k \in DOMAIN txs : k # thread[t].tx => txs'[k] = txs[k]
    BY <1>2, <2>1, StateSet DEF Send
  <2>5. \A u \in Threads : Withdraws(u)' <=> Withdraws(u)
    BY <2>1, <2>3 DEF Withdraws
  <2>6. \A u \in Threads : Withdraws(u) /\ u # t => thread[u].tx \in DOMAIN txs
    BY DEF Withdraws
  <2>7. ASSUME NEW u \in Threads, Withdraws(u)
        PROVE  /\ thread'[u].tx = thread[u].tx /\ thread'[u].token = thread[u].token
               /\ thread'[u].pc = "send" <=> txs'[thread[u].tx].state = "signed"
               /\ thread'[u].pc \in {"save", "report"} => txs'[thread[u].tx].state = "sealed"
    BY <2>2, <2>3, <2>4, <2>6, <2>7 DEF InHandHonest
  <2>. QED
    BY <1>0, <1>2, <2>5, <2>7, WithdrawalsGoOn DEF Send
<1>3. ASSUME NEW t \in Threads, SendFails(t) PROVE InHandHonest'
  <2>1. Withdraws(t) /\ thread[t].tx \in DOMAIN txs /\ Request(t) \in Requests
    BY <1>3 DEF SendFails, Withdraws, InHandHonest
  <2>2. \A k \in DOMAIN txs : /\ txs'[k].origin = txs[k].origin /\ txs'[k].contract = txs[k].contract
                              /\ txs'[k].type = txs[k].type
                              /\ k # thread[t].tx => txs'[k].state = txs[k].state
    BY <1>3, <2>1, StateSet DEF SendFails
  <2>. QED
    BY <1>3, <2>1, <2>2, FailsType, OthersGoOn DEF SendFails
<1>4. ASSUME NEW k \in DOMAIN txs, Execute(k) PROVE InHandHonest'
  <2>1. txs[k].state = "pending" /\ txs'[k].state \in {"sealed", "failed"}
        /\ \A j \in DOMAIN txs : j # k => txs'[j] = txs[j]
    BY <1>4, TxSteps, TxChanged, Seqs DEF Execute, Tx
  <2>2. ASSUME NEW u \in Threads, Withdraws(u)
        PROVE  /\ thread[u].pc = "send" <=> txs'[thread[u].tx].state = "signed"
               /\ thread[u].pc \in {"save", "report"} => txs'[thread[u].tx].state = "sealed"
    BY <2>1, <2>2 DEF InHandHonest, Withdraws
  <2>. QED
    BY <1>0, <1>4, <2>2, WithdrawalsGoOn DEF Execute, Withdraws
<1>5. ASSUME NEW t \in Threads, Sealed(t) \/ SaveTransfer(t) PROVE InHandHonest'
  <2>1. PICK next \in {"save", "report"} : thread' = [thread EXCEPT ![t].pc = next]
    BY <1>5 DEF Sealed, SaveTransfer
  <2>2. /\ thread'[t].pc = next /\ thread'[t].tx = thread[t].tx /\ thread'[t].token = thread[t].token
        /\ \A u \in Threads : u # t => thread'[u] = thread[u]
    BY <2>1 DEF Execution
  <2>3. Withdraws(t) /\ txs[thread[t].tx].state = "sealed"
    BY <1>5 DEF Sealed, SaveTransfer, InHandHonest, Withdraws
  <2>4. UNCHANGED <<txs, status>>
    BY <1>5 DEF Sealed, SaveTransfer
  <2>5. \A u \in Threads : Withdraws(u)' <=> Withdraws(u)
    BY <2>2, <2>3 DEF Withdraws
  <2>6. ASSUME NEW u \in Threads, Withdraws(u)
        PROVE  /\ thread'[u].tx = thread[u].tx /\ thread'[u].token = thread[u].token
               /\ thread'[u].pc = "send" <=> txs'[thread[u].tx].state = "signed"
               /\ thread'[u].pc \in {"save", "report"} => txs'[thread[u].tx].state = "sealed"
    BY <2>2, <2>3, <2>4, <2>6 DEF InHandHonest
  <2>. QED
    BY <1>0, <2>4, <2>5, <2>6, WithdrawalsGoOn
<1>6. ASSUME NEW t \in Threads, Rejected(t) \/ CutOff(t) PROVE InHandHonest'
  <2>1. Withdraws(t) /\ Request(t) \in Requests
    BY <1>6 DEF Rejected, CutOff, Withdraws, InHandHonest
  <2>2. \A i \in Requests : i # Request(t) => status'[i] = status[i]
    BY <1>6, <2>1, FailsType DEF Rejected, CutOff
  <2>. QED
    BY <1>6, <2>1, <2>2, OthersGoOn DEF Rejected, CutOff
<1>7. ASSUME NEW t \in Threads, Report(t) PROVE InHandHonest'
  <2>1. Withdraws(t) /\ Request(t) \in Requests
    BY <1>7 DEF Report, Withdraws, InHandHonest
  <2>. QED
    BY <1>7, <2>1, OthersGoOn DEF Report
<1>8. ASSUME UNCHANGED status, \A k \in DOMAIN txs : txs'[k].state = txs[k].state,
             \A u \in Threads : thread'[u] = thread[u] \/ (~ Withdraws(u) /\ ~ Withdraws(u)')
      PROVE  InHandHonest'
  <2>1. \A u \in Threads : Withdraws(u)' <=> Withdraws(u)
    BY <1>8 DEF Withdraws
  <2>2. \A u \in Threads : Withdraws(u) => thread'[u] = thread[u] /\ thread[u].tx \in DOMAIN txs
    BY <1>8 DEF Withdraws
  <2>3. ASSUME NEW u \in Threads, Withdraws(u)
        PROVE  /\ thread'[u].tx = thread[u].tx /\ thread'[u].token = thread[u].token
               /\ thread'[u].pc = "send" <=> txs'[thread[u].tx].state = "signed"
               /\ thread'[u].pc \in {"save", "report"} => txs'[thread[u].tx].state = "sealed"
    BY <1>8, <2>2, <2>3 DEF InHandHonest
  <2>. QED
    BY <1>0, <1>8, <2>1, <2>3, WithdrawalsGoOn
<1>9. ASSUME NEW o \in DOMAIN Outside, Arrive(o) PROVE InHandHonest'
  BY <1>8, <1>9, Seqs DEF Arrive
<1>10. ASSUME NEW t \in Threads, NEW k \in DOMAIN txs, NEW n, Handle(t, k, n) PROVE InHandHonest'
  <2>1. \A j \in DOMAIN txs : txs'[j].state = txs[j].state
    BY <1>10, Seqs DEF Handle, Tx
  <2>2. \A u \in Threads : thread'[u] = thread[u] \/ (~ Withdraws(u) /\ ~ Withdraws(u)')
    BY <1>10 DEF Handle, Withdraws
  <2>. QED
    BY <1>8, <1>10, <2>1, <2>2 DEF Handle
<1>11. ASSUME NEW k \in DOMAIN txs, NEW n, HandleFails(k, n) PROVE InHandHonest'
  <2>1. \A j \in DOMAIN txs : txs'[j].state = txs[j].state
    BY <1>11, Seqs DEF HandleFails, Tx
  <2>. QED
    BY <1>8, <1>11, <2>1 DEF HandleFails
<1>12. ASSUME NEW t \in Threads, Enable(t) \/ Lose(t) \/ Look(t) \/ Insert(t) PROVE InHandHonest'
  <2>1. /\ thread[t].pc \in {"enable", "look", "insert"}
        /\ \/ thread' = [thread EXCEPT ![t] = Idle] \/ thread' = [thread EXCEPT ![t].pc = "look"]
           \/ thread' = [thread EXCEPT ![t].pc = "insert"]
    BY <1>12 DEF Enable, Lose, Look, Insert, Done
  <2>2. thread'[t].pc \in {"idle", "look", "insert"} /\ \A u \in Threads : u # t => thread'[u] = thread[u]
    <3>1. CASE thread' = [thread EXCEPT ![t] = Idle]
      BY <3>1, IdleThread
    <3>2. CASE thread' = [thread EXCEPT ![t].pc = "look"]
      BY <3>2 DEF Execution
    <3>3. CASE thread' = [thread EXCEPT ![t].pc = "insert"]
      BY <3>3 DEF Execution
    <3>. QED
      BY <2>1, <3>1, <3>2, <3>3
  <2>3. \A u \in Threads : thread'[u] = thread[u] \/ (~ Withdraws(u) /\ ~ Withdraws(u)')
    BY <2>1, <2>2 DEF Withdraws
  <2>. QED
    BY <1>8, <1>12, <2>3 DEF Enable, Lose, Look, Insert
<1>13. ASSUME NEW a, NEW n, EnableToken(a, n) \/ Watch(a) \/ Unwatch(a) PROVE InHandHonest'
  BY <1>8, <1>13 DEF EnableToken, Watch, Unwatch
<1>14. CASE (RegistryStep /\ UNCHANGED transferVars) \/ Restart \/ UNCHANGED vars
  BY <1>8, <1>14 DEF transferVars, Restart, vars
<1>15. CASE Crash
  <2>. \A u \in Threads : thread'[u].pc = "idle"
    BY <1>15, IdleThread DEF Crash
  <2>. QED
    BY DEF InHandHonest, Withdraws
<1>. QED
  BY <1>1, <1>2, <1>3, <1>4, <1>5, <1>6, <1>7, <1>9, <1>10, <1>11, <1>12, <1>13, <1>14, <1>15 DEF Next, ThreadStep

-----------------------------------------------------------------------------
(* Payments.                                                               *)

LEMMA SettledCount ==
    ASSUME TypeOK, NEW i
    PROVE  /\ IsFiniteSet(Settled(i)) /\ Cardinality(Settled(i)) \in Nat
           /\ \A S : S \subseteq Settled(i) => IsFiniteSet(S) /\ Cardinality(S) <= Cardinality(Settled(i))
           /\ \A S, x : S \subseteq Settled(i) \union {x} =>
                IsFiniteSet(S) /\ Cardinality(S) <= Cardinality(Settled(i)) + 1
<1>1. IsFiniteSet(DOMAIN txs)
  BY Seqs, FS_Interval
<1>2. Settled(i) \subseteq DOMAIN txs
  BY DEF Settled
<1>. HIDE DEF Settled
<1>3. IsFiniteSet(Settled(i)) /\ Cardinality(Settled(i)) \in Nat
  BY <1>1, <1>2, FS_Subset, FS_CardinalityType
<1>4. ASSUME NEW S, S \subseteq Settled(i) PROVE IsFiniteSet(S) /\ Cardinality(S) <= Cardinality(Settled(i))
  BY <1>3, <1>4, FS_Subset
<1>5. ASSUME NEW S, NEW x, S \subseteq Settled(i) \union {x}
      PROVE  IsFiniteSet(S) /\ Cardinality(S) <= Cardinality(Settled(i)) + 1
  <2>1. IsFiniteSet(Settled(i) \union {x}) /\ Cardinality(Settled(i) \union {x}) <= Cardinality(Settled(i)) + 1
    BY <1>3, FS_AddElement
  <2>2. IsFiniteSet(S) /\ Cardinality(S) <= Cardinality(Settled(i) \union {x})
    BY <1>5, <2>1, FS_Subset
  <2>. QED
    BY <1>3, <2>1, <2>2, FS_CardinalityType
<1>. QED
  BY <1>3, <1>4, <1>5

\* A thread that is through with a withdrawal leaves one transaction behind, of its own request.
LEMMA SettledByOne ==
    ASSUME TypeOK, InHandHonest, NEW t \in Threads, Withdraws(t), Done(t), DOMAIN txs' = DOMAIN txs,
           \A k \in DOMAIN txs : /\ txs'[k].origin = txs[k].origin
                                 /\ k # thread[t].tx => txs'[k].state = txs[k].state
    PROVE  \A i \in Requests :
               /\ Settled(i)' \subseteq Settled(i) \union {thread[t].tx}
               /\ i # Request(t) \/ txs'[thread[t].tx].state \notin {"pending", "sealed"} => Settled(i)' \subseteq Settled(i)
<1>1. thread'[t].pc = "idle" /\ \A u \in Threads : u # t => thread'[u] = thread[u]
  BY IdleThread DEF TypeOK, Done
<1>2. \A u \in Threads : Withdraws(u)' => Withdraws(u) /\ thread'[u] = thread[u]
  BY <1>1 DEF Withdraws
<1>3. \A u \in Threads : Withdraws(u) /\ u # t => Withdraws(u)' /\ thread'[u] = thread[u]
  BY <1>1 DEF Withdraws
<1>4. txs[thread[t].tx].origin = Request(t) /\ thread[t].tx \in DOMAIN txs
  BY DEF Request, TypeOK, Withdraws
<1>. QED
  BY <1>2, <1>3, <1>4 DEF Settled

\* What may be paid for a request only grows with what was cut off, or once with its end.
Counted(i) ==
    \/ Settled(i)' \subseteq Settled(i) /\ cut'[i] >= cut[i] /\ (status[i] = "done" => status'[i] = "done")
    \/ \E k : /\ Settled(i)' \subseteq Settled(i) \union {k}
             /\ status[i] # "done"
             /\ \/ cut'[i] > cut[i]
                \/ cut'[i] = cut[i] /\ status'[i] = "done"

LEMMA CountedIsEnough ==
    ASSUME TypeOK, TypeOK', SettledAccounted, \A i \in Requests : Counted(i)
    PROVE  SettledAccounted'
<1>. SUFFICES ASSUME NEW i \in Requests
     PROVE Cardinality(Settled(i)') <= cut'[i] + (IF status'[i] = "done" THEN 1 ELSE 0)
  BY DEF SettledAccounted, Settled, Withdraws
<1>1. Cardinality(Settled(i)) <= cut[i] + (IF status[i] = "done" THEN 1 ELSE 0)
  BY DEF SettledAccounted
<1>. DEFINE S == Settled(i)' 
<1>2. IsFiniteSet(S) /\ Cardinality(S) \in Nat
  <2>1. Counted(i)
    OBVIOUS
  <2>2. IsFiniteSet(S)
    BY <2>1, SettledCount DEF Counted
  <2>. QED
    BY <2>2, FS_CardinalityType
<1>3. /\ cut[i] \in Nat /\ cut'[i] \in Nat /\ Cardinality(Settled(i)) \in Nat
  BY SettledCount DEF TypeOK
<1>4. CASE S \subseteq Settled(i) /\ cut'[i] >= cut[i] /\ (status[i] = "done" => status'[i] = "done")
  <2>1. Cardinality(S) <= Cardinality(Settled(i))
    BY <1>4, SettledCount
  <2>. HIDE DEF S
  <2>2. Cardinality(S) <= cut'[i] + (IF status'[i] = "done" THEN 1 ELSE 0)
    BY <1>1, <1>2, <1>3, <1>4, <2>1
  <2>. QED
    BY <2>2 DEF S
<1>5. ASSUME NEW k, S \subseteq Settled(i) \union {k}, status[i] # "done",
             cut'[i] > cut[i] \/ (cut'[i] = cut[i] /\ status'[i] = "done")
      PROVE  Cardinality(S) <= cut'[i] + (IF status'[i] = "done" THEN 1 ELSE 0)
  <2>1. Cardinality(S) <= Cardinality(Settled(i)) + 1
    BY <1>5, SettledCount
  <2>. HIDE DEF S
  <2>. QED
    BY <1>1, <1>2, <1>3, <1>5, <2>1
<1>. QED
  BY <1>4, <1>5 DEF Counted

\* However a withdrawal ends, what it may pay is accounted for.
LEMMA AccountedStep ==
    ASSUME TypeOK, TypeOK', InHandHonest, SettledAccounted, [Next]_vars
    PROVE  SettledAccounted'
<1>. SUFFICES \A i \in Requests : Counted(i)
  BY CountedIsEnough
<1>. USE DEF TypeOK
<1>. DEFINE Kind == \A i \in Requests : Counted(i)
<1>1. ASSUME \A i \in Requests : Settled(i)' \subseteq Settled(i), UNCHANGED <<status, cut>>
      PROVE  Kind
  BY <1>1 DEF Counted
<1>2. ASSUME \A k \in DOMAIN txs' : txs'[k].origin \in Requests /\ txs'[k].state \in {"pending", "sealed"} =>
                 k \in DOMAIN txs /\ txs'[k].origin = txs[k].origin /\ txs[k].state \in {"pending", "sealed"},
             \A t \in Threads : Withdraws(t) => Withdraws(t)' /\ thread'[t].tx = thread[t].tx,
             UNCHANGED <<status, cut>>
      PROVE  Kind
  <2>. \A i \in Requests : Settled(i)' \subseteq Settled(i)
    BY <1>2 DEF Settled
  <2>. QED
    BY <1>1, <1>2
<1>3. ASSUME NEW t \in Threads, NEW i \in Requests, Withdraw(t, i) PROVE Kind
  <2>1. PICK token \in GetByName(Requested[i].name) :
          /\ txs' = Append(txs, [origin |-> i, to |-> Requested[i].to, contract |-> token, times |-> 1,
                                 state |-> "signed", type |-> TransferType(token)])
          /\ thread' = [thread EXCEPT ![t] = [pc |-> "send", tx |-> Len(txs) + 1, nth |-> 1, token |-> token]]
    BY <1>3 DEF Withdraw
  <2>2. /\ DOMAIN txs' = 1..(Len(txs) + 1) /\ txs'[Len(txs) + 1].state = "signed"
        /\ \A k \in DOMAIN txs : txs'[k] = txs[k]
    BY <2>1, Seqs
  <2>3. \A u \in Threads : Withdraws(u) => Withdraws(u)' /\ thread'[u].tx = thread[u].tx
    BY <1>3, <2>1 DEF Withdraw, Withdraws
  <2>4. \A k \in DOMAIN txs' : k \in DOMAIN txs \/ k = Len(txs) + 1
    BY <2>2, Seqs
  <2>. QED
    BY <1>2, <1>3, <2>2, <2>3, <2>4 DEF Withdraw
<1>4. ASSUME NEW t \in Threads, Send(t) PROVE Kind
  <2>1. thread'[t].tx = thread[t].tx /\ thread'[t].pc = "wait" /\ \A u \in Threads : u # t => thread'[u] = thread[u]
    BY <1>4 DEF Send, Execution
  <2>2. /\ DOMAIN txs' = DOMAIN txs /\ \A k \in DOMAIN txs : txs'[k].origin = txs[k].origin
        /\ \A k \in DOMAIN txs : k # thread[t].tx => txs'[k] = txs[k]
    BY <1>4, StateSet DEF Send
  <2>3. \A u \in Threads : Withdraws(u) => Withdraws(u)' /\ thread'[u].tx = thread[u].tx
    BY <2>1 DEF Withdraws
  <2>4. Withdraws(t)'
    BY <2>1 DEF Withdraws
  <2>5. \A i \in Requests : Settled(i)' \subseteq Settled(i)
    BY <2>1, <2>2, <2>3, <2>4 DEF Settled
  <2>. QED
    BY <1>1, <1>4, <2>5 DEF Send
<1>5. ASSUME NEW t \in Threads, SendFails(t) \/ Rejected(t) \/ CutOff(t) \/ Report(t) PROVE Kind
  <2>1. /\ Withdraws(t) /\ thread[t].tx \in DOMAIN txs /\ Done(t)
        /\ Request(t) \in Requests /\ status[Request(t)] = "open"
    BY <1>5 DEF SendFails, Rejected, CutOff, Report, Withdraws, InHandHonest
  <2>2. /\ DOMAIN txs' = DOMAIN txs
        /\ \A k \in DOMAIN txs : txs'[k].origin = txs[k].origin /\ (k # thread[t].tx => txs'[k].state = txs[k].state)
    BY <1>5, <2>1, StateSet DEF SendFails, Rejected, CutOff, Report
  <2>3. \A i \in Requests :
          /\ Settled(i)' \subseteq Settled(i) \union {thread[t].tx}
          /\ i # Request(t) \/ txs'[thread[t].tx].state \notin {"pending", "sealed"} => Settled(i)' \subseteq Settled(i)
    BY <2>1, <2>2, SettledByOne
  <2>4. \A i \in Requests : i # Request(t) => status'[i] = status[i] /\ cut'[i] = cut[i]
    BY <1>5, <2>1, FailsType DEF SendFails, Rejected, CutOff, Report
  <2>5. \/ cut' = cut /\ txs'[thread[t].tx].state \notin {"pending", "sealed"}
        \/ cut'[Request(t)] > cut[Request(t)]
        \/ cut' = cut /\ status'[Request(t)] = "done"
    <3>1. CASE SendFails(t)
      BY <2>1, <3>1 DEF SendFails, InHandHonest
    <3>2. CASE Rejected(t)
      BY <2>1, <3>2 DEF Rejected
    <3>3. CASE CutOff(t)
      BY <2>1, <3>3 DEF CutOff
    <3>4. CASE Report(t)
      BY <2>1, <3>4 DEF Report
    <3>. QED
      BY <1>5, <3>1, <3>2, <3>3, <3>4
  <2>6. ASSUME NEW i \in Requests, i # Request(t) PROVE Counted(i)
    BY <2>3, <2>4, <2>6 DEF Counted
  <2>7. ASSUME NEW i \in Requests, i = Request(t) PROVE Counted(i)
    <3>1. /\ Settled(i)' \subseteq Settled(i) \union {thread[t].tx}
          /\ txs'[thread[t].tx].state \notin {"pending", "sealed"} => Settled(i)' \subseteq Settled(i)
      BY <2>3
    <3>2. status[i] = "open" /\ cut[i] \in Nat /\ cut'[i] \in Nat
      BY <2>1, <2>7
    <3>4. CASE cut'[i] = cut[i] /\ txs'[thread[t].tx].state \notin {"pending", "sealed"}
      BY <3>1, <3>2, <3>4 DEF Counted
    <3>5. CASE cut'[i] > cut[i] \/ (cut'[i] = cut[i] /\ status'[i] = "done")
      BY <3>1, <3>2, <3>5 DEF Counted
    <3>3. \/ cut'[i] = cut[i] /\ txs'[thread[t].tx].state \notin {"pending", "sealed"}
          \/ cut'[i] > cut[i]
          \/ cut'[i] = cut[i] /\ status'[i] = "done"
      BY <2>5, <2>7
    <3>. QED
      BY <3>3, <3>4, <3>5
  <2>. QED
    BY <2>6, <2>7
<1>6. ASSUME NEW k \in DOMAIN txs, Execute(k) PROVE Kind
  <2>1. /\ DOMAIN txs' = DOMAIN txs /\ txs[k].state = "pending" /\ txs'[k].origin = txs[k].origin
        /\ \A j \in DOMAIN txs : j # k => txs'[j] = txs[j]
    BY <1>6, StateSet DEF Execute
  <2>. QED
    BY <1>2, <1>6, <2>1 DEF Execute, Withdraws
<1>7. ASSUME NEW t \in Threads, Sealed(t) \/ SaveTransfer(t) PROVE Kind
  <2>1. PICK next \in {"save", "report"} : thread' = [thread EXCEPT ![t].pc = next]
    BY <1>7 DEF Sealed, SaveTransfer
  <2>2. /\ thread'[t].pc = next /\ thread'[t].tx = thread[t].tx
        /\ \A u \in Threads : u # t => thread'[u] = thread[u]
    BY <2>1 DEF Execution
  <2>3. \A u \in Threads : Withdraws(u) => Withdraws(u)' /\ thread'[u].tx = thread[u].tx
    BY <2>2 DEF Withdraws
  <2>. QED
    BY <1>2, <1>7, <2>3 DEF Sealed, SaveTransfer
<1>8. ASSUME NEW o \in DOMAIN Outside, Arrive(o) PROVE Kind
  <2>1. o \notin Requests
    BY TransfersOK
  <2>2. /\ \A k \in DOMAIN txs' : k \in DOMAIN txs \/ k = Len(txs) + 1
        /\ txs'[Len(txs) + 1].origin = o /\ \A k \in DOMAIN txs : txs'[k] = txs[k]
    BY <1>8, Seqs DEF Arrive
  <2>. QED
    BY <1>2, <1>8, <2>1, <2>2 DEF Arrive, Withdraws
<1>9. ASSUME DOMAIN txs' = DOMAIN txs,
             \A k \in DOMAIN txs : txs'[k].state = txs[k].state /\ txs'[k].origin = txs[k].origin,
             \A u \in Threads : thread'[u] = thread[u] \/ ~ Withdraws(u),
             UNCHANGED <<status, cut>>
      PROVE  Kind
  BY <1>2, <1>9 DEF Withdraws
<1>10. ASSUME NEW t \in Threads, NEW k \in DOMAIN txs, NEW n, Handle(t, k, n) PROVE Kind
  <2>1. DOMAIN txs' = DOMAIN txs /\ \A j \in DOMAIN txs : txs'[j].state = txs[j].state /\ txs'[j].origin = txs[j].origin
    BY <1>10, Seqs DEF Handle, Tx
  <2>2. \A u \in Threads : thread'[u] = thread[u] \/ ~ Withdraws(u)
    BY <1>10 DEF Handle, Withdraws
  <2>. QED
    BY <1>9, <1>10, <2>1, <2>2 DEF Handle
<1>11. ASSUME NEW k \in DOMAIN txs, NEW n, HandleFails(k, n) PROVE Kind
  <2>1. DOMAIN txs' = DOMAIN txs /\ \A j \in DOMAIN txs : txs'[j].state = txs[j].state /\ txs'[j].origin = txs[j].origin
    BY <1>11, Seqs DEF HandleFails, Tx
  <2>. QED
    BY <1>9, <1>11, <2>1 DEF HandleFails
<1>12. ASSUME NEW t \in Threads, Enable(t) \/ Lose(t) \/ Look(t) \/ Insert(t) PROVE Kind
  <2>1. ~ Withdraws(t) /\ \A u \in Threads : u # t => thread'[u] = thread[u]
    BY <1>12 DEF Enable, Lose, Look, Insert, Done, Withdraws
  <2>. QED
    BY <1>9, <1>12, <2>1 DEF Enable, Lose, Look, Insert
<1>13. ASSUME NEW a, NEW n, EnableToken(a, n) \/ Watch(a) \/ Unwatch(a) PROVE Kind
  BY <1>9, <1>13 DEF EnableToken, Watch, Unwatch
<1>14. CASE (RegistryStep /\ UNCHANGED transferVars) \/ Restart \/ UNCHANGED vars
  BY <1>9, <1>14 DEF transferVars, Restart, vars
<1>15. CASE Crash
  <2>. SUFFICES ASSUME NEW i \in Requests PROVE Counted(i)
    OBVIOUS
  <2>1. /\ UNCHANGED txs /\ \A t \in Threads : ~ Withdraws(t)'
        /\ cut'[i] = IF \E t \in Threads : thread[t].pc \in {"wait", "save", "report"} /\ Request(t) = i
                        THEN cut[i] + 1 ELSE cut[i]
        /\ status'[i] = status[i] \/ \E t \in Threads : Withdraws(t) /\ Request(t) = i
    BY <1>15, IdleThread DEF Crash, Withdraws
  <2>2. CASE \E t \in Threads : thread[t].pc \in {"wait", "save", "report"} /\ Request(t) = i
    <3>1. PICK t \in Threads : thread[t].pc \in {"wait", "save", "report"} /\ Request(t) = i
      BY <2>2
    <3>2. Withdraws(t) /\ status[i] = "open" /\ cut'[i] > cut[i]
      BY <2>1, <3>1 DEF Withdraws, InHandHonest
    <3>3. Settled(i)' \subseteq Settled(i) \union {thread[t].tx}
      BY <2>1, <3>1, <3>2 DEF Settled, InHandHonest, Request
    <3>. QED
      BY <3>2, <3>3 DEF Counted
  <2>3. CASE \A t \in Threads : thread[t].pc \in {"wait", "save", "report"} => Request(t) # i
    <3>1. \A t \in Threads : Withdraws(t) /\ Request(t) = i => txs[thread[t].tx].state = "signed" /\ status[i] = "open"
      BY <2>3 DEF Withdraws, InHandHonest
    <3>2. ASSUME NEW k \in Settled(i)' PROVE k \in Settled(i)
      <4>1. k \in DOMAIN txs /\ txs[k].origin = i /\ txs[k].state \in {"pending", "sealed"}
        BY <2>1, <3>2 DEF Settled
      <4>2. \A t \in Threads : Withdraws(t) => thread[t].tx # k
        BY <3>1, <4>1 DEF Request
      <4>. QED
        BY <4>1, <4>2 DEF Settled
    <3>. QED
      BY <2>1, <2>3, <3>1, <3>2 DEF Counted
  <2>. QED
    BY <2>2, <2>3
<1>. QED
  BY <1>3, <1>4, <1>5, <1>6, <1>7, <1>8, <1>10, <1>11, <1>12, <1>13, <1>14, <1>15 DEF Next, ThreadStep

\* What is paid was settled, or is in the hand of the one thread that executes the withdrawal.
LEMMA SettledIsPaid ==
    ASSUME TypeOK, InHandHonest, SettledAccounted
    PROVE  PaymentsAccounted
<1>. SUFFICES ASSUME NEW i \in Requests
     PROVE Cardinality(Payments(i)) <=
              cut[i] + (IF status[i] = "done" \/ \E k \in Payments(i) : InHand(k) # {} THEN 1 ELSE 0)
  BY DEF PaymentsAccounted
<1>1. /\ Cardinality(Settled(i)) <= cut[i] + (IF status[i] = "done" THEN 1 ELSE 0)
      /\ cut[i] \in Nat /\ Cardinality(Settled(i)) \in Nat
  BY SettledCount DEF SettledAccounted, TypeOK
<1>2. CASE Payments(i) \subseteq Settled(i)
  <2>1. Cardinality(Payments(i)) <= Cardinality(Settled(i)) /\ Cardinality(Payments(i)) \in Nat
    BY <1>2, SettledCount, FS_CardinalityType
  <2>. QED
    BY <1>1, <2>1
<1>3. ASSUME NEW k \in Payments(i), k \notin Settled(i)
      PROVE Cardinality(Payments(i)) <=
              cut[i] + (IF status[i] = "done" \/ \E j \in Payments(i) : InHand(j) # {} THEN 1 ELSE 0)
  <2>1. PICK t \in Threads : Withdraws(t) /\ thread[t].tx = k
    BY <1>3 DEF Payments, Settled
  <2>2. Request(t) = i /\ status[i] = "open" /\ InHand(k) # {}
    BY <1>3, <2>1 DEF Payments, Request, InHandHonest, InHand, Withdraws
  <2>3. \A j \in Payments(i) : j \in Settled(i) \/ j = k
    BY <2>1, <2>2 DEF Payments, Settled, InHandHonest, Request
  <2>4. Cardinality(Payments(i)) <= Cardinality(Settled(i)) + 1 /\ Cardinality(Payments(i)) \in Nat
    <3>. Payments(i) \subseteq Settled(i) \union {k}
      BY <2>3
    <3>. QED
      BY SettledCount, FS_CardinalityType
  <2>. QED
    BY <1>1, <1>3, <2>2, <2>4
<1>. QED
  BY <1>2, <1>3

-----------------------------------------------------------------------------
(* Stored transfers.                                                       *)

\* Which step of its own a thread has made, if it has something in hand afterwards.
LEMMA ThreadGoesOn ==
    ASSUME TypeOK, [Next]_vars, NEW u \in Threads, thread'[u].pc # "idle"
    PROVE  \/ thread'[u] = thread[u]
           \/ Send(u) \/ Sealed(u) \/ SaveTransfer(u) \/ Enable(u) \/ (Look(u) /\ ~ Found(u))
           \/ \E i \in Requests : Withdraw(u, i)
           \/ \E k \in DOMAIN txs : \E n \in 1..txs[k].times : Handle(u, k, n)
<1>. DEFINE Own == \/ thread'[u] = thread[u]
                   \/ Send(u) \/ Sealed(u) \/ SaveTransfer(u) \/ Enable(u) \/ (Look(u) /\ ~ Found(u))
                   \/ \E i \in Requests : Withdraw(u, i)
                   \/ \E k \in DOMAIN txs : \E n \in 1..txs[k].times : Handle(u, k, n)
<1>0. thread \in [Threads -> Execution]
  BY DEF TypeOK
<1>1. ASSUME NEW t \in Threads, ThreadStep(t), t # u PROVE thread'[u] = thread[u]
  BY <1>0, <1>1 DEF ThreadStep, Withdraw, Send, SendFails, Sealed, Rejected, SaveTransfer, CutOff, Report,
     Handle, Enable, Lose, Look, Insert, Done
<1>2. ASSUME Done(u) PROVE FALSE
  BY <1>0, <1>2, IdleThread DEF Done
<1>3. ASSUME SendFails(u) \/ Rejected(u) \/ CutOff(u) \/ Report(u) \/ Lose(u) \/ Insert(u) \/ (Look(u) /\ Found(u))
      PROVE  FALSE
  BY <1>2, <1>3 DEF SendFails, Rejected, CutOff, Report, Lose, Insert, Look
<1>4. ASSUME ThreadStep(u) PROVE Own
  BY <1>3, <1>4 DEF ThreadStep
<1>5. ASSUME NEW k, Execute(k) \/ \E n \in 1..txs[k].times : HandleFails(k, n) PROVE UNCHANGED thread
  BY <1>5 DEF Execute, HandleFails
<1>6. ASSUME NEW a, NEW n, EnableToken(a, n) \/ Watch(a) \/ Unwatch(a) \/ Arrive(a) PROVE UNCHANGED thread
  BY <1>6 DEF EnableToken, Watch, Unwatch, Arrive
<1>7. ASSUME (RegistryStep /\ UNCHANGED transferVars) \/ Restart \/ UNCHANGED vars PROVE UNCHANGED thread
  BY <1>7 DEF transferVars, Restart, vars
<1>8. ~ Crash
  BY IdleThread DEF Crash
<1>9. (\E t \in Threads : ThreadStep(t)) \/ UNCHANGED thread
  BY <1>5, <1>6, <1>7, <1>8 DEF Next
<1>. HIDE DEF Own
<1>10. Own
  <2>1. ASSUME thread'[u] = thread[u] PROVE Own
    BY <2>1 DEF Own
  <2>. QED
    BY <1>1, <1>4, <1>9, <2>1
<1>. QED
  BY <1>10 DEF Own

\* Whoever begins, the others have in hand what they had.
LEMMA BeginsAlone ==
    ASSUME TypeOK, NEW t \in Threads,
           (\E i \in Requests : Withdraw(t, i)) \/ (\E k \in DOMAIN txs : \E n \in 1..txs[k].times : Handle(t, k, n))
    PROVE  UNCHANGED rows /\ \A u \in Threads : u # t => thread'[u] = thread[u]
BY DEF TypeOK, Withdraw, Handle

\* A transfer is stored by one thread, for the transaction it has in hand; of the
\* history, only a delivery adds to the races, and a handler's end to what is handled.
LEMMA RowsMove ==
    ASSUME TypeOK, InHandHonest, [Next]_vars
    PROVE  /\ UNCHANGED rows \/ \E t \in Threads : SaveTransfer(t) \/ Insert(t)
           /\ raced \subseteq raced'
           /\ \A i \in Requests : status'[i] = "done" =>
                 status[i] = "done" \/ \E t \in Threads : Report(t) /\ Request(t) = i
           /\ \A d \in handled' : d \in handled
                 \/ \E t \in Threads : d = <<thread[t].tx, thread[t].nth>> /\ ((Look(t) /\ Found(t)) \/ Insert(t))
<1>. DEFINE Goal == /\ UNCHANGED rows \/ \E t \in Threads : SaveTransfer(t) \/ Insert(t)
                    /\ raced \subseteq raced'
                    /\ \A i \in Requests : status'[i] = "done" =>
                          status[i] = "done" \/ \E t \in Threads : Report(t) /\ Request(t) = i
                    /\ \A d \in handled' : d \in handled
                          \/ \E t \in Threads : d = <<thread[t].tx, thread[t].nth>> /\ ((Look(t) /\ Found(t)) \/ Insert(t))
<1>. SUFFICES Goal
  OBVIOUS
<1>1. ASSUME UNCHANGED <<rows, raced, status, handled>> PROVE Goal
  BY <1>1
<1>2. ASSUME NEW t \in Threads, ThreadStep(t) PROVE Goal
  <2>1. ASSUME NEW i \in Requests, Withdraw(t, i) PROVE Goal
    BY <1>1, <2>1 DEF Withdraw
  <2>2. CASE Send(t) \/ Sealed(t) \/ Enable(t) \/ Lose(t)
    BY <1>1, <2>2 DEF Send, Sealed, Enable, Lose
  <2>3. CASE SendFails(t) \/ Rejected(t) \/ CutOff(t)
    <3>1. Request(t) \in Requests
      BY <2>3 DEF SendFails, Rejected, CutOff, Withdraws, InHandHonest
    <3>2. \A i \in Requests : status'[i] = "done" => status[i] = "done"
      BY <2>3, <3>1, FailsType DEF SendFails, Rejected, CutOff
    <3>. QED
      BY <2>3, <3>2 DEF SendFails, Rejected, CutOff
  <2>4. CASE SaveTransfer(t)
    BY <2>4 DEF SaveTransfer
  <2>5. CASE Report(t)
    <3>1. \A i \in Requests : i # Request(t) => status'[i] = status[i]
      BY <2>5 DEF Report, TypeOK
    <3>. QED
      BY <2>5, <3>1 DEF Report
  <2>6. ASSUME NEW k \in DOMAIN txs, NEW n, Handle(t, k, n) PROVE Goal
    BY <2>6 DEF Handle
  <2>7. CASE Look(t)
    BY <2>7 DEF Look
  <2>8. CASE Insert(t)
    BY <2>8 DEF Insert
  <2>. QED
    BY <1>2, <2>1, <2>2, <2>3, <2>4, <2>5, <2>6, <2>7, <2>8 DEF ThreadStep
<1>3. ASSUME NEW k, Execute(k) \/ \E n \in 1..txs[k].times : HandleFails(k, n) PROVE Goal
  BY <1>1, <1>3 DEF Execute, HandleFails
<1>4. ASSUME NEW a, NEW n, EnableToken(a, n) \/ Watch(a) \/ Unwatch(a) \/ Arrive(a) PROVE Goal
  BY <1>1, <1>4 DEF EnableToken, Watch, Unwatch, Arrive
<1>5. CASE (RegistryStep /\ UNCHANGED transferVars) \/ Restart \/ UNCHANGED vars
  BY <1>1, <1>5 DEF transferVars, Restart, vars
<1>6. CASE Crash
  BY <1>6 DEF Crash
<1>. HIDE DEF Goal
<1>. QED
  BY <1>2, <1>3, <1>4, <1>5, <1>6 DEF Next

LEMMA RowStored ==
    ASSUME TypeOK, TypeOK', TxsHonest, InHandHonest, NEW t \in Threads, SaveTransfer(t) \/ Insert(t)
    PROVE  /\ DOMAIN rows' = DOMAIN rows \union {Len(rows) + 1} /\ Len(rows) + 1 \notin DOMAIN rows
           /\ \A r \in DOMAIN rows : rows'[r] = rows[r]
           /\ rows'[Len(rows) + 1].tx = thread[t].tx /\ rows'[Len(rows) + 1].name = thread[t].token.name
           /\ rows'[Len(rows) + 1].to = txs[thread[t].tx].to
           /\ SaveTransfer(t) => rows'[Len(rows) + 1].by = "withdrawal"
           /\ thread[t].pc # "idle" /\ thread[t].tx \in DOMAIN txs /\ UNCHANGED <<txs, raced>>
<1>1. thread[t].pc # "idle" /\ thread[t].tx \in DOMAIN txs /\ UNCHANGED <<txs, raced>>
  BY DEF SaveTransfer, Insert, TypeOK
<1>2. SaveTransfer(t) => Requested[Request(t)].to = txs[thread[t].tx].to
  BY <1>1 DEF SaveTransfer, Request, Withdraws, InHandHonest, TxsHonest
<1>3. PICK row : /\ rows' = Append(rows, row) /\ row.tx = thread[t].tx /\ row.name = thread[t].token.name
                 /\ row.to = txs[thread[t].tx].to
                 /\ SaveTransfer(t) => row.by = "withdrawal"
  BY <1>2 DEF SaveTransfer, Insert
<1>4. /\ Len(rows) \in Nat /\ DOMAIN rows = 1..Len(rows) /\ DOMAIN rows' = 1..(Len(rows) + 1)
      /\ \A r \in DOMAIN rows : rows'[r] = rows[r]
      /\ rows'[Len(rows) + 1] = row
  BY <1>3, Seqs
<1>5. 1..(Len(rows) + 1) = 1..Len(rows) \union {Len(rows) + 1} /\ Len(rows) + 1 \notin 1..Len(rows)
  BY <1>4
<1>. QED
  BY <1>1, <1>3, <1>4, <1>5

\* What is stored stays, and so does what it is listed under.
LEMMA RowsStay ==
    ASSUME TypeOK, TypeOK', TxsHonest, InHandHonest, RowsHonest, [Next]_vars, NEW r \in DOMAIN rows
    PROVE  /\ r \in DOMAIN rows' /\ rows'[r] = rows[r]
           /\ Kept(rows[r].tx) /\ rows[r].tx \in DOMAIN txs
           /\ Shown(r)' <=> Shown(r)
<1>1. r \in DOMAIN rows' /\ rows'[r] = rows[r]
  BY RowsMove, RowStored
<1>2. rows[r].tx \in DOMAIN txs /\ Kept(rows[r].tx) /\ txs[rows[r].tx].type \notin {"none", "Unknown"}
  BY TxsMove DEF RowsHonest
<1>. QED
  BY <1>1, <1>2 DEF Kept, Shown, TransferType

LEMMA RowsHonestStep ==
    ASSUME TypeOK, TypeOK', TxsHonest, InHandHonest, RowsHonest, [Next]_vars
    PROVE  RowsHonest'
<1>. SUFFICES ASSUME NEW r \in DOMAIN rows'
     PROVE  /\ rows'[r].tx \in DOMAIN txs' /\ txs'[rows'[r].tx].type \notin {"none", "Unknown"}
            /\ rows'[r].to = txs'[rows'[r].tx].to
  BY DEF RowsHonest
<1>1. CASE r \in DOMAIN rows
  BY <1>1, RowsStay DEF RowsHonest, Kept
<1>2. CASE r \notin DOMAIN rows
  <2>1. PICK t \in Threads : SaveTransfer(t) \/ Insert(t)
    BY <1>2, RowsMove
  <2>. QED
    BY <1>2, <2>1, RowStored DEF InHandHonest
<1>. QED
  BY <1>1, <1>2

LEMMA ReportsStep ==
    ASSUME TypeOK, TypeOK', TxsHonest, InHandHonest, RowsHonest, ReportsListed, [Next]_vars
    PROVE  ReportsListed'
<1>. SUFFICES ASSUME NEW t \in Threads, thread'[t].pc = "report"
     PROVE  \E r \in DOMAIN rows' : rows'[r].tx = thread'[t].tx /\ rows'[r].by = "withdrawal"
  BY DEF ReportsListed
<1>1. CASE thread'[t] = thread[t]
  <2>1. PICK r \in DOMAIN rows : rows[r].tx = thread[t].tx /\ rows[r].by = "withdrawal"
    BY <1>1 DEF ReportsListed
  <2>. QED
    BY <1>1, <2>1, RowsStay
<1>2. CASE SaveTransfer(t)
  <2>1. thread'[t].tx = thread[t].tx
    BY <1>2 DEF SaveTransfer, TypeOK, Execution
  <2>. QED
    BY <1>2, <2>1, RowStored
<1>3. ASSUME Send(t) \/ Sealed(t) \/ Enable(t) \/ Look(t) PROVE FALSE
  BY <1>3, IdleThread DEF Send, Sealed, Enable, Look, Done, TypeOK, Execution
<1>4. ASSUME NEW i \in Requests, Withdraw(t, i) PROVE FALSE
  BY <1>4 DEF Withdraw, TypeOK
<1>5. ASSUME NEW k \in DOMAIN txs, NEW n \in 1..txs[k].times, Handle(t, k, n) PROVE FALSE
  BY <1>5 DEF Handle, TypeOK
<1>. QED
  BY <1>1, <1>2, <1>3, <1>4, <1>5, ThreadGoesOn

LEMMA TokensStep ==
    ASSUME TypeOK, TypeOK', InHandHonest, TokensFromEvents, [Next]_vars
    PROVE  TokensFromEvents'
<1>. SUFFICES ASSUME NEW t \in Threads, thread'[t].pc # "idle"
     PROVE  LET contract == txs'[thread'[t].tx].contract
            IN  thread'[t].token.address = contract.address /\ <<contract.name, thread'[t].token.name>> \in Alike
  BY DEF TokensFromEvents
<1>1. CASE thread[t].pc # "idle" /\ thread'[t].tx = thread[t].tx /\ thread'[t].token = thread[t].token
  <2>1. thread[t].tx \in DOMAIN txs /\ txs'[thread[t].tx].contract = txs[thread[t].tx].contract
    BY <1>1, TxsMove DEF TypeOK, Kept
  <2>. QED
    BY <1>1, <2>1 DEF TokensFromEvents
<1>2. ASSUME NEW i \in Requests, Withdraw(t, i)
      PROVE  txs'[thread'[t].tx].contract = thread'[t].token /\ thread'[t].token \in Contracts
  <2>1. PICK token \in GetByName(Requested[i].name) :
          /\ txs' = Append(txs, [origin |-> i, to |-> Requested[i].to, contract |-> token, times |-> 1,
                                 state |-> "signed", type |-> TransferType(token)])
          /\ thread' = [thread EXCEPT ![t] = [pc |-> "send", tx |-> Len(txs) + 1, nth |-> 1, token |-> token]]
    BY <1>2 DEF Withdraw
  <2>2. token \in Contracts
    BY <2>1, FoundTokens DEF TypeOK
  <2>. QED
    BY <2>1, <2>2, Seqs DEF TypeOK
<1>3. ASSUME NEW k \in DOMAIN txs, NEW n \in 1..txs[k].times, Handle(t, k, n)
      PROVE  /\ thread'[t].token.address = txs'[thread'[t].tx].contract.address
             /\ <<txs'[thread'[t].tx].contract.name, thread'[t].token.name>> \in Alike
  <2>1. PICK token \in TokenFromEvent(txs[k].contract) : thread'[t].tx = k /\ thread'[t].token = token
    BY <1>3 DEF Handle, TypeOK
  <2>2. txs'[k].contract = txs[k].contract
    BY TxsMove DEF Kept
  <2>3. token.address = txs[k].contract.address /\ token \in GetByName(txs[k].contract.name)
    BY <2>1 DEF TokenFromEvent
  <2>4. \A n1, tok : tok \in FromTemp(n1) => <<n1, tok.name>> \in Alike
    BY DEF FromTemp, SameKey
  <2>5. \A n1, tok : tok \in FromDB(n1) => <<n1, tok.name>> \in Alike
    BY DEF FromDB, First
  <2>. QED
    BY <2>1, <2>2, <2>3, <2>4, <2>5 DEF GetByName
<1>4. \A c \in Contracts : <<c.name, c.name>> \in Alike
  BY RegistryOK DEF Names
<1>. QED
  BY <1>1, <1>2, <1>3, <1>4, ThreadsMove

LEMMA CompleteStep ==
    ASSUME TypeOK, TypeOK', TxsHonest, TxsHonest', InHandHonest, RowsHonest, ReportsListed, CompleteIsListed, [Next]_vars
    PROVE  CompleteIsListed'
<1>. SUFFICES ASSUME NEW i \in Requests, status'[i] = "done"
     PROVE  \E r \in DOMAIN rows' : rows'[r].tx \in Payments(i)' /\ rows'[r].by = "withdrawal" /\ Shown(r)'
  BY DEF CompleteIsListed, Payments, Shown
<1>1. CASE status[i] = "done"
  <2>1. PICK r \in DOMAIN rows : rows[r].tx \in Payments(i) /\ rows[r].by = "withdrawal" /\ Shown(r)
    BY <1>1 DEF CompleteIsListed
  <2>2. rows[r].tx \in Payments(i)'
    BY <2>1, RowsStay DEF Payments, Kept
  <2>. QED
    BY <2>1, <2>2, RowsStay
<1>2. ASSUME NEW t \in Threads, Report(t), Request(t) = i
      PROVE  \E r \in DOMAIN rows' : rows'[r].tx \in Payments(i)' /\ rows'[r].by = "withdrawal" /\ Shown(r)'
  <2>1. thread[t].pc = "report" /\ UNCHANGED <<txs, rows>> /\ thread[t].tx \in DOMAIN txs
    BY <1>2 DEF Report, TypeOK
  <2>2. txs[thread[t].tx].state = "sealed" /\ txs[thread[t].tx].origin = i
    BY <1>2, <2>1 DEF InHandHonest, Withdraws, Request
  <2>3. PICK r \in DOMAIN rows : rows[r].tx = thread[t].tx /\ rows[r].by = "withdrawal"
    BY <2>1 DEF ReportsListed
  <2>4. txs[thread[t].tx].type = TransferType(txs[thread[t].tx].contract)
    BY <2>1, <2>2 DEF TxsHonest
  <2>. QED
    BY <2>1, <2>2, <2>3, <2>4 DEF Payments, Shown, TransferType
<1>. QED
  BY <1>1, <1>2, RowsMove

LEMMA HandledStep ==
    ASSUME TypeOK, TypeOK', TxsHonest, InHandHonest, RowsHonest, HandledIsListed, [Next]_vars
    PROVE  HandledIsListed'
<1>. DEFINE InList(d) == \E r \in DOMAIN rows' : rows'[r].tx = d[1] /\ rows'[r].to = txs'[d[1]].to /\ Shown(r)'
<1>. SUFFICES ASSUME NEW d \in handled', txs'[d[1]].contract.type = "FT", txs'[d[1]].type # "General"
     PROVE  InList(d)
  BY DEF HandledIsListed, Shown, TransferType
<1>1. CASE d \in handled
  <2>1. d[1] \in DOMAIN txs
    BY <1>1 DEF TypeOK
  <2>2. Kept(d[1])
    BY <2>1, TxsMove
  <2>3. txs[d[1]].contract.type = "FT" /\ txs[d[1]].type # "General" /\ txs'[d[1]].to = txs[d[1]].to
    BY <2>2 DEF Kept
  <2>4. PICK r \in DOMAIN rows : rows[r].tx = d[1] /\ rows[r].to = txs[d[1]].to /\ Shown(r)
    BY <1>1, <2>3 DEF HandledIsListed
  <2>. QED
    BY <2>3, <2>4, RowsStay
<1>2. ASSUME NEW t \in Threads, d = <<thread[t].tx, thread[t].nth>>, (Look(t) /\ Found(t)) \/ Insert(t)
      PROVE  InList(d)
  <2>1. d[1] = thread[t].tx /\ thread[t].pc # "idle" /\ thread[t].tx \in DOMAIN txs /\ UNCHANGED txs
    BY <1>2 DEF Look, Insert, TypeOK
  <2>2. txs[d[1]].type = TransferType(txs[d[1]].contract)
    BY <2>1 DEF InHandHonest, TxsHonest, TransferType
  <2>3. CASE Look(t) /\ Found(t)
    <3>1. PICK r \in DOMAIN rows : rows[r].tx = thread[t].tx /\ rows[r].to = txs[thread[t].tx].to
      BY <2>3 DEF Found
    <3>2. UNCHANGED rows
      BY <2>3 DEF Look
    <3>. QED
      BY <2>1, <2>2, <3>1, <3>2 DEF Shown, TransferType
  <2>4. CASE Insert(t)
    BY <2>1, <2>2, <2>4, RowStored DEF Shown, TransferType
  <2>. QED
    BY <1>2, <2>3, <2>4
<1>. QED
  BY <1>1, <1>2, RowsMove

-----------------------------------------------------------------------------
(* One transfer, one row.                                                  *)

\* But for the transactions that are raced for, nobody else has in hand what a thread has.
LEMMA AloneStep ==
    ASSUME TypeOK, TypeOK', InHandHonest, AloneAndNew, [Next]_vars,
           NEW t \in Threads, NEW u \in Threads, thread'[t].pc # "idle", thread'[u].pc # "idle",
           thread'[u].tx = thread'[t].tx, thread'[t].tx \notin raced'
    PROVE  u = t
<1>. DEFINE Begins(v) == \/ \E i \in Requests : Withdraw(v, i)
                         \/ \E k \in DOMAIN txs : \E n \in 1..txs[k].times : Handle(v, k, n)
<1>1. ASSUME NEW v \in Threads, NEW w \in Threads, Begins(v), w # v, thread'[v].pc # "idle", thread'[w].pc # "idle",
             thread'[w].tx = thread'[v].tx
      PROVE  thread'[v].tx \in raced'
  <2>1. thread'[w] = thread[w] /\ thread[w].tx \in DOMAIN txs
    BY <1>1, BeginsAlone DEF TypeOK
  <2>2. ASSUME NEW i \in Requests, Withdraw(v, i) PROVE FALSE
    <3>1. thread'[v].tx = Len(txs) + 1
      BY <2>2 DEF Withdraw, TypeOK
    <3>. QED
      BY <1>1, <2>1, <3>1, Seqs
  <2>3. ASSUME NEW k \in DOMAIN txs, NEW n \in 1..txs[k].times, Handle(v, k, n) PROVE thread'[v].tx \in raced'
    <3>1. thread'[v].tx = k /\ raced' = IF InHand(k) = {} THEN raced ELSE raced \union {k}
      BY <2>3 DEF Handle, TypeOK
    <3>2. w \in InHand(k)
      BY <1>1, <2>1, <3>1 DEF InHand
    <3>. QED
      BY <3>1, <3>2
  <2>. QED
    BY <1>1, <2>2, <2>3
<1>2. \A v \in {t, u} : Begins(v) \/ (thread[v].pc # "idle" /\ thread'[v].tx = thread[v].tx)
  BY ThreadsMove
<1>. HIDE DEF Begins
<1>3. CASE Begins(t) \/ Begins(u)
  BY <1>1, <1>3
<1>4. CASE thread[t].pc # "idle" /\ thread'[t].tx = thread[t].tx /\ thread[u].pc # "idle" /\ thread'[u].tx = thread[u].tx
  BY <1>4, RowsMove DEF AloneAndNew
<1>. QED
  BY <1>2, <1>3, <1>4

\* A transfer that a thread stores is of no transaction that another one has in hand alone.
LEMMA StoredByOther ==
    ASSUME TypeOK, TypeOK', TxsHonest, InHandHonest, AloneAndNew, [Next]_vars,
           NEW t \in Threads, thread[t].pc # "idle", thread[t].tx \notin raced, thread'[t] = thread[t],
           NEW r \in DOMAIN rows', rows'[r].tx = thread[t].tx
    PROVE  r \in DOMAIN rows /\ rows'[r] = rows[r]
<1>1. CASE UNCHANGED rows
  BY <1>1
<1>2. ASSUME NEW v \in Threads, SaveTransfer(v) \/ Insert(v) PROVE r \in DOMAIN rows /\ rows'[r] = rows[r]
  <2>1. v # t
    BY <1>2, IdleThread DEF SaveTransfer, Insert, Done, TypeOK, Execution
  <2>2. thread[v].pc # "idle" /\ thread[v].tx # thread[t].tx
    BY <1>2, <2>1 DEF SaveTransfer, Insert, AloneAndNew
  <2>. QED
    BY <1>2, <2>2, RowStored
<1>. QED
  BY <1>1, <1>2, RowsMove

\* No transfer is stored yet of a withdrawal that waits.
LEMMA WaitsUnstored ==
    ASSUME TypeOK, TypeOK', TxsHonest, InHandHonest, RowsHonest, AloneAndNew, [Next]_vars,
           NEW t \in Threads, thread'[t].pc \in {"send", "wait", "save"}, thread'[t].tx \notin raced',
           NEW r \in DOMAIN rows'
    PROVE  rows'[r].tx # thread'[t].tx
<1>1. CASE thread'[t] = thread[t]
  <2>1. thread[t].tx \notin raced
    BY <1>1, RowsMove
  <2>. QED
    BY <1>1, <2>1, StoredByOther DEF AloneAndNew
<1>2. CASE Send(t) \/ Sealed(t)
  <2>1. /\ thread'[t].tx = thread[t].tx /\ UNCHANGED <<rows, raced>>
        /\ thread[t].pc \in {"send", "wait"}
    BY <1>2 DEF Send, Sealed, TypeOK, Execution
  <2>. QED
    BY <2>1 DEF AloneAndNew
<1>3. ASSUME NEW i \in Requests, Withdraw(t, i) PROVE rows'[r].tx # thread'[t].tx
  <2>1. thread'[t].tx = Len(txs) + 1 /\ UNCHANGED rows
    BY <1>3 DEF Withdraw, TypeOK
  <2>. QED
    BY <2>1, Seqs DEF RowsHonest
<1>4. ASSUME SaveTransfer(t) \/ Enable(t) \/ (Look(t) /\ ~ Found(t)) PROVE FALSE
  BY <1>4, IdleThread DEF SaveTransfer, Enable, Look, Done, TypeOK, Execution
<1>5. ASSUME NEW k \in DOMAIN txs, NEW n \in 1..txs[k].times, Handle(t, k, n) PROVE FALSE
  BY <1>5 DEF Handle, TypeOK
<1>. QED
  BY <1>1, <1>2, <1>3, <1>4, <1>5, ThreadGoesOn

\* What a handler has not found is not there when it stores it.
LEMMA NotFoundUnstored ==
    ASSUME TypeOK, TypeOK', TxsHonest, InHandHonest, RowsHonest, AloneAndNew, [Next]_vars,
           NEW t \in Threads, thread'[t].pc = "insert", thread'[t].tx \notin raced',
           txs'[thread'[t].tx].type = TransferType(thread'[t].token),
           NEW r \in DOMAIN rows', rows'[r].tx = thread'[t].tx
    PROVE  rows'[r].name # thread'[t].token.name
<1>1. CASE thread'[t] = thread[t]
  <2>1. thread[t].tx \notin raced /\ thread[t].tx \in DOMAIN txs
    BY <1>1, RowsMove DEF TypeOK
  <2>2. txs[thread[t].tx].type = txs'[thread[t].tx].type
    BY <1>1, <2>1, TxsMove DEF InHandHonest, Kept
  <2>. QED
    BY <1>1, <2>1, <2>2, StoredByOther DEF AloneAndNew
<1>2. CASE Look(t) /\ ~ Found(t)
  <2>1. thread'[t].tx = thread[t].tx /\ thread'[t].token = thread[t].token /\ UNCHANGED <<txs, rows>>
    BY <1>2 DEF Look, TypeOK, Execution
  <2>2. rows[r].to = txs[thread[t].tx].to
    BY <2>1 DEF RowsHonest
  <2>. QED
    BY <1>2, <2>1, <2>2 DEF Found, TransferType
<1>3. ASSUME Send(t) \/ Sealed(t) \/ SaveTransfer(t) \/ Enable(t) PROVE FALSE
  BY <1>3 DEF Send, Sealed, SaveTransfer, Enable, TypeOK, Execution
<1>4. ASSUME NEW i \in Requests, Withdraw(t, i) PROVE FALSE
  BY <1>4 DEF Withdraw, TypeOK
<1>5. ASSUME NEW k \in DOMAIN txs, NEW n \in 1..txs[k].times, Handle(t, k, n) PROVE FALSE
  BY <1>5 DEF Handle, TypeOK
<1>. QED
  BY <1>1, <1>2, <1>3, <1>4, <1>5, ThreadGoesOn

LEMMA AloneAndNewStep ==
    ASSUME TypeOK, TypeOK', TxsHonest, InHandHonest, RowsHonest, AloneAndNew, [Next]_vars
    PROVE  AloneAndNew'
<1>. SUFFICES ASSUME NEW t \in Threads, thread'[t].pc # "idle", thread'[t].tx \notin raced'
     PROVE  /\ \A u \in Threads : thread'[u].pc # "idle" /\ thread'[u].tx = thread'[t].tx => u = t
            /\ thread'[t].pc \in {"send", "wait", "save"} => \A r \in DOMAIN rows' : rows'[r].tx # thread'[t].tx
            /\ thread'[t].pc = "insert" /\ txs'[thread'[t].tx].type = TransferType(thread'[t].token) =>
                  \A r \in DOMAIN rows' : rows'[r].tx = thread'[t].tx => rows'[r].name # thread'[t].token.name
  BY DEF AloneAndNew, TransferType
<1>. QED
  BY AloneStep, WaitsUnstored, NotFoundUnstored

LEMMA OnceStep ==
    ASSUME TypeOK, TypeOK', TxsHonest, InHandHonest, RowsHonest, AloneAndNew, TokensFromEvents,
           TokensApart, RegisteredOnce, [Next]_vars
    PROVE  RegisteredOnce'
<1>. DEFINE Same(r, q) == rows'[r].tx = rows'[q].tx /\ rows'[r].name = rows'[q].name
<1>1. ASSUME NEW r \in DOMAIN rows', NEW q \in DOMAIN rows', Same(r, q), rows'[r].tx \notin raced', Shown(r)',
             q \in DOMAIN rows
      PROVE  r = q
  <2>1. CASE r \in DOMAIN rows
    BY <1>1, <2>1, RowsStay, RowsMove DEF RegisteredOnce
  <2>2. CASE r \notin DOMAIN rows
    <3>1. PICK t \in Threads : SaveTransfer(t) \/ Insert(t)
      BY <2>2, RowsMove
    <3>2. /\ rows'[r].tx = thread[t].tx /\ rows'[r].name = thread[t].token.name /\ rows'[q] = rows[q]
          /\ thread[t].tx \notin raced /\ thread[t].pc # "idle" /\ UNCHANGED txs /\ thread[t].tx \in DOMAIN txs
      BY <1>1, <2>2, <3>1, RowStored
    <3>3. rows[q].tx = thread[t].tx /\ rows[q].name = thread[t].token.name
      BY <1>1, <3>2
    <3>4. CASE SaveTransfer(t)
      BY <1>1, <3>2, <3>3, <3>4 DEF SaveTransfer, AloneAndNew
    <3>5. CASE Insert(t)
      <4>1. txs[thread[t].tx].type = TransferType(txs[thread[t].tx].contract)
        BY <1>1, <3>2 DEF Shown, TransferType
      <4>2. thread[t].token \in Contracts /\ txs[thread[t].tx].contract \in Contracts
        BY <3>2, Seqs DEF TypeOK, Execution, Tx
      <4>3. thread[t].token.type = txs[thread[t].tx].contract.type
        BY <3>2, <4>2 DEF TokensFromEvents, TokensApart
      <4>4. txs[thread[t].tx].type = TransferType(thread[t].token)
        BY <4>1, <4>3 DEF TransferType
      <4>. QED
        BY <1>1, <3>2, <3>3, <3>5, <4>4 DEF Insert, AloneAndNew
    <3>. QED
      BY <3>1, <3>4, <3>5
  <2>. QED
    BY <2>1, <2>2
<1>2. ASSUME NEW r \in DOMAIN rows', NEW q \in DOMAIN rows', r \notin DOMAIN rows, q \notin DOMAIN rows
      PROVE  r = q
  BY <1>2, RowsMove, RowStored
<1>3. ASSUME NEW r \in DOMAIN rows', NEW q \in DOMAIN rows', Same(r, q), rows'[r].tx \notin raced', Shown(r)'
      PROVE  r = q
  <2>1. Shown(q)'
    BY <1>3 DEF Shown, TransferType
  <2>2. CASE q \in DOMAIN rows
    BY <1>1, <1>3, <2>2
  <2>3. CASE r \in DOMAIN rows
    BY <1>1, <1>3, <2>1, <2>3
  <2>. QED
    BY <1>2, <2>2, <2>3
<1>. QED
  BY <1>3 DEF RegisteredOnce, Shown, TransferType

-----------------------------------------------------------------------------
(* The theorems.                                                           *)

LEMMA TransfersInitInv == Init => TransfersInv
<1>. SUFFICES ASSUME Init PROVE TransfersInv
  OBVIOUS
<1>1. TypeOK
  BY TransfersInitType
<1>2. DOMAIN txs = {} /\ DOMAIN rows = {} /\ handled = {} /\ \A t \in Threads : thread[t].pc = "idle"
  BY IdleThread DEF Init
<1>3. \A i \in Requests : cut[i] = 0 /\ status[i] = "open" /\ Settled(i) = {}
  BY <1>2 DEF Init, Settled
<1>4. SettledAccounted
  BY <1>3, FS_EmptySet DEF SettledAccounted
<1>. QED
  BY <1>1, <1>2, <1>3, <1>4 DEF TransfersInv, TxsHonest, InHandHonest, RowsHonest, ReportsListed, AloneAndNew,
     TokensFromEvents, CompleteIsListed, HandledIsListed, RegisteredOnce, Withdraws

LEMMA TransfersInvStep == TransfersInv /\ [Next]_vars => TransfersInv'
<1>. SUFFICES ASSUME TransfersInv, [Next]_vars PROVE TransfersInv'
  OBVIOUS
<1>1. TypeOK' /\ TxsHonest'
  BY TransfersTypeStep, TxsStep DEF TransfersInv
<1>2. InHandHonest' /\ SettledAccounted'
  BY <1>1, InHandStep, AccountedStep DEF TransfersInv
<1>3. RowsHonest' /\ ReportsListed' /\ AloneAndNew' /\ TokensFromEvents'
  BY <1>1, RowsHonestStep, ReportsStep, AloneAndNewStep, TokensStep DEF TransfersInv
<1>4. CompleteIsListed' /\ HandledIsListed'
  BY <1>1, CompleteStep, HandledStep DEF TransfersInv
<1>5. TokensApart => RegisteredOnce'
  BY <1>1, OnceStep DEF TransfersInv
<1>. QED
  BY <1>1, <1>2, <1>3, <1>4, <1>5 DEF TransfersInv, TokensApart

\* The inductive invariant holds in every state.
THEOREM TransfersInductive == Spec => []TransfersInv
BY TransfersInitInv, TransfersInvStep, PTL DEF Spec

\* Transactions, transfers, accounts, jobs and threads are well typed in every state.
THEOREM TransfersTypeCorrect == Spec => []TypeOK
BY TransfersInductive, PTL DEF TransfersInv

\* The recipient of a withdrawal is paid once, and once more for each execution of it that was
\* cut off after its transaction was sent, however often the job is executed.
THEOREM PaidOnce == Spec => []PaymentsAccounted
<1>1. TransfersInv => PaymentsAccounted
  BY SettledIsPaid DEF TransfersInv
<1>. QED
  BY <1>1, TransfersInductive, PTL

\* A complete withdrawal has paid, and is in the sender's list.
THEOREM CompleteListed == Spec => []CompleteIsListed
BY TransfersInductive, PTL DEF TransfersInv

\* A deposit of a fungible token whose handler had no error is in the list of deposits.
THEOREM HandledListed == Spec => []HandledIsListed
BY TransfersInductive, PTL DEF TransfersInv

\* Without races for its transaction, a transfer is stored once, if no two contracts at one
\* address have names that the look-up mistakes for each other but different types.
THEOREM StoredOnce == ASSUME TokensApart PROVE Spec => []RegisteredOnce
<1>1. TransfersInv => RegisteredOnce
  BY DEF TransfersInv
<1>. QED
  BY <1>1, TransfersInductive, PTL

\* Adding a token changes nothing of what the known names lead to.
THEOREM NamesKept == Spec => AddKeepsNames
<1>. DEFINE Keeps == Len(tokens') > Len(tokens) =>
                       \A n \in Names : GetByName(n) # {} => GetByName(n)' = GetByName(n)
<1>1. TransfersInv /\ [Next]_vars => [Keeps]_vars
  <2>. SUFFICES ASSUME TransfersInv, [Next]_vars PROVE Keeps
    OBVIOUS
  <2>1. ASSUME NEW t \in Added, AddToken(t) PROVE Keeps
    <3>1. \A n : FromTemp(n)' = FromTemp(n)
      BY <2>1 DEF AddToken, FromTemp
    <3>2. \A n : FromDB(n) # {} => FromDB(n)' = FromDB(n)
      BY <2>1, AddedIsLast DEF TransfersInv, TypeOK
    <3>. QED
      BY <3>1, <3>2 DEF GetByName
  <2>2. ASSUME NEW i \in DOMAIN tokens, RemoveToken(i) PROVE Len(tokens') = Len(tokens)
    BY <2>2 DEF RemoveToken, TransfersInv, TypeOK, RegistryTypeOK
  <2>3. \/ UNCHANGED tokens \/ \E t \in Added : AddToken(t)
        \/ \E i \in DOMAIN tokens : RemoveToken(i)
    BY DEF Next, ThreadStep, Withdraw, Send, SendFails, Execute, Sealed, Rejected, SaveTransfer, CutOff, Report,
       Arrive, Handle, HandleFails, Enable, Lose, Look, Insert, EnableToken, Watch, Unwatch, RegistryStep, Crash,
       Restart, Boot, registryVars, vars
  <2>4. Len(tokens) \in Nat
    BY DEF TransfersInv, TypeOK, RegistryTypeOK
  <2>. QED
    BY <2>1, <2>2, <2>3, <2>4
<1>. QED
  BY <1>1, TransfersInductive, PTL DEF Spec, AddKeepsNames
=============================================================================
