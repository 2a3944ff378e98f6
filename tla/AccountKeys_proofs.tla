------------------------- MODULE AccountKeys_proofs -------------------------
(***************************************************************************)
(* Proofs about AccountKeys, for any number of workers, executions, jobs   *)
(* of every kind and faults: the table never runs ahead of the chain, and  *)
(* so no stored index is beyond the list of keys the chain returns; keys   *)
(* are taken in turn; no key is stranded but by a cut; and while jobs run  *)
(* one at a time, table and chain agree between them, unless a sync has    *)
(* added clones while the chain's last key was a revoked one.              *)
(***************************************************************************)
EXTENDS AccountKeys, FiniteSetTheorems, SequenceTheorems, TLAPS

\* What an execution or a transaction x was to do has been done in the list of keys.
Done(keys, x) ==
    /\ x.op = "add" => x.index <= Len(keys) /\ \E i \in 1..Len(keys) : keys[i].pub = x.pub
    /\ x.op = "sync" => x.index + x.count <= Len(keys) + 1
    /\ x.op = "revoke" => x.index \in 1..Len(keys) /\ keys[x.index].revoked

\* What a worker has read and intends: indices no further than the end of the chain's list,
\* a row that exists and has the index to revoke, a public key that is on chain.
Intends(keys, table, e) ==
    /\ e.op \in {"add", "sync"} => e.index \in 1..Len(keys) + 1
    /\ e.op = "sync" => e.count > 0 /\ \E i \in 1..Len(keys) : keys[i].pub = e.pub
    /\ e.op = "revoke" => e.row \in 1..Len(table) /\ e.index = table[e.row].index

InOrder(keys, table, e) ==
    e.pc \notin {"idle", "seen"} =>
        /\ Intends(keys, table, e)
        /\ e.pc # "pick" => e.key \in 1..Len(table)
        /\ e.pc = "save" => e.op # "send" /\ Done(keys, e)

HandsInOrder == \A w \in Workers : InOrder(chain, rows, worker[w])

\* A transaction somebody waits for is the one its worker has sent; once sealed, it is done.
Awaited(t, e) ==
    /\ e.pc = "wait"
    /\ t.op = e.op /\ t.index = e.index /\ t.pub = e.pub /\ t.count = e.count

SentInOrder ==
    \A t \in sent :
        /\ t.signer \in 1..Len(chain)
        /\ t.owner \in Workers =>
             Awaited(t, worker[t.owner]) /\ (t.status = "sealed" => Done(chain, t))
        /\ t.owner \notin Workers => t.status = "pending"

IInv == TypeOK /\ TableFollowsChain /\ HandsInOrder /\ SentInOrder

-----------------------------------------------------------------------------
(* Lists of keys and what the chain does to them.                          *)

\* One list of keys is what another may have become: longer, with the same keys in the
\* old places, and no revocation taken back.
Becomes(a, b) ==
    /\ Len(a) <= Len(b)
    /\ \A i \in 1..Len(a) : b[i].pub = a[i].pub /\ (a[i].revoked => b[i].revoked)

LEMMA SeqOf ==
    ASSUME NEW S, NEW n \in Nat, NEW f \in [1..n -> S]
    PROVE  f \in Seq(S) /\ Len(f) = n
OBVIOUS

LEMMA StaysDone ==
    ASSUME NEW a \in Seq(ChainKey), NEW b \in Seq(ChainKey), Becomes(a, b),
           NEW x, x.index \in Nat, x.count \in Nat, Done(a, x)
    PROVE  Done(b, x)
<1>1. Len(a) \in Nat /\ Len(b) \in Nat /\ Len(a) <= Len(b) /\ 1..Len(a) \subseteq 1..Len(b)
  BY DEF Becomes
<1>. QED
  BY <1>1 DEF Becomes, Done

LEMMA StaysInOrder ==
    ASSUME NEW a \in Seq(ChainKey), NEW b \in Seq(ChainKey), Becomes(a, b),
           NEW table, NEW e \in Execution, InOrder(a, table, e)
    PROVE  InOrder(b, table, e)
<1>1. Len(a) \in Nat /\ Len(b) \in Nat /\ Len(a) <= Len(b) /\ 1..Len(a) \subseteq 1..Len(b)
  BY DEF Becomes
<1>2. e.index \in Nat /\ e.count \in Nat
  BY DEF Execution
<1>3. Intends(a, table, e) => Intends(b, table, e)
  BY <1>1, <1>2 DEF Becomes, Intends
<1>. QED
  BY <1>2, <1>3, StaysDone DEF InOrder

LEMMA NewKeysAre ==
    ASSUME NEW t \in Tx
    PROVE  /\ NewKeys(t) \in Seq(ChainKey)
           /\ \A j \in 1..Len(NewKeys(t)) : NewKeys(t)[j].pub = t.pub /\ ~ NewKeys(t)[j].revoked
           /\ t.op = "add" => Len(NewKeys(t)) = 1
           /\ t.op = "sync" => Len(NewKeys(t)) = t.count
           /\ t.op \notin {"add", "sync"} => Len(NewKeys(t)) = 0
<1> DEFINE n == CASE t.op = "add" -> 1 [] t.op = "sync" -> t.count [] OTHER -> 0
           f == [j \in 1..n |-> [pub |-> t.pub, revoked |-> FALSE, seq |-> 0]]
<1>1. /\ n \in Nat /\ (t.op = "add" => n = 1) /\ (t.op = "sync" => n = t.count)
      /\ t.op \notin {"add", "sync"} => n = 0
  BY DEF Tx
<1>2. f \in [1..n -> ChainKey]
  BY DEF Tx, ChainKey
<1> HIDE DEF n
<1>3. f \in Seq(ChainKey) /\ Len(f) = n
  BY <1>1, <1>2, SeqOf
<1>4. NewKeys(t) = f
  BY DEF NewKeys, n
<1>5. \A j \in 1..n : f[j].pub = t.pub /\ ~ f[j].revoked
  OBVIOUS
<1>. QED
  BY <1>1, <1>3, <1>4, <1>5

\* Every key stays, the one to revoke is revoked, and the new ones come behind.
LEMMA AfterKeys ==
    ASSUME TypeOK, NEW t \in Tx, t.signer \in 1..Len(chain)
    PROVE  /\ After(t) \in Seq(ChainKey)
           /\ Len(After(t)) = Len(chain) + Len(NewKeys(t)) /\ Len(NewKeys(t)) \in Nat
           /\ \A i \in 1..Len(chain) :
                /\ After(t)[i].pub = chain[i].pub
                /\ After(t)[i].revoked <=> chain[i].revoked \/ (t.op = "revoke" /\ i = t.index)
           /\ \A i \in Len(chain) + 1..Len(chain) + Len(NewKeys(t)) :
                After(t)[i].pub = t.pub /\ ~ After(t)[i].revoked
<1> DEFINE old == [i \in 1..Len(chain) |->
               [pub |-> chain[i].pub,
                revoked |-> chain[i].revoked \/ (t.op = "revoke" /\ i = t.index),
                seq |-> chain[i].seq + IF i = t.signer THEN 1 ELSE 0]]
<1>1. chain \in Seq(ChainKey) /\ Len(chain) \in Nat /\ DOMAIN chain = 1..Len(chain)
  BY DEF TypeOK
<1>2. \A i \in 1..Len(chain) : chain[i] \in ChainKey
  BY <1>1, ElementOfSeq
<1>3. \A i \in 1..Len(chain) :
        /\ old[i] \in ChainKey
        /\ old[i].pub = chain[i].pub
        /\ old[i].revoked <=> chain[i].revoked \/ (t.op = "revoke" /\ i = t.index)
  <2>. SUFFICES ASSUME NEW i \in 1..Len(chain)
                PROVE  /\ old[i] \in ChainKey
                       /\ old[i].pub = chain[i].pub
                       /\ old[i].revoked <=> chain[i].revoked \/ (t.op = "revoke" /\ i = t.index)
    OBVIOUS
  <2>1. chain[i].pub \in Pubs /\ chain[i].seq \in Nat
    BY <1>2 DEF ChainKey
  <2>2. old[i].pub = chain[i].pub /\ old[i].seq = chain[i].seq + IF i = t.signer THEN 1 ELSE 0
    OBVIOUS
  <2>3. old[i].revoked = (chain[i].revoked \/ (t.op = "revoke" /\ i = t.index))
    BY Zenon
  <2>4. chain[i].seq + (IF i = t.signer THEN 1 ELSE 0) \in Nat
    BY <2>1
  <2>5. (chain[i].revoked \/ (t.op = "revoke" /\ i = t.index)) \in BOOLEAN
    OBVIOUS
  <2>6. old[i] \in ChainKey
    BY <2>1, <2>4, <2>5, Zenon DEF ChainKey
  <2>. QED
    BY <2>2, <2>3, <2>6, Zenon
<1>4. old \in Seq(ChainKey) /\ Len(old) = Len(chain)
  BY <1>1, <1>3, SeqOf
<1>5. After(t) = old \o NewKeys(t)
  BY <1>1 DEF After
<1> HIDE DEF old
<1>6. /\ After(t) \in Seq(ChainKey)
      /\ Len(After(t)) = Len(chain) + Len(NewKeys(t))
      /\ \A i \in 1..Len(chain) + Len(NewKeys(t)) :
           After(t)[i] = IF i <= Len(chain) THEN old[i] ELSE NewKeys(t)[i - Len(chain)]
  <2> DEFINE new == NewKeys(t)
  <2>1. new \in Seq(ChainKey)
    BY NewKeysAre
  <2> HIDE DEF new
  <2>2. /\ old \o new \in Seq(ChainKey)
        /\ Len(old \o new) = Len(old) + Len(new)
        /\ \A i \in 1..Len(old) + Len(new) :
             (old \o new)[i] = IF i <= Len(old) THEN old[i] ELSE new[i - Len(old)]
    BY <1>4, <2>1, ConcatProperties, Zenon
  <2>3. After(t) = old \o new
    BY <1>5 DEF new
  <2>. QED
    BY <1>4, <2>2, <2>3, Zenon DEF new
<1>7. Len(NewKeys(t)) \in Nat
  BY NewKeysAre
<1>8. \A i \in 1..Len(chain) : After(t)[i] = old[i]
  BY <1>1, <1>6, <1>7
<1>9. ASSUME NEW i \in Len(chain) + 1..Len(chain) + Len(NewKeys(t))
      PROVE  After(t)[i].pub = t.pub /\ ~ After(t)[i].revoked
  <2>1. i - Len(chain) \in 1..Len(NewKeys(t)) /\ After(t)[i] = NewKeys(t)[i - Len(chain)]
    BY <1>1, <1>6, <1>7
  <2>. QED
    BY <2>1, NewKeysAre
<1>. QED
  BY <1>3, <1>6, <1>7, <1>8, <1>9

LEMMA AfterIs ==
    ASSUME TypeOK, NEW t \in Tx, t.signer \in 1..Len(chain)
    PROVE  /\ After(t) \in Seq(ChainKey)
           /\ Becomes(chain, After(t))
           /\ t.op = "add" => /\ Len(After(t)) = Len(chain) + 1
                              /\ After(t)[Len(chain) + 1].pub = t.pub
           /\ t.op = "sync" => Len(After(t)) = Len(chain) + t.count
           /\ t.op = "revoke" /\ t.index \in 1..Len(chain) => After(t)[t.index].revoked
<1>1. Len(chain) \in Nat
  BY DEF TypeOK
<1>2. Becomes(chain, After(t))
  BY <1>1, AfterKeys DEF Becomes
<1>3. t.op = "add" => Len(NewKeys(t)) = 1
  BY NewKeysAre
<1>4. t.op = "sync" => Len(NewKeys(t)) = t.count
  BY NewKeysAre
<1>5. /\ After(t) \in Seq(ChainKey)
      /\ Len(After(t)) = Len(chain) + Len(NewKeys(t))
      /\ \A i \in 1..Len(chain) : t.op = "revoke" /\ i = t.index => After(t)[i].revoked
      /\ \A i \in Len(chain) + 1..Len(chain) + Len(NewKeys(t)) : After(t)[i].pub = t.pub
  BY AfterKeys
<1>6. \A n \in Nat : n = 1 => Len(chain) + 1 \in Len(chain) + 1..Len(chain) + n
  BY <1>1
<1>. QED
  BY <1>2, <1>3, <1>4, <1>5, <1>6

-----------------------------------------------------------------------------
(* Types.                                                                  *)

LEMMA NoExecutionType == NoExecution \in Execution
<1>1. <<>> \in Seq(ChainKey)
  BY EmptySeq
<1>. QED
  BY <1>1, ConstantsOK DEF NoExecution, Execution, Pubs, AllKinds

LEMMA EndedType ==
    ASSUME TypeOK, NEW w \in Workers
    PROVE  Ended(w) \in [Workers -> Execution]
BY NoExecutionType DEF TypeOK, Ended

LEMMA AbandonedType ==
    ASSUME TypeOK, NEW W
    PROVE  Abandoned(W) \subseteq Tx
<1>1. ASSUME NEW u \in sent
      PROVE  [u EXCEPT !.owner = "nobody"] \in Tx
  BY <1>1 DEF TypeOK, Tx
<1>. QED
  BY <1>1 DEF TypeOK, Abandoned

LEMMA AddingFinite ==
    ASSUME NEW W PROVE IsFiniteSet(Adding \cap W) /\ Cardinality(Adding \cap W) \in Nat
<1>1. Adding \cap W \subseteq Workers
  BY DEF Adding
<1>. QED
  BY <1>1, ConstantsOK, FS_Subset, FS_CardinalityType

LEMMA CutOffType ==
    ASSUME TypeOK, NEW W, CutOff(W) PROVE cut' \in Nat
<1>1. PICK n \in Nat : n = Cardinality(Adding \cap W)
  BY AddingFinite
<1>2. cut' = cut + n /\ cut \in Nat
  BY <1>1 DEF TypeOK, CutOff
<1>. QED
  BY <1>2

LEMMA DiesType ==
    ASSUME TypeOK, ProcessDies
    PROVE  /\ chain' \in Seq(ChainKey) /\ rows' \in Seq(Row) /\ clock' \in Nat
           /\ sent' \subseteq Tx /\ worker' \in [Workers -> Execution]
           /\ cut' \in Nat /\ smooth' \in BOOLEAN /\ aligned' \in BOOLEAN
<1>2. sent' \subseteq Tx
  BY AbandonedType DEF ProcessDies
<1>3. worker' \in [Workers -> Execution]
  BY NoExecutionType DEF ProcessDies
<1>4. UNCHANGED <<chain, rows, clock, aligned>> /\ smooth' = FALSE
  BY DEF ProcessDies, CutOff
<1>5. cut' \in Nat
  BY CutOffType DEF ProcessDies
<1>. QED
  BY <1>2, <1>3, <1>4, <1>5, Zenon DEF TypeOK

\* The table after a row has been replaced.
LEMMA RowReplaced ==
    ASSUME TypeOK, NEW r \in DOMAIN rows, NEW e \in Row
    PROVE  /\ [rows EXCEPT ![r] = e] \in Seq(Row)
           /\ Len([rows EXCEPT ![r] = e]) = Len(rows)
           /\ \A i \in 1..Len(rows) : [rows EXCEPT ![r] = e][i] = IF i = r THEN e ELSE rows[i]
<1>1. rows \in Seq(Row) /\ r \in 1..Len(rows)
  BY DEF TypeOK
<1>. QED
  BY <1>1, ExceptSeq

LEMMA RowType ==
    ASSUME TypeOK, NEW r \in DOMAIN rows
    PROVE  /\ rows[r] \in Row
           /\ \A n \in Nat : [rows[r] EXCEPT !.used = n] \in Row
           /\ [rows[r] EXCEPT !.live = FALSE] \in Row
<1>1. rows[r] \in Row
  BY ElementOfSeq DEF TypeOK
<1>. QED
  BY <1>1 DEF Row

\* The rows a worker inserts.
LEMMA NewRowType ==
    ASSUME TypeOK, NEW index \in Nat \ {0}, NEW pub \in Pubs
    PROVE  NewRow(index, pub) \in Row
BY DEF TypeOK, NewRow, Row

LEMMA InsertIs ==
    ASSUME TypeOK, NEW w \in Workers, Intends(chain, rows, worker[w]), InsertKeys(w)
    PROVE  LET e == worker[w]
               n == IF e.op = "add" THEN 1 ELSE e.count IN
           /\ n \in Nat
           /\ rows' \in Seq(Row)
           /\ Len(rows') = Len(rows) + n
           /\ \A i \in 1..Len(rows) : rows'[i] = rows[i]
           /\ \A i \in Len(rows) + 1..Len(rows) + n :
                rows'[i] = NewRow(e.index + (i - Len(rows)) - 1, e.pub)
<1> DEFINE e == worker[w]
<1>1. /\ e.index \in Nat /\ e.pub \in Pubs /\ e.count \in Nat
      /\ rows \in Seq(Row) /\ Len(rows) \in Nat
  BY DEF TypeOK, Execution
<1>2. e.op \in {"add", "sync"} => e.index > 0
  BY <1>1 DEF Intends, TypeOK
<1>3. CASE e.op = "add"
  <2>1. rows' = Append(rows, NewRow(e.index, e.pub))
    BY <1>3 DEF InsertKeys
  <2>2. NewRow(e.index, e.pub) \in Row
    BY <1>1, <1>2, <1>3, NewRowType
  <2>3. /\ rows' \in Seq(Row) /\ Len(rows') = Len(rows) + 1
        /\ \A i \in 1..Len(rows) : rows'[i] = rows[i]
        /\ rows'[Len(rows) + 1] = NewRow(e.index, e.pub)
    BY <1>1, <2>1, <2>2, AppendProperties
  <2>4. \A i \in Len(rows) + 1..Len(rows) + 1 : i = Len(rows) + 1 /\ e.index + (i - Len(rows)) - 1 = e.index
    BY <1>1
  <2>. QED
    BY <1>3, <2>3, <2>4
<1>4. CASE e.op # "add"
  <2> DEFINE new == [j \in 1..e.count |-> NewRow(e.index + j - 1, e.pub)]
  <2>1. e.op = "sync" /\ rows' = rows \o new
    BY <1>4 DEF InsertKeys
  <2>2. \A j \in 1..e.count : NewRow(e.index + j - 1, e.pub) \in Row
    BY <1>1, <1>2, <2>1, NewRowType
  <2>3. new \in Seq(Row) /\ Len(new) = e.count
    BY <1>1, <2>2, SeqOf
  <2>4. \A j \in 1..e.count : new[j] = NewRow(e.index + j - 1, e.pub)
    OBVIOUS
  <2> HIDE DEF new
  <2>5. /\ rows' \in Seq(Row) /\ Len(rows') = Len(rows) + e.count
        /\ \A i \in 1..Len(rows) + e.count :
             rows'[i] = IF i <= Len(rows) THEN rows[i] ELSE new[i - Len(rows)]
    <3>1. /\ rows \o new \in Seq(Row)
          /\ Len(rows \o new) = Len(rows) + Len(new)
          /\ \A i \in 1..Len(rows) + Len(new) :
               (rows \o new)[i] = IF i <= Len(rows) THEN rows[i] ELSE new[i - Len(rows)]
      BY <1>1, <2>3, ConcatProperties, Zenon
    <3>. QED
      BY <2>1, <2>3, <3>1, Zenon
  <2>6. \A i \in 1..Len(rows) : rows'[i] = rows[i]
    BY <1>1, <2>5
  <2>7. \A i \in Len(rows) + 1..Len(rows) + e.count :
          rows'[i] = NewRow(e.index + (i - Len(rows)) - 1, e.pub)
    BY <1>1, <2>4, <2>5
  <2>. QED
    BY <1>1, <1>4, <2>5, <2>6, <2>7
<1>. QED
  BY <1>3, <1>4

LEMMA TypeInit == Init => TypeOK
<1>. SUFFICES ASSUME Init PROVE TypeOK
  OBVIOUS
<1>1. chain \in Seq(ChainKey)
  <2>1. chain \in [1..InitKeys -> ChainKey]
    BY ConstantsOK DEF Init, ChainKey, Pubs
  <2>. QED
    BY <2>1, ConstantsOK, SeqOf
<1>2. rows \in Seq(Row)
  <2>1. rows \in [1..InitKeys -> Row]
    BY ConstantsOK DEF Init, Row, Pubs
  <2>. QED
    BY <2>1, ConstantsOK, SeqOf
<1>. QED
  BY <1>1, <1>2, NoExecutionType, ConstantsOK DEF Init, TypeOK

\* A worker starts over with some fields set.
LEMMA BegunType ==
    ASSUME NEW pc \in {"seen", "pick"}, NEW op \in AllKinds, NEW index \in Nat, NEW pub \in Pubs,
           NEW count \in Nat, NEW row \in Nat, NEW seen \in Seq(ChainKey)
    PROVE  [NoExecution EXCEPT !.pc = pc, !.op = op, !.index = index, !.pub = pub, !.count = count,
                               !.row = row, !.seen = seen] \in Execution
BY NoExecutionType DEF Execution, NoExecution

LEMMA TypeStep == IInv /\ [Next]_vars => TypeOK'
<1>. SUFFICES ASSUME IInv, [Next]_vars PROVE TypeOK'
  OBVIOUS
<1>. TypeOK /\ TableFollowsChain /\ HandsInOrder /\ SentInOrder
  BY DEF IInv
<1>a. /\ chain \in Seq(ChainKey) /\ rows \in Seq(Row) /\ clock \in Nat /\ sent \subseteq Tx
      /\ worker \in [Workers -> Execution] /\ execs \in 0..MaxExec /\ cut \in Nat
      /\ smooth \in BOOLEAN /\ aligned \in BOOLEAN /\ MaxExec \in Nat /\ Len(chain) \in Nat /\ NumKeys \in Nat
  BY ConstantsOK DEF TypeOK
<1>b. \A v \in DOMAIN rows : v \in Nat /\ rows[v] \in Row
  BY <1>a, RowType
<1>1. CASE UNCHANGED vars
  BY <1>1 DEF vars, TypeOK
<1>2. ASSUME NEW w \in Workers, AddRead(w) PROVE TypeOK'
  <2> DEFINE e == [NoExecution EXCEPT !.pc = "pick", !.op = "add", !.index = NextIndex, !.pub = execs + 1]
  <2>1. e \in Execution
    <3>1. NextIndex \in Nat /\ execs + 1 \in Pubs
      BY <1>2, <1>a DEF AddRead, Begin, NextIndex, Pubs
    <3>. QED
      BY <3>1, NoExecutionType DEF Execution, NoExecution, AllKinds
  <2>2. worker' = [worker EXCEPT ![w] = e]
    BY <1>2 DEF AddRead
  <2>3. worker' \in [Workers -> Execution]
    BY <1>a, <2>1, <2>2
  <2>. QED
    BY <1>2, <1>a, <2>3 DEF AddRead, Begin, TypeOK
<1>3. ASSUME NEW w \in Workers, RevokeRead(w) PROVE TypeOK'
  <2>1. PICK r \in Live : worker' = [worker EXCEPT ![w] =
           [NoExecution EXCEPT !.pc = "pick", !.op = "revoke", !.index = rows[r].index, !.row = r]]
    BY <1>3 DEF RevokeRead
  <2>2. r \in Nat /\ rows[r].index \in Nat
    BY <1>b DEF Live, Row
  <2>3. [NoExecution EXCEPT !.pc = "pick", !.op = "revoke", !.index = rows[r].index, !.row = r] \in Execution
    BY <2>2, NoExecutionType DEF Execution, NoExecution, AllKinds
  <2>4. worker' \in [Workers -> Execution]
    BY <1>a, <2>1, <2>3
  <2>. QED
    BY <1>3, <1>a, <2>4 DEF RevokeRead, Begin, TypeOK
<1>4. ASSUME NEW w \in Workers, SyncReadChain(w) PROVE TypeOK'
  <2>1. [NoExecution EXCEPT !.pc = "seen", !.op = "sync", !.seen = chain] \in Execution
    BY <1>a, NoExecutionType DEF Execution, NoExecution, AllKinds
  <2>2. worker' \in [Workers -> Execution]
    BY <1>4, <1>a, <2>1 DEF SyncReadChain
  <2>. QED
    BY <1>4, <1>a, <2>2 DEF SyncReadChain, Begin, TypeOK
<1>5. ASSUME NEW w \in Workers, SyncReadRows(w) PROVE TypeOK'
  <2>1. PICK r \in Live, last \in Live :
          LET valid == Cardinality(Matching(worker[w].seen, rows[r].pub)) IN
          \/ worker' = Ended(w) /\ UNCHANGED aligned
          \/ /\ valid < NumKeys
             /\ worker' = [worker EXCEPT ![w] =
                    [NoExecution EXCEPT !.pc = "pick", !.op = "sync", !.index = rows[last].index + 1,
                                        !.pub = rows[r].pub, !.count = NumKeys - valid]]
             /\ aligned' = (aligned /\ rows[last].index = Len(chain))
    BY <1>5 DEF SyncReadRows
  <2> DEFINE valid == Cardinality(Matching(worker[w].seen, rows[r].pub))
  <2>2. valid \in Nat
    <3>1. worker[w].seen \in Seq(ChainKey)
      BY <1>a DEF Execution
    <3>2. Matching(worker[w].seen, rows[r].pub) \subseteq 1..Len(worker[w].seen)
      BY <3>1 DEF Matching
    <3>3. IsFiniteSet(1..Len(worker[w].seen))
      BY <3>1, FS_Interval
    <3>. QED
      BY <3>2, <3>3, FS_Subset, FS_CardinalityType
  <2> HIDE DEF valid
  <2>3. rows[last].index + 1 \in Nat /\ rows[r].pub \in Pubs
    BY <1>b DEF Live, Row
  <2>4. valid < NumKeys => NumKeys - valid \in Nat
    BY <1>a, <2>2
  <2>5. valid < NumKeys =>
          [NoExecution EXCEPT !.pc = "pick", !.op = "sync", !.index = rows[last].index + 1,
                              !.pub = rows[r].pub, !.count = NumKeys - valid] \in Execution
    BY <2>3, <2>4, NoExecutionType DEF Execution, NoExecution, AllKinds
  <2>6. worker' \in [Workers -> Execution] /\ aligned' \in BOOLEAN
    BY <1>a, <2>1, <2>5, EndedType DEF valid
  <2>. QED
    BY <1>5, <1>a, <2>6 DEF SyncReadRows, TypeOK
<1>6. ASSUME NEW w \in Workers, SendRead(w) PROVE TypeOK'
  <2>1. [NoExecution EXCEPT !.pc = "pick", !.op = "send"] \in Execution
    BY NoExecutionType DEF Execution, NoExecution, AllKinds
  <2>2. worker' \in [Workers -> Execution]
    BY <1>6, <1>a, <2>1 DEF SendRead
  <2>. QED
    BY <1>6, <1>a, <2>2 DEF SendRead, Begin, TypeOK
<1>7. ASSUME NEW w \in Workers, PanicNoKeys(w) PROVE TypeOK'
  BY <1>7, <1>a, DiesType DEF PanicNoKeys, TypeOK
<1>8. ASSUME NEW w \in Workers, PickKey(w) PROVE TypeOK'
  <2>1. PICK r \in Live :
          /\ rows' = [rows EXCEPT ![r].used = clock + 1]
          /\ worker' = [worker EXCEPT ![w].pc = "sign", ![w].key = r, ![w].at = clock + 1]
    BY <1>8 DEF PickKey
  <2>2. rows' = [rows EXCEPT ![r] = [rows[r] EXCEPT !.used = clock + 1]] /\ r \in DOMAIN rows
    BY <2>1 DEF Live
  <2>3. rows' \in Seq(Row)
    <3>1. clock + 1 \in Nat
      BY <1>a
    <3>2. [rows[r] EXCEPT !.used = clock + 1] \in Row
      BY <2>2, <3>1, RowType, Zenon
    <3>. QED
      BY <2>2, <3>2, RowReplaced
  <2>4. r \in Nat /\ clock + 1 \in Nat
    BY <1>a, <1>b, <2>2
  <2>5. worker' \in [Workers -> Execution]
    <3>1. [worker[w] EXCEPT !.pc = "sign", !.key = r, !.at = clock + 1] \in Execution
      BY <1>a, <2>4 DEF Execution
    <3>2. worker' = [worker EXCEPT ![w] = [worker[w] EXCEPT !.pc = "sign", !.key = r, !.at = clock + 1]]
      BY <1>a, <2>1
    <3>. QED
      BY <1>a, <3>1, <3>2
  <2>. QED
    BY <1>8, <1>a, <2>3, <2>5 DEF PickKey, TypeOK
<1>9. ASSUME NEW w \in Workers, Sign(w) PROVE TypeOK'
  <2>1. worker[w].key \in DOMAIN rows
    BY <1>9, <1>a DEF Sign, HandsInOrder, InOrder
  <2>2. rows[worker[w].key].index \in 1..Len(chain)
    BY <1>9, <1>a, <2>1 DEF TableFollowsChain
  <2>3. chain[rows[worker[w].key].index].seq \in Nat
    <3>1. chain[rows[worker[w].key].index] \in ChainKey
      BY <1>a, <2>2, ElementOfSeq
    <3>. QED
      BY <3>1 DEF ChainKey
  <2>4. worker' \in [Workers -> Execution]
    <3> DEFINE e == [worker[w] EXCEPT !.pc = "send", !.seq = chain[rows[worker[w].key].index].seq]
    <3>1. e \in Execution
      BY <1>a, <2>3 DEF Execution
    <3>2. worker' = [worker EXCEPT ![w] = e]
      BY <1>9, <1>a DEF Sign
    <3> HIDE DEF e
    <3>. QED
      BY <1>a, <3>1, <3>2
  <2>. QED
    BY <1>9, <1>a, <2>4 DEF Sign, TypeOK
<1>10. ASSUME NEW w \in Workers, Send(w) PROVE TypeOK'
  <2>1. Transaction(w) \in Tx
    <3>1. worker[w].key \in DOMAIN rows
      BY <1>10, <1>a DEF Send, HandsInOrder, InOrder
    <3>2. rows[worker[w].key] \in Row /\ worker[w] \in Execution
      BY <3>1, <1>a, <1>b
    <3>. QED
      BY <3>2 DEF Transaction, Tx, Row, Execution
  <2>2. worker' \in [Workers -> Execution]
    <3>1. [worker[w] EXCEPT !.pc = "wait"] \in Execution
      BY <1>a DEF Execution
    <3>2. worker' = [worker EXCEPT ![w] = [worker[w] EXCEPT !.pc = "wait"]]
      BY <1>10, <1>a DEF Send
    <3>. QED
      BY <1>a, <3>1, <3>2
  <2>. QED
    BY <1>10, <1>a, <2>1, <2>2 DEF Send, TypeOK
<1>11. ASSUME NEW w \in Workers, Rejected(w) \/ TxFails(w) \/ ResultLost(w) PROVE TypeOK'
  <2>1. CASE Fail(w) /\ UNCHANGED <<chain, rows, clock, execs, aligned>>
             /\ (UNCHANGED <<cut, smooth>> \/ CutOff({w}))
    <3>1. worker' \in [Workers -> Execution] /\ sent' \subseteq Tx
      BY <2>1, EndedType, AbandonedType DEF Fail
    <3>2. cut' \in Nat
      BY <2>1, <1>a, CutOffType
    <3>3. smooth' \in BOOLEAN
      BY <2>1, <1>a, Zenon DEF CutOff
    <3>. QED
      BY <2>1, <1>a, <3>1, <3>2, <3>3, Zenon DEF TypeOK
  <2>2. CASE ProcessDies /\ UNCHANGED execs
    BY <2>2, <1>a, DiesType DEF TypeOK
  <2>. QED
    BY <1>11, <2>1, <2>2 DEF Rejected, TxFails, ResultLost
<1>12. ASSUME NEW w \in Workers, Sealed(w) PROVE TypeOK'
  <2>1. worker' \in [Workers -> Execution]
    <3>1. [worker[w] EXCEPT !.pc = "save"] \in Execution
      BY <1>a DEF Execution
    <3>2. [worker EXCEPT ![w].pc = "save"] = [worker EXCEPT ![w] = [worker[w] EXCEPT !.pc = "save"]]
      BY <1>a
    <3>3. [worker EXCEPT ![w].pc = "save"] \in [Workers -> Execution]
      BY <1>a, <3>1, <3>2
    <3>. QED
      BY <1>12, <3>3, EndedType DEF Sealed
  <2>. QED
    BY <1>12, <1>a, <2>1 DEF Sealed, TypeOK
<1>13. ASSUME NEW w \in Workers, Save(w) PROVE TypeOK'
  <2>1. worker' \in [Workers -> Execution]
    BY <1>13, EndedType DEF Save
  <2>2. Intends(chain, rows, worker[w])
    BY <1>13 DEF Save, HandsInOrder, InOrder
  <2>3. CASE InsertKeys(w)
    BY <1>13, <1>a, <2>1, <2>2, <2>3, InsertIs DEF Save, TypeOK
  <2>4. CASE DeleteKey(w)
    <3>1. worker[w].row \in DOMAIN rows
      BY <2>2, <2>4, <1>a DEF DeleteKey, Intends
    <3>2. rows' = [rows EXCEPT ![worker[w].row] = [rows[worker[w].row] EXCEPT !.live = FALSE]]
      BY <2>4 DEF DeleteKey
    <3>3. rows' \in Seq(Row)
      BY <3>1, <3>2, RowType, RowReplaced
    <3>. QED
      BY <1>13, <1>a, <2>1, <3>3 DEF Save, TypeOK
  <2>. QED
    BY <1>13, <2>3, <2>4 DEF Save
<1>14. ASSUME NEW w \in Workers, SaveFails(w) PROVE TypeOK'
  <2>1. worker' \in [Workers -> Execution]
    BY <1>14, EndedType DEF SaveFails
  <2>2. cut' \in Nat /\ smooth' = FALSE
    BY <1>14, <1>a, CutOffType DEF SaveFails, CutOff
  <2>. QED
    BY <1>14, <1>a, <2>1, <2>2, Zenon DEF SaveFails, TypeOK
<1>15. CASE Crash
  BY <1>15, <1>a, DiesType DEF Crash, TypeOK
<1>16. CASE Waits
  BY <1>16 DEF Waits, vars, TypeOK
<1>17. ASSUME NEW t \in sent, Execute(t) \/ Expire(t) PROVE TypeOK'
  <2>1. t \in Tx /\ t.signer \in 1..Len(chain)
    BY <1>a DEF SentInOrder
  <2>2. Settled(t, "sealed") \subseteq Tx /\ Settled(t, "failed") \subseteq Tx
    BY <1>a, <2>1 DEF Settled, Tx
  <2>3. After(t) \in Seq(ChainKey)
    BY <2>1, AfterIs
  <2>. QED
    BY <1>17, <1>a, <2>2, <2>3 DEF Execute, Expire, TypeOK
<1>. QED
  BY <1>1, <1>2, <1>3, <1>4, <1>5, <1>6, <1>7, <1>8, <1>9, <1>10, <1>11, <1>12, <1>13, <1>14, <1>15,
     <1>16, <1>17 DEF Next

-----------------------------------------------------------------------------
(* The inductive invariant.                                                *)

LEMMA InitInv == Init => IInv
<1>. SUFFICES ASSUME Init PROVE IInv
  OBVIOUS
<1>1. TypeOK
  BY TypeInit
<1>2. DOMAIN chain = 1..InitKeys /\ DOMAIN rows = 1..InitKeys
  BY DEF Init
<1>3. TableFollowsChain
  BY <1>2 DEF Init, TableFollowsChain
<1>4. HandsInOrder /\ SentInOrder
  BY DEF Init, HandsInOrder, InOrder, NoExecution, SentInOrder
<1>. QED
  BY <1>1, <1>3, <1>4 DEF IInv

\* One worker goes on, the chain and the table stay.
LEMMA HandsUpdate ==
    ASSUME TypeOK, HandsInOrder, NEW w \in Workers, NEW e, InOrder(chain, rows, e),
           UNCHANGED <<chain, rows>>, worker' = [worker EXCEPT ![w] = e]
    PROVE  HandsInOrder'
BY DEF TypeOK, HandsInOrder

\* A worker that waits for no transaction goes on.
LEMMA SentUpdate ==
    ASSUME TypeOK, SentInOrder, NEW w \in Workers, NEW e, worker[w].pc # "wait",
           UNCHANGED <<chain, sent>>, worker' = [worker EXCEPT ![w] = e]
    PROVE  SentInOrder'
BY DEF TypeOK, SentInOrder, Awaited

\* Some workers stop, and what they sent is abandoned.
LEMMA Stopped ==
    ASSUME TypeOK, HandsInOrder, SentInOrder, NEW W \in SUBSET Workers,
           UNCHANGED <<chain, rows>>, sent' = Abandoned(W),
           worker' = [v \in Workers |-> IF v \in W THEN NoExecution ELSE worker[v]]
    PROVE  HandsInOrder' /\ SentInOrder'
<1>1. HandsInOrder'
  BY DEF HandsInOrder, InOrder, NoExecution
<1>2. SentInOrder'
  <2>. SUFFICES ASSUME NEW t \in sent'
                PROVE  /\ t.signer \in 1..Len(chain)
                       /\ t.owner \in Workers =>
                            Awaited(t, worker'[t.owner]) /\ (t.status = "sealed" => Done(chain, t))
                       /\ t.owner \notin Workers => t.status = "pending"
    BY DEF SentInOrder
  <2>1. CASE t \in sent /\ t.owner \notin W
    BY <2>1 DEF SentInOrder
  <2>2. CASE \E u \in sent : u.status = "pending" /\ t = [u EXCEPT !.owner = "nobody"]
    <3>1. PICK u \in sent : u.status = "pending" /\ t = [u EXCEPT !.owner = "nobody"]
      BY <2>2
    <3>2. u \in Tx
      BY DEF TypeOK
    <3>3. t.owner = "nobody" /\ t.status = u.status /\ t.signer = u.signer
      BY <3>1, <3>2 DEF Tx
    <3>. QED
      BY <3>1, <3>3, ConstantsOK DEF SentInOrder
  <2>. QED
    BY <2>1, <2>2 DEF Abandoned
<1>. QED
  BY <1>1, <1>2

LEMMA DiesStep ==
    ASSUME TypeOK, TableFollowsChain, HandsInOrder, SentInOrder, ProcessDies
    PROVE  TableFollowsChain' /\ HandsInOrder' /\ SentInOrder'
<1>1. TableFollowsChain'
  BY DEF ProcessDies, TableFollowsChain
<1>2. worker' = [v \in Workers |-> IF v \in Workers THEN NoExecution ELSE worker[v]]
  BY DEF ProcessDies
<1>. QED
  BY <1>1, <1>2, Stopped DEF ProcessDies

LEMMA FailStep ==
    ASSUME TypeOK, HandsInOrder, SentInOrder, NEW w \in Workers, Fail(w), UNCHANGED <<chain, rows>>
    PROVE  HandsInOrder' /\ SentInOrder'
<1>1. worker' = [v \in Workers |-> IF v \in {w} THEN NoExecution ELSE worker[v]]
  BY DEF Fail, Ended, TypeOK
<1>. QED
  BY <1>1, Stopped DEF Fail

\* The table keeps the indices of its rows.
LEMMA StaysInTable ==
    ASSUME NEW keys, NEW a \in Seq(Row), NEW b \in Seq(Row), Len(a) <= Len(b),
           \A i \in 1..Len(a) : b[i].index = a[i].index,
           NEW e, InOrder(keys, a, e)
    PROVE  InOrder(keys, b, e)
<1>1. 1..Len(a) \subseteq 1..Len(b)
  OBVIOUS
<1>2. Intends(keys, a, e) => Intends(keys, b, e)
  BY <1>1 DEF Intends
<1>. QED
  BY <1>1, <1>2 DEF InOrder

\* A worker begins or goes on with another execution record, and sends nothing.
LEMMA GoesOn ==
    ASSUME TypeOK, TableFollowsChain, HandsInOrder, SentInOrder, NEW w \in Workers, NEW e,
           worker[w].pc # "wait", InOrder(chain, rows, e),
           UNCHANGED <<chain, rows, sent>>, worker' = [worker EXCEPT ![w] = e]
    PROVE  TableFollowsChain' /\ HandsInOrder' /\ SentInOrder'
<1>1. TableFollowsChain'
  BY DEF TableFollowsChain
<1>. QED
  BY <1>1, HandsUpdate, SentUpdate

LEMMA ReadStep ==
    ASSUME IInv, NEW w \in Workers,
           AddRead(w) \/ RevokeRead(w) \/ SyncReadChain(w) \/ SyncReadRows(w) \/ SendRead(w)
    PROVE  TableFollowsChain' /\ HandsInOrder' /\ SentInOrder'
<1>. TypeOK /\ TableFollowsChain /\ HandsInOrder /\ SentInOrder
  BY DEF IInv
<1>a. /\ chain \in Seq(ChainKey) /\ Len(chain) \in Nat /\ DOMAIN chain = 1..Len(chain)
      /\ rows \in Seq(Row) /\ Len(rows) \in Nat /\ DOMAIN rows = 1..Len(rows)
      /\ NumKeys \in Nat
  BY ConstantsOK DEF TypeOK
<1>1. CASE AddRead(w)
  <2> DEFINE e == [NoExecution EXCEPT !.pc = "pick", !.op = "add", !.index = NextIndex, !.pub = execs + 1]
  <2>1. InOrder(chain, rows, e)
    BY <1>a DEF InOrder, Intends, NoExecution, NextIndex
  <2>. QED
    BY <1>1, <2>1, GoesOn DEF AddRead, Begin
<1>2. CASE RevokeRead(w)
  <2>1. PICK r \in Live : worker' = [worker EXCEPT ![w] =
           [NoExecution EXCEPT !.pc = "pick", !.op = "revoke", !.index = rows[r].index, !.row = r]]
    BY <1>2 DEF RevokeRead
  <2> DEFINE e == [NoExecution EXCEPT !.pc = "pick", !.op = "revoke", !.index = rows[r].index, !.row = r]
  <2>2. InOrder(chain, rows, e)
    BY <1>a DEF InOrder, Intends, NoExecution, Live
  <2>. QED
    BY <1>2, <2>1, <2>2, GoesOn DEF RevokeRead, Begin
<1>3. CASE SyncReadChain(w)
  <2> DEFINE e == [NoExecution EXCEPT !.pc = "seen", !.op = "sync", !.seen = chain]
  <2>1. InOrder(chain, rows, e)
    BY DEF InOrder, NoExecution
  <2>. QED
    BY <1>3, <2>1, GoesOn DEF SyncReadChain, Begin
<1>4. CASE SyncReadRows(w)
  <2>1. PICK r \in Live, last \in Live :
          LET valid == Cardinality(Matching(worker[w].seen, rows[r].pub)) IN
          \/ worker' = Ended(w)
          \/ /\ valid < NumKeys
             /\ worker' = [worker EXCEPT ![w] =
                    [NoExecution EXCEPT !.pc = "pick", !.op = "sync", !.index = rows[last].index + 1,
                                        !.pub = rows[r].pub, !.count = NumKeys - valid]]
    BY <1>4 DEF SyncReadRows
  <2> DEFINE valid == Cardinality(Matching(worker[w].seen, rows[r].pub))
             e == [NoExecution EXCEPT !.pc = "pick", !.op = "sync", !.index = rows[last].index + 1,
                                      !.pub = rows[r].pub, !.count = NumKeys - valid]
  <2>2. CASE worker' = Ended(w)
    <3>1. InOrder(chain, rows, NoExecution)
      BY DEF InOrder, NoExecution
    <3>. QED
      BY <1>4, <2>2, <3>1, GoesOn DEF SyncReadRows, Ended
  <2>3. CASE valid < NumKeys /\ worker' = [worker EXCEPT ![w] = e]
    <3>1. worker[w].seen \in Seq(ChainKey)
      BY DEF TypeOK, Execution
    <3>2. valid \in Nat
      <4>1. Matching(worker[w].seen, rows[r].pub) \subseteq 1..Len(worker[w].seen)
        BY <3>1 DEF Matching
      <4>2. IsFiniteSet(1..Len(worker[w].seen))
        BY <3>1, FS_Interval
      <4>. QED
        BY <4>1, <4>2, FS_Subset, FS_CardinalityType
    <3>3. rows[last].index \in 1..Len(chain) /\ \E i \in 1..Len(chain) : chain[i].pub = rows[r].pub
      BY <1>a DEF TableFollowsChain, Live
    <3> HIDE DEF valid
    <3>4. NumKeys - valid > 0 /\ rows[last].index + 1 \in 1..Len(chain) + 1
      BY <1>a, <2>3, <3>2, <3>3
    <3>5. InOrder(chain, rows, e)
      BY <3>3, <3>4 DEF InOrder, Intends, NoExecution
    <3>6. worker[w].pc # "wait" /\ UNCHANGED <<chain, rows, sent>>
      BY <1>4 DEF SyncReadRows
    <3>. QED
      BY <2>3, <3>5, <3>6, GoesOn
  <2>. QED
    BY <2>1, <2>2, <2>3
<1>5. CASE SendRead(w)
  <2> DEFINE e == [NoExecution EXCEPT !.pc = "pick", !.op = "send"]
  <2>1. InOrder(chain, rows, e)
    BY DEF InOrder, Intends, NoExecution
  <2>. QED
    BY <1>5, <2>1, GoesOn DEF SendRead, Begin
<1>. QED
  BY <1>1, <1>2, <1>3, <1>4, <1>5

LEMMA PickStep ==
    ASSUME IInv, NEW w \in Workers, PickKey(w)
    PROVE  TableFollowsChain' /\ HandsInOrder' /\ SentInOrder'
<1>. TypeOK /\ TableFollowsChain /\ HandsInOrder /\ SentInOrder
  BY DEF IInv
<1>1. PICK r \in Live :
        /\ rows' = [rows EXCEPT ![r].used = clock + 1]
        /\ worker' = [worker EXCEPT ![w].pc = "sign", ![w].key = r, ![w].at = clock + 1]
  BY DEF PickKey
<1>2. /\ rows \in Seq(Row) /\ Len(rows) \in Nat /\ DOMAIN rows = 1..Len(rows) /\ r \in 1..Len(rows)
      /\ \A i \in 1..Len(rows) : rows[i] \in Row
  BY ElementOfSeq DEF TypeOK, Live
<1>3. /\ DOMAIN rows' = DOMAIN rows
      /\ \A i \in 1..Len(rows) :
           rows'[i].index = rows[i].index /\ rows'[i].pub = rows[i].pub /\ rows'[i].live = rows[i].live
  BY <1>1, <1>2 DEF Row
<1>4. Len(rows') = Len(rows) /\ rows' \in Seq(Row)
  <2>1. clock + 1 \in Nat
    BY DEF TypeOK
  <2>2. [rows[r] EXCEPT !.used = clock + 1] \in Row
    BY <1>2, <2>1, RowType, Zenon
  <2>. QED
    BY <1>1, <1>2, <2>2, RowReplaced
<1>5. TableFollowsChain'
  BY <1>2, <1>3 DEF PickKey, TableFollowsChain
<1>6. HandsInOrder'
  <2>. SUFFICES ASSUME NEW v \in Workers PROVE InOrder(chain, rows', worker'[v])
    BY DEF HandsInOrder, PickKey
  <2>1. InOrder(chain, rows', worker[v])
    BY <1>2, <1>3, <1>4, StaysInTable DEF HandsInOrder
  <2>2. CASE v = w
    <3>1. worker[w] \in Execution /\ worker[w].pc = "pick"
      BY DEF TypeOK, PickKey
    <3>2. worker'[w] = [worker[w] EXCEPT !.pc = "sign", !.key = r, !.at = clock + 1]
      BY <1>1 DEF TypeOK
    <3>3. Intends(chain, rows', worker[w])
      BY <2>1, <2>2, <3>1 DEF InOrder
    <3>4. Intends(chain, rows', worker'[w])
      BY <3>1, <3>2, <3>3 DEF Intends, Execution
    <3>5. worker'[w].pc = "sign" /\ worker'[w].key = r
      BY <3>1, <3>2 DEF Execution
    <3>. QED
      BY <1>2, <1>4, <2>2, <3>4, <3>5 DEF InOrder
  <2>3. CASE v # w
    BY <1>1, <2>1, <2>3 DEF TypeOK
  <2>. QED
    BY <2>2, <2>3
<1>7. SentInOrder'
  <2>1. worker' = [worker EXCEPT ![w] = [worker[w] EXCEPT !.pc = "sign", !.key = r, !.at = clock + 1]]
    BY <1>1 DEF TypeOK
  <2>. QED
    BY <2>1, SentUpdate DEF PickKey
<1>. QED
  BY <1>5, <1>6, <1>7

LEMMA SignStep ==
    ASSUME IInv, NEW w \in Workers, Sign(w)
    PROVE  TableFollowsChain' /\ HandsInOrder' /\ SentInOrder'
<1>. TypeOK /\ TableFollowsChain /\ HandsInOrder /\ SentInOrder
  BY DEF IInv
<1> DEFINE n == chain[rows[worker[w].key].index].seq
           e == [worker[w] EXCEPT !.pc = "send", !.seq = n]
<1>1. worker' = [worker EXCEPT ![w] = e]
  BY DEF Sign, TypeOK
<1>2. worker[w] \in Execution /\ worker[w].pc = "sign" /\ InOrder(chain, rows, worker[w])
  BY DEF Sign, TypeOK, HandsInOrder
<1>3. InOrder(chain, rows, e)
  BY <1>2 DEF InOrder, Intends, Execution
<1>. QED
  BY <1>1, <1>2, <1>3, GoesOn DEF Sign

LEMMA SendStep ==
    ASSUME IInv, NEW w \in Workers, Send(w)
    PROVE  TableFollowsChain' /\ HandsInOrder' /\ SentInOrder'
<1>. TypeOK /\ TableFollowsChain /\ HandsInOrder /\ SentInOrder
  BY DEF IInv
<1> DEFINE e == [worker[w] EXCEPT !.pc = "wait"]
<1>1. worker' = [worker EXCEPT ![w] = e] /\ UNCHANGED <<chain, rows>>
  BY DEF Send, TypeOK
<1>2. worker[w] \in Execution /\ worker[w].pc = "send" /\ InOrder(chain, rows, worker[w])
  BY DEF Send, TypeOK, HandsInOrder
<1>3. InOrder(chain, rows, e)
  BY <1>2 DEF InOrder, Intends, Execution
<1>4. TableFollowsChain' /\ HandsInOrder'
  BY <1>1, <1>3, HandsUpdate DEF TableFollowsChain
<1>5. ASSUME NEW t \in sent'
      PROVE  /\ t.signer \in 1..Len(chain)
             /\ t.owner \in Workers =>
                  Awaited(t, worker'[t.owner]) /\ (t.status = "sealed" => Done(chain, t))
             /\ t.owner \notin Workers => t.status = "pending"
  <2>1. CASE t \in sent
    BY <1>1, <1>2, <2>1 DEF SentInOrder, Awaited, TypeOK
  <2>2. CASE t = Transaction(w)
    <3>1. worker[w].key \in DOMAIN rows
      BY <1>2 DEF InOrder, TypeOK
    <3>2. t.signer \in 1..Len(chain)
      BY <2>2, <3>1 DEF Transaction, TableFollowsChain, TypeOK
    <3>3. t.owner = w /\ t.status = "pending" /\ Awaited(t, e)
      BY <1>2, <2>2 DEF Transaction, Awaited, Execution
    <3>4. worker'[w] = e
      BY <1>1 DEF TypeOK
    <3>. QED
      BY <3>2, <3>3, <3>4
  <2>. QED
    BY <2>1, <2>2 DEF Send
<1>6. SentInOrder'
  BY <1>1, <1>5 DEF SentInOrder
<1>. QED
  BY <1>4, <1>6

LEMMA SealedStep ==
    ASSUME IInv, NEW w \in Workers, Sealed(w)
    PROVE  TableFollowsChain' /\ HandsInOrder' /\ SentInOrder'
<1>. TypeOK /\ TableFollowsChain /\ HandsInOrder /\ SentInOrder
  BY DEF IInv
<1> DEFINE e == IF worker[w].op = "send" THEN NoExecution ELSE [worker[w] EXCEPT !.pc = "save"]
<1>1. worker' = [worker EXCEPT ![w] = e] /\ UNCHANGED <<chain, rows>>
  BY DEF Sealed, TypeOK, Ended
<1>2. worker[w] \in Execution /\ InOrder(chain, rows, worker[w])
  BY DEF TypeOK, HandsInOrder
<1>3. PICK t \in sent : t.owner = w /\ t.status = "sealed"
  BY DEF Sealed
<1>4. Awaited(t, worker[w]) /\ Done(chain, t)
  BY <1>3 DEF SentInOrder
<1>5. Done(chain, worker[w])
  BY <1>4 DEF Awaited, Done
<1>6. InOrder(chain, rows, e)
  <2>1. CASE worker[w].op = "send"
    BY <2>1 DEF InOrder, NoExecution
  <2>2. CASE worker[w].op # "send"
    <3>1. Intends(chain, rows, worker[w]) /\ worker[w].key \in 1..Len(rows)
      BY <1>2, <1>4 DEF InOrder, Awaited
    <3>. QED
      BY <1>2, <1>5, <2>2, <3>1 DEF InOrder, Intends, Done, Execution
  <2>. QED
    BY <2>1, <2>2
<1>7. TableFollowsChain' /\ HandsInOrder'
  BY <1>1, <1>6, HandsUpdate DEF TableFollowsChain
<1>8. SentInOrder'
  BY <1>1 DEF Sealed, SentInOrder, TypeOK
<1>. QED
  BY <1>7, <1>8

\* The j-th stored key of an execution is a key of the chain.
LEMMA StoredIndex ==
    ASSUME NEW stored \in Nat, NEW added \in Nat, NEW first \in Nat \ {0}, NEW last \in Nat,
           first + added <= last + 1, NEW i \in stored + 1..stored + added
    PROVE  first + (i - stored) - 1 \in 1..last
OBVIOUS

\* A row is stored or deleted only for what the chain has done.
LEMMA SaveStep ==
    ASSUME IInv, NEW w \in Workers, Save(w)
    PROVE  TableFollowsChain' /\ HandsInOrder' /\ SentInOrder'
<1>. TypeOK /\ TableFollowsChain /\ HandsInOrder /\ SentInOrder
  BY DEF IInv
<1> DEFINE e == worker[w]
<1>1. /\ e \in Execution /\ e.pc = "save" /\ Intends(chain, rows, e) /\ Done(chain, e)
      /\ chain \in Seq(ChainKey) /\ Len(chain) \in Nat /\ DOMAIN chain = 1..Len(chain)
      /\ rows \in Seq(Row) /\ Len(rows) \in Nat /\ DOMAIN rows = 1..Len(rows)
  BY DEF Save, TypeOK, HandsInOrder, InOrder
<1>2. UNCHANGED <<chain, sent>> /\ worker' = [worker EXCEPT ![w] = NoExecution]
  BY DEF Save, Ended
<1>3. /\ TableFollowsChain'
      /\ rows' \in Seq(Row) /\ Len(rows) <= Len(rows')
      /\ \A i \in 1..Len(rows) : rows'[i].index = rows[i].index
  <2>1. CASE InsertKeys(w)
    <3> DEFINE n == IF e.op = "add" THEN 1 ELSE e.count
    <3>1. /\ n \in Nat /\ rows' \in Seq(Row) /\ Len(rows') = Len(rows) + n
          /\ \A i \in 1..Len(rows) : rows'[i] = rows[i]
          /\ \A i \in Len(rows) + 1..Len(rows) + n :
               rows'[i] = NewRow(e.index + (i - Len(rows)) - 1, e.pub)
      BY <1>1, <2>1, InsertIs, Zenon
    <3>2. /\ e.op \in {"add", "sync"} /\ e.index \in Nat \ {0} /\ e.count \in Nat
          /\ e.index + n <= Len(chain) + 1
          /\ \E i \in 1..Len(chain) : chain[i].pub = e.pub
      BY <1>1, <2>1 DEF InsertKeys, Intends, Done, Execution
    <3> HIDE DEF n, e
    <3>3. ASSUME NEW i \in Len(rows) + 1..Len(rows) + n
          PROVE  /\ rows'[i].live /\ rows'[i].pub = e.pub
                 /\ rows'[i].index \in 1..Len(chain)
      <4>1. e.index + (i - Len(rows)) - 1 \in 1..Len(chain)
        <5>1. Len(rows) \in Nat /\ Len(chain) \in Nat /\ n \in Nat
          BY <1>1, <3>1
        <5>2. e.index \in Nat \ {0} /\ e.index + n <= Len(chain) + 1
          BY <3>2
        <5>. QED
          BY <5>1, <5>2, StoredIndex
      <4>2. rows'[i] = NewRow(e.index + (i - Len(rows)) - 1, e.pub)
        BY <3>1
      <4>3. rows'[i].live = TRUE /\ rows'[i].pub = e.pub /\ rows'[i].index = e.index + (i - Len(rows)) - 1
        BY <4>2 DEF NewRow
      <4>. QED
        BY <4>1, <4>3
    <3>4. DOMAIN rows' = 1..Len(rows) + n
      BY <1>1, <3>1
    <3>5. TableFollowsChain'
      <4>. SUFFICES ASSUME NEW i \in 1..Len(rows) + n
                    PROVE  /\ \E k \in DOMAIN chain : chain[k].pub = rows'[i].pub
                           /\ rows'[i].index \in DOMAIN chain
                           /\ ~rows'[i].live => chain[rows'[i].index].revoked
        BY <1>2, <3>4 DEF TableFollowsChain
      <4>1. CASE i \in 1..Len(rows)
        BY <1>1, <3>1, <4>1 DEF TableFollowsChain
      <4>2. CASE i \in Len(rows) + 1..Len(rows) + n
        BY <1>1, <3>2, <3>3, <4>2
      <4>. QED
        BY <1>1, <3>1, <4>1, <4>2
    <3>. QED
      BY <1>1, <3>1, <3>5
  <2>2. CASE DeleteKey(w)
    <3>1. /\ e.row \in 1..Len(rows) /\ chain[rows[e.row].index].revoked
          /\ rows' = [rows EXCEPT ![e.row].live = FALSE]
      BY <1>1, <2>2 DEF DeleteKey, Intends, Done
    <3>2. \A i \in 1..Len(rows) : rows[i] \in Row
      BY <1>1, ElementOfSeq
    <3>3. \A i \in 1..Len(rows) :
            /\ rows'[i].index = rows[i].index /\ rows'[i].pub = rows[i].pub
            /\ i # e.row => rows'[i].live = rows[i].live
      BY <1>1, <3>1, <3>2 DEF Row
    <3>4. rows' \in Seq(Row) /\ Len(rows') = Len(rows) /\ DOMAIN rows' = DOMAIN rows
      <4>1. [rows[e.row] EXCEPT !.live = FALSE] \in Row
        BY <1>1, <3>1, RowType, Zenon
      <4>. QED
        BY <1>1, <3>1, <4>1, RowReplaced
    <3>5. TableFollowsChain'
      <4>. SUFFICES ASSUME NEW i \in 1..Len(rows)
                    PROVE  /\ \E k \in DOMAIN chain : chain[k].pub = rows'[i].pub
                           /\ rows'[i].index \in DOMAIN chain
                           /\ ~rows'[i].live => chain[rows'[i].index].revoked
        BY <1>1, <1>2, <3>4, Zenon DEF TableFollowsChain
      <4>1. /\ \E k \in DOMAIN chain : chain[k].pub = rows[i].pub
            /\ rows[i].index \in DOMAIN chain
            /\ ~rows[i].live => chain[rows[i].index].revoked
        BY <1>1, Zenon DEF TableFollowsChain
      <4>. QED
        BY <3>1, <3>3, <4>1, Zenon
    <3>. QED
      BY <1>1, <3>3, <3>4, <3>5
  <2>. QED
    BY <2>1, <2>2 DEF Save
<1>4. HandsInOrder'
  <2>. SUFFICES ASSUME NEW v \in Workers PROVE InOrder(chain, rows', worker'[v])
    BY <1>2 DEF HandsInOrder
  <2>1. CASE v = w
    BY <1>2, <2>1 DEF TypeOK, InOrder, NoExecution
  <2>2. CASE v # w
    BY <1>1, <1>2, <1>3, <2>2, StaysInTable DEF TypeOK, HandsInOrder
  <2>. QED
    BY <2>1, <2>2
<1>5. SentInOrder'
  BY <1>1, <1>2, SentUpdate
<1>. QED
  BY <1>3, <1>4, <1>5

\* The chain executes a transaction: its list of keys grows, and what the transaction was for is done.
LEMMA ExecuteStep ==
    ASSUME IInv, NEW t \in sent, Execute(t) \/ Expire(t)
    PROVE  TableFollowsChain' /\ HandsInOrder' /\ SentInOrder'
<1>. TypeOK /\ TableFollowsChain /\ HandsInOrder /\ SentInOrder
  BY DEF IInv
<1>1. /\ UNCHANGED <<rows, worker>> /\ t \in Tx /\ t.signer \in 1..Len(chain) /\ t.status = "pending"
      /\ chain \in Seq(ChainKey) /\ Len(chain) \in Nat /\ DOMAIN chain = 1..Len(chain)
      /\ \A u \in sent : u \in Tx
      /\ \A w \in Workers : worker[w] \in Execution
  BY DEF Execute, Expire, TypeOK, SentInOrder
<1>2. /\ chain' \in Seq(ChainKey) /\ Becomes(chain, chain')
      /\ \/ sent' = Settled(t, "sealed") /\ chain' = After(t)
         \/ sent' = Settled(t, "failed")
  <2>1. Becomes(chain, chain)
    BY <1>1 DEF Becomes
  <2>. QED
    BY <1>1, <2>1, AfterIs DEF Execute, Expire
<1>3. 1..Len(chain) \subseteq 1..Len(chain') /\ DOMAIN chain' = 1..Len(chain')
  BY <1>1, <1>2 DEF Becomes
<1>4. TableFollowsChain'
  BY <1>1, <1>2, <1>3 DEF TableFollowsChain, Becomes
<1>5. HandsInOrder'
  BY <1>1, <1>2, StaysInOrder DEF HandsInOrder
<1>6. ASSUME t.owner \in Workers, chain' = After(t)
      PROVE  Done(chain', t)
  <2> DEFINE e == worker[t.owner]
  <2>1. Awaited(t, e) /\ Intends(chain, rows, e) /\ e.row \in Nat
    BY <1>1, <1>6 DEF SentInOrder, HandsInOrder, InOrder, Awaited, Execution
  <2>2. CASE t.op = "add"
    <3>1. t.index \in 1..Len(chain) + 1
      BY <2>1, <2>2 DEF Awaited, Intends
    <3>2. Len(chain') = Len(chain) + 1 /\ chain'[Len(chain) + 1].pub = t.pub
      BY <1>1, <1>6, <2>2, AfterIs
    <3>. QED
      BY <1>1, <2>2, <3>1, <3>2 DEF Done
  <2>3. CASE t.op = "sync"
    <3>1. t.index \in 1..Len(chain) + 1 /\ t.count \in Nat
      BY <1>1, <2>1, <2>3 DEF Awaited, Intends, Tx
    <3>2. Len(chain') = Len(chain) + t.count
      BY <1>1, <1>6, <2>3, AfterIs
    <3>. QED
      BY <1>1, <2>3, <3>1, <3>2 DEF Done
  <2>4. CASE t.op = "revoke"
    <3>1. t.index \in 1..Len(chain)
      BY <1>1, <2>1, <2>4 DEF Awaited, Intends, TableFollowsChain, TypeOK
    <3>2. chain'[t.index].revoked
      BY <1>1, <1>6, <2>4, <3>1, AfterIs
    <3>. QED
      BY <1>3, <2>4, <3>1, <3>2 DEF Done
  <2>. QED
    BY <2>2, <2>3, <2>4 DEF Done
<1>7. ASSUME NEW u \in sent'
      PROVE  /\ u.signer \in 1..Len(chain')
             /\ u.owner \in Workers =>
                  Awaited(u, worker[u.owner]) /\ (u.status = "sealed" => Done(chain', u))
             /\ u.owner \notin Workers => u.status = "pending"
  <2>1. CASE u \in sent
    <3>1. u.index \in Nat /\ u.count \in Nat
      BY <1>1, <2>1 DEF Tx
    <3>2. Done(chain, u) => Done(chain', u)
      BY <1>1, <1>2, <3>1, StaysDone
    <3>. QED
      BY <1>3, <2>1, <3>2 DEF SentInOrder
  <2>2. ASSUME NEW status \in {"sealed", "failed"}, t.owner # "nobody",
               u = [t EXCEPT !.status = status], status = "sealed" => chain' = After(t)
        PROVE  /\ u.signer \in 1..Len(chain')
               /\ u.owner \in Workers
               /\ Awaited(u, worker[u.owner]) /\ (u.status = "sealed" => Done(chain', u))
    <3>1. /\ u.owner = t.owner /\ u.signer = t.signer /\ u.status = status /\ u.op = t.op
          /\ u.index = t.index /\ u.pub = t.pub /\ u.count = t.count
      BY <1>1, <2>2 DEF Tx
    <3>2. t.owner \in Workers
      BY <1>1, <2>2 DEF Tx
    <3>3. Awaited(u, worker[u.owner])
      BY <3>1, <3>2 DEF SentInOrder, Awaited
    <3>4. status = "sealed" => Done(chain', t)
      BY <1>6, <2>2, <3>2
    <3>5. Done(chain', t) => Done(chain', u)
      BY <3>1 DEF Done
    <3>. QED
      BY <1>1, <1>3, <3>1, <3>2, <3>3, <3>4, <3>5
  <2>. QED
    BY <1>2, <2>1, <2>2 DEF Settled
<1>8. SentInOrder'
  BY <1>1, <1>7 DEF SentInOrder
<1>. QED
  BY <1>4, <1>5, <1>8

-----------------------------------------------------------------------------
(* The invariant is inductive: it holds in the initial states and every step of a worker, *)
(* the chain or a fault keeps it.                                                         *)
THEOREM Inductive == Spec => []IInv
<1>1. Init => IInv
  BY InitInv
<1>2. IInv /\ [Next]_vars => IInv'
  <2>. SUFFICES ASSUME IInv, [Next]_vars PROVE TableFollowsChain' /\ HandsInOrder' /\ SentInOrder'
    BY TypeStep DEF IInv
  <2>. TypeOK /\ TableFollowsChain /\ HandsInOrder /\ SentInOrder
    BY DEF IInv
  <2>1. CASE UNCHANGED vars
    BY <2>1 DEF vars, TableFollowsChain, HandsInOrder, SentInOrder
  <2>2. ASSUME NEW w \in Workers,
               AddRead(w) \/ RevokeRead(w) \/ SyncReadChain(w) \/ SyncReadRows(w) \/ SendRead(w)
        PROVE  TableFollowsChain' /\ HandsInOrder' /\ SentInOrder'
    BY <2>2, ReadStep
  <2>3. ASSUME NEW w \in Workers, PanicNoKeys(w)
        PROVE  TableFollowsChain' /\ HandsInOrder' /\ SentInOrder'
    BY <2>3, DiesStep DEF PanicNoKeys
  <2>4. ASSUME NEW w \in Workers, PickKey(w) \/ Sign(w) \/ Send(w) \/ Sealed(w) \/ Save(w)
        PROVE  TableFollowsChain' /\ HandsInOrder' /\ SentInOrder'
    BY <2>4, PickStep, SignStep, SendStep, SealedStep, SaveStep
  <2>5. ASSUME NEW w \in Workers, Rejected(w) \/ TxFails(w) \/ ResultLost(w)
        PROVE  TableFollowsChain' /\ HandsInOrder' /\ SentInOrder'
    <3>1. CASE Fail(w) /\ UNCHANGED <<chain, rows>>
      BY <3>1, FailStep DEF TableFollowsChain
    <3>2. CASE ProcessDies
      BY <3>2, DiesStep
    <3>. QED
      BY <2>5, <3>1, <3>2 DEF Rejected, TxFails, ResultLost
  <2>6. ASSUME NEW w \in Workers, SaveFails(w)
        PROVE  TableFollowsChain' /\ HandsInOrder' /\ SentInOrder'
    <3>1. InOrder(chain, rows, NoExecution)
      BY DEF InOrder, NoExecution
    <3>. QED
      BY <2>6, <3>1, GoesOn DEF SaveFails, Ended
  <2>7. CASE Crash
    BY <2>7, DiesStep DEF Crash
  <2>8. CASE Waits
    BY <2>8 DEF Waits, vars, TableFollowsChain, HandsInOrder, SentInOrder
  <2>9. ASSUME NEW t \in sent, Execute(t) \/ Expire(t)
        PROVE  TableFollowsChain' /\ HandsInOrder' /\ SentInOrder'
    BY <2>9, ExecuteStep
  <2>. QED
    BY <2>1, <2>2, <2>3, <2>4, <2>5, <2>6, <2>7, <2>8, <2>9 DEF Next
<1>. QED
  BY <1>1, <1>2, PTL DEF Spec

\* Every variable keeps its type, whatever fails and however jobs overlap.
THEOREM TypeCorrect == Spec => []TypeOK
BY Inductive, PTL DEF IInv

\* The table never runs ahead of the chain: what is stored is on chain, what is deleted is
\* revoked, and no stored index is beyond the end of the chain's list.
THEOREM TableNeverAhead == Spec => []TableFollowsChain
BY Inductive, PTL DEF IInv

-----------------------------------------------------------------------------
(* Keys are taken in turn.  Times tell the picks apart: no row has been used later than now, and    *)
(* a row that was last used when a worker picked is the row it picked.                              *)

OnItsWay(e) == e.pc \in {"sign", "send", "wait"}

UsedPast == \A r \in DOMAIN rows : rows[r].used <= clock

PickedOnce ==
    \A w \in Workers : OnItsWay(worker[w]) =>
        /\ worker[w].at <= clock
        /\ \A r \in DOMAIN rows : rows[r].used = worker[w].at => r = worker[w].key

TurnInv == UsedPast /\ PickedOnce /\ TakenInTurn

LEMMA TurnInit == Init => TurnInv
BY DEF Init, TurnInv, UsedPast, PickedOnce, TakenInTurn, OnItsWay, NoExecution

\* The table and the clock stay, and nobody picks.
LEMMA TurnUnmoved ==
    ASSUME TurnInv, UNCHANGED <<rows, clock>>,
           \A w \in Workers : OnItsWay(worker'[w]) =>
               OnItsWay(worker[w]) /\ worker'[w].key = worker[w].key /\ worker'[w].at = worker[w].at
    PROVE  TurnInv'
<1>1. UsedPast'
  BY DEF TurnInv, UsedPast
<1>2. PickedOnce'
  BY DEF TurnInv, PickedOnce
<1>3. TakenInTurn'
  <2>. SUFFICES ASSUME NEW w \in Workers, OnItsWay(worker'[w])
                PROVE  /\ rows[worker'[w].key].used >= worker'[w].at
                       /\ rows[worker'[w].key].used > worker'[w].at =>
                            \A r \in Live' : rows[r].used > worker'[w].at
    BY DEF TakenInTurn, OnItsWay
  <2>1. Live' = Live
    BY DEF Live
  <2>. QED
    BY <2>1 DEF TurnInv, TakenInTurn, OnItsWay
<1>. QED
  BY <1>1, <1>2, <1>3 DEF TurnInv

LEMMA TimesAre ==
    ASSUME TypeOK
    PROVE  /\ rows \in Seq(Row) /\ DOMAIN rows = 1..Len(rows) /\ Len(rows) \in Nat /\ clock \in Nat
           /\ \A r \in DOMAIN rows : rows[r] \in Row /\ rows[r].used \in Nat
           /\ \A v \in Workers : worker[v] \in Execution /\ worker[v].at \in Nat
<1>1. rows \in Seq(Row) /\ clock \in Nat /\ worker \in [Workers -> Execution]
  BY DEF TypeOK
<1>2. \A r \in DOMAIN rows : rows[r] \in Row
  BY RowType
<1>3. \A r \in DOMAIN rows : rows[r].used \in Nat
  BY <1>2 DEF Row
<1>4. \A v \in Workers : worker[v] \in Execution
  BY <1>1
<1>5. \A v \in Workers : worker[v].at \in Nat
  BY <1>4 DEF Execution
<1>6. DOMAIN rows = 1..Len(rows) /\ Len(rows) \in Nat
  BY <1>1
<1>. QED
  BY <1>1, <1>2, <1>3, <1>4, <1>5, <1>6

\* A worker that picks takes the row that was used longest ago; who had picked that row sees all
\* others used after it.
LEMMA TurnPicks ==
    ASSUME IInv, TurnInv, NEW w \in Workers, PickKey(w)
    PROVE  TurnInv'
<1>1. /\ rows \in Seq(Row) /\ DOMAIN rows = 1..Len(rows) /\ clock \in Nat
      /\ \A r \in DOMAIN rows : rows[r] \in Row /\ rows[r].used \in Nat
      /\ \A v \in Workers : worker[v] \in Execution /\ worker[v].at \in Nat
  BY TimesAre DEF IInv
<1>2. PICK r \in Live :
        /\ \A q \in Live : rows[r].used <= rows[q].used
        /\ rows' = [rows EXCEPT ![r].used = clock + 1]
        /\ worker' = [worker EXCEPT ![w].pc = "sign", ![w].key = r, ![w].at = clock + 1]
  BY DEF PickKey
<1>3. /\ r \in DOMAIN rows /\ DOMAIN rows' = DOMAIN rows /\ Live' = Live
      /\ rows'[r].used = clock + 1
      /\ \A q \in DOMAIN rows : q # r => rows'[q] = rows[q]
  <2>1. r \in DOMAIN rows /\ rows' = [rows EXCEPT ![r] = [rows[r] EXCEPT !.used = clock + 1]]
    BY <1>2 DEF Live
  <2>2. DOMAIN rows' = DOMAIN rows
    BY <2>1
  <2>3. rows'[r] = [rows[r] EXCEPT !.used = clock + 1] /\ \A q \in DOMAIN rows : q # r => rows'[q] = rows[q]
    BY <2>1
  <2>4. rows'[r].used = clock + 1 /\ rows'[r].live = rows[r].live
    BY <1>1, <2>1, <2>3 DEF Row
  <2>. QED
    BY <2>1, <2>2, <2>3, <2>4 DEF Live
<1>4. /\ worker'[w].key = r /\ worker'[w].at = clock + 1
      /\ \A v \in Workers : v # w => worker'[v] = worker[v]
  BY <1>1, <1>2 DEF IInv, TypeOK, Execution
<1>5. clock' = clock + 1
  BY DEF PickKey
<1>6. UsedPast'
  BY <1>1, <1>3, <1>5 DEF TurnInv, UsedPast
<1>7. ASSUME NEW v \in Workers, OnItsWay(worker'[v])
      PROVE  /\ worker'[v].at <= clock'
             /\ \A q \in DOMAIN rows : rows'[q].used = worker'[v].at => q = worker'[v].key
             /\ rows'[worker'[v].key].used >= worker'[v].at
             /\ rows'[worker'[v].key].used > worker'[v].at =>
                  \A q \in Live : rows'[q].used > worker'[v].at
  <2>1. CASE v = w
    <3>1. \A q \in DOMAIN rows : q # r => rows'[q].used # clock + 1
      BY <1>1, <1>3 DEF TurnInv, UsedPast
    <3>. QED
      BY <1>1, <1>3, <1>4, <1>5, <2>1, <3>1
  <2>2. CASE v # w
    <3> DEFINE at == worker[v].at
               k == worker[v].key
    <3>1. worker'[v] = worker[v] /\ OnItsWay(worker[v])
      BY <1>4, <1>7, <2>2
    <3>2. k \in DOMAIN rows
      BY <1>1, <3>1 DEF IInv, HandsInOrder, InOrder, OnItsWay
    <3>3. /\ at \in Nat /\ at <= clock
          /\ \A q \in DOMAIN rows : rows[q].used = at => q = k
          /\ rows[k].used >= at
          /\ rows[k].used > at => \A q \in Live : rows[q].used > at
      BY <1>1, <3>1 DEF TurnInv, PickedOnce, TakenInTurn, OnItsWay
    <3> HIDE DEF at, k
    <3>4. \A q \in DOMAIN rows : rows'[q].used = at => q = k
      BY <1>1, <1>3, <3>3
    <3>5. rows'[k].used >= at
      BY <1>1, <1>3, <3>2, <3>3
    <3>6. ASSUME rows'[k].used > at, NEW q \in Live
          PROVE  rows'[q].used > at
      <4>1. q \in DOMAIN rows
        BY DEF Live
      <4>2. CASE q = r
        BY <1>1, <1>3, <3>3, <4>2
      <4>3. CASE q # r /\ rows[k].used > at
        BY <1>3, <3>3, <4>1, <4>3
      <4>4. CASE q # r /\ ~ rows[k].used > at
        <5>1. rows[k].used = at
          BY <1>1, <3>2, <3>3, <4>4
        <5>2. k = r
          BY <1>3, <3>2, <3>6, <5>1, <1>1, <3>3
        <5>3. rows[q].used >= at /\ rows[q].used # at
          BY <1>1, <1>2, <3>3, <4>1, <4>4, <5>1, <5>2
        <5>. QED
          BY <1>1, <1>3, <3>3, <4>1, <4>4, <5>3
      <4>. QED
        BY <4>2, <4>3, <4>4
    <3>. QED
      BY <1>1, <1>5, <3>1, <3>3, <3>4, <3>5, <3>6 DEF at, k
  <2>. QED
    BY <2>1, <2>2
<1>8. PickedOnce'
  BY <1>3, <1>7 DEF PickedOnce
<1>9. TakenInTurn'
  BY <1>3, <1>7 DEF TakenInTurn, OnItsWay
<1>. QED
  BY <1>6, <1>8, <1>9 DEF TurnInv

\* New rows are younger than every pick, and a deleted row is waited for no longer.
LEMMA TurnSaves ==
    ASSUME IInv, TurnInv, NEW w \in Workers, Save(w)
    PROVE  TurnInv'
<1> DEFINE e == worker[w]
<1>1. /\ rows \in Seq(Row) /\ DOMAIN rows = 1..Len(rows) /\ Len(rows) \in Nat /\ clock \in Nat
      /\ \A r \in DOMAIN rows : rows[r] \in Row /\ rows[r].used \in Nat
      /\ \A v \in Workers : worker[v] \in Execution /\ worker[v].at \in Nat
  BY TimesAre DEF IInv
<1>2. clock' = clock + 1 /\ worker' = [worker EXCEPT ![w] = NoExecution]
  BY DEF Save, Ended
<1>3. TypeOK /\ e.pc = "save" /\ Intends(chain, rows, e)
  BY DEF Save, IInv, HandsInOrder, InOrder
<1>4. /\ \A r \in DOMAIN rows : r \in DOMAIN rows' /\ rows'[r].used = rows[r].used
      /\ \A r \in DOMAIN rows : r \in Live' => r \in Live
      /\ \A r \in DOMAIN rows' : r \notin DOMAIN rows => rows'[r].used = clock + 1
  <2>1. CASE InsertKeys(w)
    <3> DEFINE n == IF e.op = "add" THEN 1 ELSE e.count
    <3>1. /\ n \in Nat /\ rows' \in Seq(Row) /\ Len(rows') = Len(rows) + n
          /\ \A i \in 1..Len(rows) : rows'[i] = rows[i]
          /\ \A i \in Len(rows) + 1..Len(rows) + n :
               rows'[i] = NewRow(e.index + (i - Len(rows)) - 1, e.pub)
      BY <1>3, <2>1, InsertIs, Zenon
    <3> HIDE DEF n
    <3>2. \A index, pub : NewRow(index, pub).used = clock + 1
      BY DEF NewRow
    <3>4. \A i \in Len(rows) + 1..Len(rows) + n : rows'[i].used = clock + 1
      BY <3>1, <3>2
    <3>3. DOMAIN rows' = 1..Len(rows) + n
      BY <3>1
    <3>. QED
      BY <1>1, <3>1, <3>3, <3>4 DEF Live
  <2>2. CASE DeleteKey(w)
    <3>1. /\ e.row \in DOMAIN rows
          /\ rows' = [rows EXCEPT ![e.row] = [rows[e.row] EXCEPT !.live = FALSE]]
      BY <1>1, <1>3, <2>2 DEF DeleteKey, Intends
    <3>2. DOMAIN rows' = DOMAIN rows
      BY <3>1
    <3>3. rows'[e.row] = [rows[e.row] EXCEPT !.live = FALSE]
          /\ \A r \in DOMAIN rows : r # e.row => rows'[r] = rows[r]
      BY <3>1
    <3>4. rows'[e.row].used = rows[e.row].used /\ ~ rows'[e.row].live
      BY <1>1, <3>1, <3>3 DEF Row
    <3>. QED
      BY <3>1, <3>2, <3>3, <3>4 DEF Live
  <2>. QED
    BY <2>1, <2>2 DEF Save
<1>5. UsedPast'
  BY <1>1, <1>2, <1>4 DEF TurnInv, UsedPast
<1>6. ASSUME NEW v \in Workers, OnItsWay(worker'[v])
      PROVE  /\ worker'[v].at <= clock'
             /\ \A q \in DOMAIN rows' : rows'[q].used = worker'[v].at => q = worker'[v].key
             /\ rows'[worker'[v].key].used >= worker'[v].at
             /\ rows'[worker'[v].key].used > worker'[v].at =>
                  \A q \in Live' : rows'[q].used > worker'[v].at
  <2> DEFINE at == worker[v].at
             k == worker[v].key
  <2>1. v # w /\ worker'[v] = worker[v] /\ OnItsWay(worker[v])
    BY <1>1, <1>2, <1>6 DEF IInv, TypeOK, OnItsWay, NoExecution
  <2>2. k \in DOMAIN rows
    BY <1>1, <2>1 DEF IInv, HandsInOrder, InOrder, OnItsWay
  <2>3. /\ at \in Nat /\ at <= clock
        /\ \A q \in DOMAIN rows : rows[q].used = at => q = k
        /\ rows[k].used >= at
        /\ rows[k].used > at => \A q \in Live : rows[q].used > at
    BY <1>1, <2>1 DEF TurnInv, PickedOnce, TakenInTurn, OnItsWay
  <2> HIDE DEF at, k
  <2>4. \A q \in DOMAIN rows' : rows'[q].used = at => q = k
    BY <1>1, <1>4, <2>3
  <2>5. rows'[k].used >= at
    BY <1>4, <2>2, <2>3
  <2>6. ASSUME rows'[k].used > at, NEW q \in Live'
        PROVE  rows'[q].used > at
    <3>1. q \in DOMAIN rows'
      BY DEF Live
    <3>2. CASE q \in DOMAIN rows
      BY <1>4, <2>2, <2>3, <2>6, <3>2
    <3>3. CASE q \notin DOMAIN rows
      BY <1>1, <1>4, <2>3, <3>1, <3>3
    <3>. QED
      BY <3>2, <3>3
  <2>. QED
    BY <1>1, <1>2, <2>1, <2>3, <2>4, <2>5, <2>6 DEF at, k
<1>7. PickedOnce'
  BY <1>6 DEF PickedOnce
<1>8. TakenInTurn'
  BY <1>6 DEF TakenInTurn, OnItsWay
<1>. QED
  BY <1>5, <1>7, <1>8 DEF TurnInv

\* The other steps pick nothing and leave the table alone.
LEMMA NobodyPicks ==
    ASSUME TypeOK, TurnInv, NEW w \in Workers, UNCHANGED <<rows, clock>>, NEW e,
           OnItsWay(e) => OnItsWay(worker[w]) /\ e.key = worker[w].key /\ e.at = worker[w].at,
           worker' = [worker EXCEPT ![w] = e]
    PROVE  TurnInv'
<1>1. \A v \in Workers : worker'[v] = IF v = w THEN e ELSE worker[v]
  BY DEF TypeOK
<1>. QED
  BY <1>1, TurnUnmoved

LEMMA TurnDies ==
    ASSUME TurnInv, ProcessDies
    PROVE  TurnInv'
BY TurnUnmoved DEF ProcessDies, NoExecution, OnItsWay

LEMMA TurnReads ==
    ASSUME TypeOK, TurnInv, NEW w \in Workers,
           AddRead(w) \/ RevokeRead(w) \/ SyncReadChain(w) \/ SyncReadRows(w) \/ SendRead(w)
    PROVE  TurnInv'
<1>1. PICK e : worker' = [worker EXCEPT ![w] = e] /\ e.pc \in {"idle", "seen", "pick"}
  <2>1. CASE AddRead(w) \/ SyncReadChain(w) \/ SendRead(w)
    <3> DEFINE a == [NoExecution EXCEPT !.pc = "pick", !.op = "add", !.index = NextIndex, !.pub = execs + 1]
               b == [NoExecution EXCEPT !.pc = "seen", !.op = "sync", !.seen = chain]
               c == [NoExecution EXCEPT !.pc = "pick", !.op = "send"]
    <3>1. a.pc = "pick" /\ b.pc = "seen" /\ c.pc = "pick"
      BY DEF NoExecution
    <3> HIDE DEF a, b, c
    <3>2. \E e \in {a, b, c} : worker' = [worker EXCEPT ![w] = e]
      BY <2>1 DEF a, b, c, AddRead, SyncReadChain, SendRead
    <3>. QED
      BY <3>1, <3>2
  <2>2. CASE RevokeRead(w)
    <3>1. PICK r : worker' = [worker EXCEPT ![w] =
             [NoExecution EXCEPT !.pc = "pick", !.op = "revoke", !.index = rows[r].index, !.row = r]]
      BY <2>2 DEF RevokeRead
    <3> DEFINE e == [NoExecution EXCEPT !.pc = "pick", !.op = "revoke", !.index = rows[r].index, !.row = r]
    <3>2. e.pc = "pick"
      BY DEF NoExecution
    <3> HIDE DEF e
    <3>3. worker' = [worker EXCEPT ![w] = e]
      BY <3>1 DEF e
    <3>. QED
      BY <3>2, <3>3
  <2>3. CASE SyncReadRows(w)
    <3>1. PICK index, pub, count :
            \/ worker' = Ended(w)
            \/ worker' = [worker EXCEPT ![w] =
                 [NoExecution EXCEPT !.pc = "pick", !.op = "sync", !.index = index, !.pub = pub, !.count = count]]
      BY <2>3 DEF SyncReadRows
    <3> DEFINE e == [NoExecution EXCEPT !.pc = "pick", !.op = "sync", !.index = index, !.pub = pub,
                                        !.count = count]
    <3>2. e.pc = "pick" /\ NoExecution.pc = "idle"
      BY DEF NoExecution
    <3> HIDE DEF e
    <3>3. worker' = [worker EXCEPT ![w] = NoExecution] \/ worker' = [worker EXCEPT ![w] = e]
      BY <3>1 DEF e, Ended
    <3>. QED
      BY <3>2, <3>3
  <2>. QED
    BY <2>1, <2>2, <2>3
<1>2. UNCHANGED <<rows, clock>>
  BY DEF AddRead, RevokeRead, SyncReadChain, SyncReadRows, SendRead, Begin
<1>. QED
  BY <1>1, <1>2, NobodyPicks DEF OnItsWay

LEMMA TurnStep == IInv /\ TurnInv /\ [Next]_vars => TurnInv'
<1>. SUFFICES ASSUME IInv, TurnInv, [Next]_vars PROVE TurnInv'
  OBVIOUS
<1>. TypeOK
  BY DEF IInv
<1>1. CASE UNCHANGED vars \/ Waits
  BY <1>1, TurnUnmoved DEF vars, Waits
<1>2. ASSUME NEW w \in Workers,
             AddRead(w) \/ RevokeRead(w) \/ SyncReadChain(w) \/ SyncReadRows(w) \/ SendRead(w)
      PROVE  TurnInv'
  BY <1>2, TurnReads
<1>3. ASSUME NEW w \in Workers, PanicNoKeys(w) PROVE TurnInv'
  BY <1>3, TurnDies DEF PanicNoKeys
<1>4. ASSUME NEW w \in Workers, Sign(w) PROVE TurnInv'
  <2> DEFINE e == [worker[w] EXCEPT !.pc = "send", !.seq = chain[rows[worker[w].key].index].seq]
  <2>1. worker' = [worker EXCEPT ![w] = e] /\ OnItsWay(worker[w])
    BY <1>4 DEF Sign, TypeOK, OnItsWay
  <2>2. e.key = worker[w].key /\ e.at = worker[w].at
    BY DEF TypeOK, Execution
  <2> HIDE DEF e
  <2>. QED
    BY <1>4, <2>1, <2>2, NobodyPicks DEF Sign
<1>5. ASSUME NEW w \in Workers, Send(w) PROVE TurnInv'
  <2> DEFINE e == [worker[w] EXCEPT !.pc = "wait"]
  <2>1. worker' = [worker EXCEPT ![w] = e] /\ OnItsWay(worker[w])
    BY <1>5 DEF Send, TypeOK, OnItsWay
  <2>2. e.key = worker[w].key /\ e.at = worker[w].at
    BY DEF TypeOK, Execution
  <2> HIDE DEF e
  <2>. QED
    BY <1>5, <2>1, <2>2, NobodyPicks DEF Send
<1>6. ASSUME NEW w \in Workers, Sealed(w) PROVE TurnInv'
  <2> DEFINE e == IF worker[w].op = "send" THEN NoExecution ELSE [worker[w] EXCEPT !.pc = "save"]
  <2>1. worker' = [worker EXCEPT ![w] = e]
    BY <1>6 DEF Sealed, TypeOK, Ended
  <2>2. ~ OnItsWay(e)
    BY DEF TypeOK, Execution, OnItsWay, NoExecution
  <2> HIDE DEF e
  <2>. QED
    BY <1>6, <2>1, <2>2, NobodyPicks DEF Sealed
<1>7. ASSUME NEW w \in Workers, Rejected(w) \/ TxFails(w) \/ ResultLost(w) \/ SaveFails(w) PROVE TurnInv'
  <2>1. CASE ProcessDies
    BY <2>1, TurnDies
  <2>2. CASE worker' = Ended(w) /\ UNCHANGED <<rows, clock>>
    BY <2>2, NobodyPicks DEF Ended, OnItsWay, NoExecution
  <2>. QED
    BY <1>7, <2>1, <2>2 DEF Rejected, TxFails, ResultLost, SaveFails, Fail
<1>8. ASSUME NEW t \in sent, Execute(t) \/ Expire(t) PROVE TurnInv'
  BY <1>8, TurnUnmoved DEF Execute, Expire
<1>9. ASSUME NEW w \in Workers, PickKey(w) \/ Save(w) PROVE TurnInv'
  BY <1>9, TurnPicks, TurnSaves
<1>10. ASSUME Crash PROVE TurnInv'
  BY <1>10, TurnDies DEF Crash
<1>. QED
  BY <1>1, <1>2, <1>3, <1>4, <1>5, <1>6, <1>7, <1>8, <1>9, <1>10 DEF Next

\* A key that is picked again while its transaction is on its way is picked after every other.
THEOREM KeysTakenInTurn == Spec => []TakenInTurn
<1>1. Init => TurnInv
  BY TurnInit
<1>2. IInv /\ TurnInv /\ [Next]_vars => TurnInv'
  BY TurnStep
<1>3. TurnInv => TakenInTurn
  BY DEF TurnInv
<1>. QED
  BY Inductive, <1>1, <1>2, <1>3, PTL DEF Spec

-----------------------------------------------------------------------------
(* Stranded keys.  What is counted are not the keys on chain but the key pairs that are there, or   *)
(* may still get there, and that the table does not have: a cut creates one before the chain does.  *)

Intending(e) == e.pc \notin {"idle", "seen"}
Adds(e) == Intending(e) /\ e.op = "add"
Unsent(e) == e.pc \in {"pick", "sign", "send"}
Waiting(e) == e.pc \in {"wait", "save"} /\ e.op = "add"

RowPubs == {rows[r].pub : r \in DOMAIN rows}
OnChain(keys, pub) == \E i \in DOMAIN keys : keys[i].pub = pub
MayAdd(pub) == \E t \in sent : t.op = "add" /\ t.pub = pub /\ t.status = "pending"
Doubtful == {pub \in Pubs : pub \notin RowPubs /\ (OnChain(chain, pub) \/ MayAdd(pub))}

\* Nobody is going to store them.
Lost == {pub \in Doubtful : \A w \in Workers : Waiting(worker[w]) => worker[w].pub # pub}

\* A generated key pair is new, and belongs to one execution and one transaction ...
KeysAreNew ==
    /\ \A i \in DOMAIN chain : chain[i].pub <= execs
    /\ \A t \in sent : t.op = "add" => t.pub <= execs
    /\ \A w \in Workers : Adds(worker[w]) => worker[w].pub <= execs

KeysApart ==
    /\ \A v, w \in Workers : Adds(worker[v]) /\ Adds(worker[w]) /\ worker[v].pub = worker[w].pub => v = w
    /\ \A t, u \in sent : t.op = "add" /\ u.op = "add" /\ t.pub = u.pub => t = u

\* ... which gets it on chain once.
KeysUnused ==
    /\ \A w \in Workers : Adds(worker[w]) /\ Unsent(worker[w]) =>
         ~ OnChain(chain, worker[w].pub) /\ \A t \in sent : t.op = "add" => t.pub # worker[w].pub
    /\ \A t \in sent : t.op = "add" /\ t.status # "sealed" => ~ OnChain(chain, t.pub)

\* Only a key of the table is cloned.
ClonesKnown ==
    /\ \A i, j \in DOMAIN chain : i # j /\ chain[i].pub = chain[j].pub => chain[i].pub \in RowPubs
    /\ \A w \in Workers : Intending(worker[w]) /\ worker[w].op = "sync" => worker[w].pub \in RowPubs
    /\ \A t \in sent : t.op = "sync" => t.pub \in RowPubs

OwnKeys == KeysAreNew /\ KeysApart /\ KeysUnused /\ ClonesKnown
LostAccounted == Cardinality(Lost) <= cut
StrandInv == OwnKeys /\ LostAccounted

LEMMA StrandInit == Init => StrandInv
<1>. SUFFICES ASSUME Init PROVE StrandInv
  OBVIOUS
<1>1. InitKeys \in Nat \ {0} /\ DOMAIN chain = 1..InitKeys /\ DOMAIN rows = 1..InitKeys
  BY ConstantsOK DEF Init
<1>2. (\A i \in DOMAIN chain : chain[i].pub = 0) /\ rows[1].pub = 0
  BY <1>1 DEF Init
<1>3. 0 \in RowPubs
  BY <1>1, <1>2 DEF RowPubs
<1>4. \A w \in Workers : ~ Intending(worker[w])
  BY DEF Init, NoExecution, Intending
<1>5. OwnKeys
  BY <1>2, <1>3, <1>4 DEF Init, OwnKeys, KeysAreNew, KeysApart, KeysUnused, ClonesKnown, Adds
<1>6. Lost = {}
  BY <1>2, <1>3 DEF Init, Lost, Doubtful, OnChain, MayAdd
<1>7. LostAccounted
  BY <1>6, FS_EmptySet DEF Init, LostAccounted
<1>. QED
  BY <1>5, <1>7 DEF StrandInv

PubsAreNumbers ==
    /\ execs \in Nat
    /\ \A i \in DOMAIN chain : chain[i].pub \in Nat
    /\ \A t \in sent : t.pub \in Nat
    /\ \A w \in Workers : worker[w].pub \in Nat

LEMMA PubTypes == TypeOK => PubsAreNumbers
<1>. SUFFICES ASSUME TypeOK PROVE PubsAreNumbers
  OBVIOUS
<1>1. chain \in Seq(ChainKey) /\ Pubs \subseteq Nat /\ execs \in Nat
  BY ConstantsOK DEF TypeOK, Pubs
<1>2. \A i \in DOMAIN chain : chain[i] \in ChainKey
  BY <1>1, ElementOfSeq
<1>3. \A i \in DOMAIN chain : chain[i].pub \in Pubs
  BY <1>2 DEF ChainKey
<1>4. \A t \in sent : t.pub \in Pubs
  BY DEF TypeOK, Tx
<1>5. \A w \in Workers : worker[w].pub \in Pubs
  BY DEF TypeOK, Execution
<1>. QED
  BY <1>1, <1>3, <1>4, <1>5 DEF PubsAreNumbers

\* A transaction of the one state is, but for who waits for it, one of the other; it may have failed.
Stems(t, u) ==
    /\ t.op = u.op /\ t.pub = u.pub
    /\ t.status = u.status \/ (t.status = "failed" /\ u.status = "pending")

NoNewTx ==
    /\ \A t \in sent' : \E u \in sent : Stems(t, u)
    /\ \A t, u \in sent' : t.op = "add" /\ u.op = "add" /\ t.pub = u.pub => t = u

\* Nobody begins to add a key.
NoNewAdd ==
    \A w \in Workers : Adds(worker'[w]) =>
        /\ Adds(worker[w]) /\ worker'[w].pub = worker[w].pub
        /\ Unsent(worker'[w]) => Unsent(worker[w])

LEMMA OwnKept ==
    ASSUME TypeOK, OwnKeys, UNCHANGED chain, RowPubs \subseteq RowPubs', execs' \in Nat, execs <= execs',
           NoNewTx, NoNewAdd,
           \A w \in Workers : Intending(worker'[w]) /\ worker'[w].op = "sync" => worker'[w].pub \in RowPubs'
    PROVE  OwnKeys'
<1>1. PubsAreNumbers
  BY PubTypes
<1>2. KeysAreNew'
  <2>1. \A i \in DOMAIN chain' : chain'[i].pub <= execs'
    BY <1>1 DEF OwnKeys, KeysAreNew, PubsAreNumbers
  <2>2. \A t \in sent' : t.op = "add" => t.pub <= execs'
    BY <1>1 DEF OwnKeys, KeysAreNew, NoNewTx, Stems, PubsAreNumbers
  <2>3. \A w \in Workers : Adds(worker'[w]) => worker'[w].pub <= execs'
    BY <1>1 DEF OwnKeys, KeysAreNew, NoNewAdd, PubsAreNumbers
  <2>. QED
    BY <2>1, <2>2, <2>3 DEF KeysAreNew, PubsAreNumbers
<1>3. KeysApart'
  BY DEF OwnKeys, KeysApart, NoNewTx, NoNewAdd
<1>4. KeysUnused'
  <2>1. ASSUME NEW w \in Workers, Adds(worker'[w]), Unsent(worker'[w])
        PROVE  ~ OnChain(chain', worker'[w].pub) /\ \A t \in sent' : t.op = "add" => t.pub # worker'[w].pub
    <3>1. /\ worker'[w].pub = worker[w].pub /\ ~ OnChain(chain, worker[w].pub)
          /\ \A t \in sent : t.op = "add" => t.pub # worker[w].pub
      BY <2>1 DEF OwnKeys, KeysUnused, NoNewAdd
    <3>. QED
      BY <3>1 DEF NoNewTx, Stems
  <2>2. ASSUME NEW t \in sent', t.op = "add", t.status # "sealed"
        PROVE  ~ OnChain(chain', t.pub)
    BY <2>2 DEF OwnKeys, KeysUnused, NoNewTx, Stems
  <2>. QED
    BY <2>1, <2>2 DEF KeysUnused
<1>5. ClonesKnown'
  BY DEF OwnKeys, ClonesKnown, NoNewTx, Stems
<1>. QED
  BY <1>2, <1>3, <1>4, <1>5 DEF OwnKeys

\* What a step loses, X, is accounted for as a cut.
LEMMA LostKept ==
    ASSUME TypeOK, LostAccounted, RowPubs \subseteq RowPubs',
           \A pub \in Doubtful' :
               pub \in Doubtful \/ \E w \in Workers : Waiting(worker'[w]) /\ worker'[w].pub = pub,
           NEW X, IsFiniteSet(X), cut' \in Nat, cut + Cardinality(X) <= cut',
           \A w \in Workers : Waiting(worker[w]) =>
               \/ Waiting(worker'[w]) /\ worker'[w].pub = worker[w].pub
               \/ worker[w].pub \notin Doubtful'
               \/ worker[w].pub \in X
    PROVE  LostAccounted'
<1>1. Lost' \subseteq Lost \cup X
  BY DEF Lost
<1>2. IsFiniteSet(Lost) /\ Cardinality(Lost) \in Nat /\ Cardinality(X) \in Nat
  <2>1. IsFiniteSet(Pubs)
    <3>1. 0 \in Int /\ MaxExec \in Int
      BY ConstantsOK
    <3>2. IsFiniteSet(0..MaxExec)
      BY <3>1, FS_Interval, Zenon
    <3>. QED
      BY <3>2 DEF Pubs
  <2>2. Lost \subseteq Pubs
    BY DEF Lost, Doubtful
  <2>. QED
    BY <2>1, <2>2, FS_Subset, FS_CardinalityType
<1>3. IsFiniteSet(Lost \cup X) /\ Cardinality(Lost \cup X) <= Cardinality(Lost) + Cardinality(X)
  <2>1. /\ IsFiniteSet(Lost \cup X)
        /\ Cardinality(Lost \cup X) = Cardinality(Lost) + Cardinality(X) - Cardinality(Lost \cap X)
    BY <1>2, FS_Union
  <2>2. Cardinality(Lost \cap X) \in Nat
    BY <1>2, FS_Subset, FS_CardinalityType
  <2>. QED
    BY <1>2, <2>1, <2>2
<1>4. IsFiniteSet(Lost') /\ Cardinality(Lost') <= Cardinality(Lost \cup X)
  BY <1>1, <1>3, FS_Subset
<1>5. Cardinality(Lost') \in Nat /\ Cardinality(Lost \cup X) \in Nat
  BY <1>3, <1>4, FS_CardinalityType
<1>6. Cardinality(Lost') <= cut'
  BY <1>2, <1>3, <1>4, <1>5 DEF LostAccounted, TypeOK
<1>. QED
  BY <1>6 DEF LostAccounted

\* No transaction is sent, and the chain stays.
LEMMA DoubtfulKept ==
    ASSUME UNCHANGED chain, RowPubs \subseteq RowPubs', NoNewTx
    PROVE  Doubtful' \subseteq Doubtful
<1>1. ASSUME NEW pub PROVE MayAdd(pub)' => MayAdd(pub)
  BY DEF MayAdd, NoNewTx, Stems
<1>. QED
  BY <1>1 DEF Doubtful

\* The two together, for the steps that lose nothing ...
LEMMA StrandKept ==
    ASSUME TypeOK, StrandInv, UNCHANGED <<chain, cut>>, RowPubs \subseteq RowPubs', execs' \in Nat, execs <= execs',
           NoNewTx, NoNewAdd,
           \A w \in Workers : Intending(worker'[w]) /\ worker'[w].op = "sync" => worker'[w].pub \in RowPubs',
           \A w \in Workers : Waiting(worker[w]) =>
               \/ Waiting(worker'[w]) /\ worker'[w].pub = worker[w].pub
               \/ worker[w].pub \notin Doubtful'
    PROVE  StrandInv'
<1>1. OwnKeys'
  BY OwnKept DEF StrandInv
<1>2. IsFiniteSet({}) /\ Cardinality({}) = 0
  BY FS_EmptySet
<1>3. cut' \in Nat /\ cut + 0 <= cut'
  BY DEF TypeOK
<1>4. Doubtful' \subseteq Doubtful
  BY DoubtfulKept
<1>5. LostAccounted'
  BY <1>2, <1>3, <1>4, LostKept DEF StrandInv
<1>. QED
  BY <1>1, <1>5 DEF StrandInv

\* ... and for those that stop some workers.
LEMMA StrandCut ==
    ASSUME TypeOK, StrandInv, UNCHANGED <<chain, rows>>, execs' \in Nat, execs <= execs', NoNewTx,
           NEW W \in SUBSET Workers, CutOff(W),
           \A w \in Workers :
               \/ worker'[w] = worker[w]
               \/ worker'[w] = NoExecution /\ w \in W
    PROVE  StrandInv'
<1>1. RowPubs' = RowPubs
  BY DEF RowPubs
<1>2. ~ Intending(NoExecution)
  BY DEF Intending, NoExecution
<1>3. OwnKeys'
  <2>1. NoNewAdd
    BY <1>2 DEF NoNewAdd, Adds
  <2>2. \A w \in Workers : Intending(worker'[w]) /\ worker'[w].op = "sync" => worker'[w].pub \in RowPubs'
    BY <1>1, <1>2 DEF StrandInv, OwnKeys, ClonesKnown
  <2>. QED
    BY <1>1, <2>1, <2>2, OwnKept DEF StrandInv
<1>a. PICK A : A = Adding \cap W
  OBVIOUS
<1>b. IsFiniteSet(A) /\ cut' = cut + Cardinality(A)
  BY <1>a, AddingFinite DEF CutOff
<1>4. PICK X : X = {worker[w].pub : w \in A}
  OBVIOUS
<1>5. IsFiniteSet(X) /\ Cardinality(X) <= Cardinality(A) /\ Cardinality(X) \in Nat /\ Cardinality(A) \in Nat
  <2> DEFINE f == [w \in A |-> worker[w].pub]
  <2>1. f \in Surjection(A, X)
    BY <1>4 DEF Surjection
  <2>2. IsFiniteSet(X) /\ Cardinality(X) <= Cardinality(A)
    BY <1>b, <2>1, FS_Surjection
  <2>. QED
    BY <1>b, <2>2, FS_CardinalityType
<1>6. cut' \in Nat /\ cut + Cardinality(X) <= cut'
  BY <1>b, <1>5 DEF TypeOK
<1>7. Doubtful' \subseteq Doubtful
  BY <1>1, DoubtfulKept
<1>8. \A w \in Workers : Waiting(worker[w]) =>
        (Waiting(worker'[w]) /\ worker'[w].pub = worker[w].pub) \/ worker[w].pub \in X
  BY <1>a, <1>4 DEF Waiting, Adding
<1>9. LostAccounted'
  BY <1>1, <1>5, <1>6, <1>7, <1>8, LostKept DEF StrandInv
<1>. QED
  BY <1>3, <1>9 DEF StrandInv

\* One worker goes on, and loses nothing.
LEMMA WorkerMoves ==
    ASSUME TypeOK, StrandInv, NEW w \in Workers, NEW e, worker' = [worker EXCEPT ![w] = e],
           UNCHANGED <<chain, cut>>, RowPubs \subseteq RowPubs', execs' \in Nat, execs <= execs', NoNewTx,
           Adds(e) => Adds(worker[w]) /\ e.pub = worker[w].pub /\ (Unsent(e) => Unsent(worker[w])),
           Intending(e) /\ e.op = "sync" => e.pub \in RowPubs',
           Waiting(worker[w]) => (Waiting(e) /\ e.pub = worker[w].pub) \/ worker[w].pub \notin Doubtful'
    PROVE  StrandInv'
<1>1. \A v \in Workers : worker'[v] = IF v = w THEN e ELSE worker[v]
  BY DEF TypeOK
<1>2. NoNewAdd
  BY <1>1 DEF NoNewAdd
<1>3. \A v \in Workers : Intending(worker'[v]) /\ worker'[v].op = "sync" => worker'[v].pub \in RowPubs'
  BY <1>1 DEF StrandInv, OwnKeys, ClonesKnown
<1>4. \A v \in Workers : Waiting(worker[v]) =>
        \/ Waiting(worker'[v]) /\ worker'[v].pub = worker[v].pub
        \/ worker[v].pub \notin Doubtful'
  BY <1>1
<1>. QED
  BY <1>2, <1>3, <1>4, StrandKept

LEMMA FewerTx ==
    ASSUME OwnKeys, sent' \subseteq sent
    PROVE  NoNewTx
BY DEF OwnKeys, KeysApart, NoNewTx, Stems

LEMMA AbandonedTx ==
    ASSUME TypeOK, OwnKeys, NEW W, sent' = Abandoned(W)
    PROVE  NoNewTx
<1>1. \A t \in sent' : \E u \in sent :
        /\ t.op = u.op /\ t.pub = u.pub /\ t.status = u.status
        /\ t = IF u.owner \in W THEN [u EXCEPT !.owner = "nobody"] ELSE u
  <2>. SUFFICES ASSUME NEW t \in sent'
                PROVE  \E u \in sent :
                         /\ t.op = u.op /\ t.pub = u.pub /\ t.status = u.status
                         /\ t = IF u.owner \in W THEN [u EXCEPT !.owner = "nobody"] ELSE u
    OBVIOUS
  <2>1. CASE t \in sent /\ t.owner \notin W
    BY <2>1
  <2>2. CASE \E u \in sent : u.owner \in W /\ t = [u EXCEPT !.owner = "nobody"]
    <3>1. PICK u \in sent : u.owner \in W /\ t = [u EXCEPT !.owner = "nobody"]
      BY <2>2
    <3>2. t.op = u.op /\ t.pub = u.pub /\ t.status = u.status
      BY <3>1 DEF TypeOK, Tx
    <3>. QED
      BY <3>1, <3>2
  <2>. QED
    BY <2>1, <2>2 DEF Abandoned
<1>. QED
  BY <1>1 DEF OwnKeys, KeysApart, NoNewTx, Stems

LEMMA FailedTx ==
    ASSUME TypeOK, OwnKeys, NEW t \in sent, t.status = "pending", sent' = Settled(t, "failed")
    PROVE  NoNewTx
<1> DEFINE f == [t EXCEPT !.status = "failed"]
<1>1. f.op = t.op /\ f.pub = t.pub /\ f.status = "failed"
  BY DEF TypeOK, Tx
<1> HIDE DEF f
<1>2. \A u \in sent' : u \in sent \ {t} \/ u = f
  BY DEF Settled, f
<1>. QED
  BY <1>1, <1>2 DEF OwnKeys, KeysApart, NoNewTx, Stems

\* A table that keeps its rows keeps their keys.
LEMMA SamePubs ==
    ASSUME DOMAIN rows \subseteq DOMAIN rows', \A r \in DOMAIN rows : rows'[r].pub = rows[r].pub
    PROVE  RowPubs \subseteq RowPubs'
BY DEF RowPubs

LEMMA StrandDies ==
    ASSUME TypeOK, StrandInv, ProcessDies, execs' \in Nat, execs <= execs'
    PROVE  StrandInv'
<1>1. NoNewTx
  BY AbandonedTx DEF ProcessDies, StrandInv
<1>2. Workers \in SUBSET Workers
  OBVIOUS
<1>3. \A w \in Workers : worker'[w] = NoExecution
  BY DEF ProcessDies
<1>. QED
  BY <1>1, <1>2, <1>3, StrandCut DEF ProcessDies

\* The key addKey generates is new.
LEMMA StrandAdds ==
    ASSUME TypeOK, TableFollowsChain, StrandInv, NEW w \in Workers, AddRead(w)
    PROVE  StrandInv'
<1> DEFINE e == [NoExecution EXCEPT !.pc = "pick", !.op = "add", !.index = NextIndex, !.pub = execs + 1]
<1>1. /\ UNCHANGED <<chain, rows, sent, cut>> /\ execs' = execs + 1 /\ worker[w].pc = "idle"
      /\ worker' = [worker EXCEPT ![w] = e]
  BY DEF AddRead, Begin
<1>2. e.pc = "pick" /\ e.op = "add" /\ e.pub = execs + 1
  BY DEF NoExecution
<1> HIDE DEF e
<1>3. \A v \in Workers : worker'[v] = IF v = w THEN e ELSE worker[v]
  BY <1>1 DEF TypeOK
<1>4. PubsAreNumbers
  BY PubTypes
<1>5. /\ ~ OnChain(chain, execs + 1) /\ \A t \in sent : t.op = "add" => t.pub # execs + 1
      /\ \A v \in Workers : Adds(worker[v]) => worker[v].pub # execs + 1
  BY <1>4 DEF StrandInv, OwnKeys, KeysAreNew, OnChain, PubsAreNumbers
<1>6. KeysAreNew'
  BY <1>1, <1>2, <1>3, <1>4 DEF StrandInv, OwnKeys, KeysAreNew, PubsAreNumbers
<1>7. KeysApart'
  BY <1>1, <1>2, <1>3, <1>5 DEF StrandInv, OwnKeys, KeysApart
<1>8. KeysUnused'
  BY <1>1, <1>2, <1>3, <1>5 DEF StrandInv, OwnKeys, KeysUnused
<1>9. ClonesKnown'
  <2>1. RowPubs' = RowPubs
    BY <1>1 DEF RowPubs
  <2>. QED
    BY <1>1, <1>2, <1>3, <2>1 DEF StrandInv, OwnKeys, ClonesKnown
<1>10. Doubtful' = Doubtful
  BY <1>1 DEF Doubtful, RowPubs, MayAdd
<1>11. \A v \in Workers : Waiting(worker'[v]) <=> v # w /\ Waiting(worker[v])
  BY <1>1, <1>2, <1>3 DEF Waiting
<1>12. Lost' = Lost
  BY <1>3, <1>1, <1>10, <1>11 DEF Lost, Waiting
<1>13. LostAccounted'
  BY <1>1, <1>12 DEF StrandInv, LostAccounted
<1>. QED
  BY <1>6, <1>7, <1>8, <1>9, <1>13 DEF StrandInv, OwnKeys

LEMMA StrandReads ==
    ASSUME TypeOK, TableFollowsChain, StrandInv, NEW w \in Workers,
           RevokeRead(w) \/ SyncReadChain(w) \/ SyncReadRows(w) \/ SendRead(w)
    PROVE  StrandInv'
<1>1. /\ UNCHANGED <<chain, rows, sent, cut>> /\ execs' \in Nat /\ execs <= execs'
      /\ worker[w].pc \in {"idle", "seen"}
  <2>1. UNCHANGED <<chain, rows, sent, cut>> /\ execs' \in {execs, execs + 1} /\ worker[w].pc \in {"idle", "seen"}
    BY DEF RevokeRead, SyncReadChain, SyncReadRows, SendRead, Begin
  <2>2. execs \in Nat
    BY DEF TypeOK
  <2>. QED
    BY <2>1, <2>2
<1>2. PICK e : /\ worker' = [worker EXCEPT ![w] = e]
               /\ ~ Adds(e)
               /\ Intending(e) /\ e.op = "sync" => e.pub \in RowPubs
  <2>1. CASE RevokeRead(w)
    <3>1. PICK r : worker' = [worker EXCEPT ![w] =
             [NoExecution EXCEPT !.pc = "pick", !.op = "revoke", !.index = rows[r].index, !.row = r]]
      BY <2>1 DEF RevokeRead
    <3> DEFINE e == [NoExecution EXCEPT !.pc = "pick", !.op = "revoke", !.index = rows[r].index, !.row = r]
    <3>2. e.op = "revoke"
      BY DEF NoExecution
    <3> HIDE DEF e
    <3>3. worker' = [worker EXCEPT ![w] = e]
      BY <3>1 DEF e
    <3>. QED
      BY <3>2, <3>3 DEF Adds
  <2>2. CASE SyncReadChain(w) \/ SendRead(w)
    <3> DEFINE b == [NoExecution EXCEPT !.pc = "seen", !.op = "sync", !.seen = chain]
               c == [NoExecution EXCEPT !.pc = "pick", !.op = "send"]
    <3>1. b.pc = "seen" /\ c.op = "send"
      BY DEF NoExecution
    <3> HIDE DEF b, c
    <3>2. \E e \in {b, c} : worker' = [worker EXCEPT ![w] = e]
      BY <2>2 DEF b, c, SyncReadChain, SendRead
    <3>. QED
      BY <3>1, <3>2 DEF Adds, Intending
  <2>3. CASE SyncReadRows(w)
    <3>1. PICK r, index, count :
            /\ r \in Live
            /\ \/ worker' = Ended(w)
               \/ worker' = [worker EXCEPT ![w] =
                    [NoExecution EXCEPT !.pc = "pick", !.op = "sync", !.index = index, !.pub = rows[r].pub,
                                        !.count = count]]
      BY <2>3 DEF SyncReadRows
    <3> DEFINE e == [NoExecution EXCEPT !.pc = "pick", !.op = "sync", !.index = index, !.pub = rows[r].pub,
                                        !.count = count]
    <3>2. e.op = "sync" /\ e.pub = rows[r].pub /\ NoExecution.op = "send"
      BY DEF NoExecution
    <3>3. rows[r].pub \in RowPubs
      BY <3>1 DEF RowPubs, Live
    <3> HIDE DEF e
    <3>4. worker' = [worker EXCEPT ![w] = NoExecution] \/ worker' = [worker EXCEPT ![w] = e]
      BY <3>1 DEF e, Ended
    <3>. QED
      BY <3>2, <3>3, <3>4 DEF Adds
  <2>. QED
    BY <2>1, <2>2, <2>3
<1>3. RowPubs' = RowPubs
  BY <1>1 DEF RowPubs
<1>4. NoNewTx
  BY <1>1, FewerTx DEF StrandInv
<1>5. ~ Waiting(worker[w])
  BY <1>1 DEF Waiting
<1>. QED
  BY <1>1, <1>2, <1>3, <1>4, <1>5, WorkerMoves

LEMMA StrandPicks ==
    ASSUME TypeOK, StrandInv, NEW w \in Workers, PickKey(w) \/ Sign(w)
    PROVE  StrandInv'
<1>1. PICK e : /\ worker' = [worker EXCEPT ![w] = e]
               /\ e.op = worker[w].op /\ e.pub = worker[w].pub /\ e.pc \in {"sign", "send"}
  <2>1. worker[w] \in Execution /\ worker \in [Workers -> Execution]
    BY DEF TypeOK
  <2>2. CASE PickKey(w)
    <3>1. PICK r : worker' = [worker EXCEPT ![w].pc = "sign", ![w].key = r, ![w].at = clock + 1]
      BY <2>2 DEF PickKey
    <3> DEFINE e == [worker[w] EXCEPT !.pc = "sign", !.key = r, !.at = clock + 1]
    <3>2. e.op = worker[w].op /\ e.pub = worker[w].pub /\ e.pc = "sign"
      BY <2>1 DEF Execution
    <3>3. worker' = [worker EXCEPT ![w] = e]
      BY <2>1, <3>1
    <3>. QED
      BY <3>2, <3>3
  <2>3. CASE Sign(w)
    <3> DEFINE n == chain[rows[worker[w].key].index].seq
               e == [worker[w] EXCEPT !.pc = "send", !.seq = n]
    <3>1. worker' = [worker EXCEPT ![w] = e]
      BY <2>1, <2>3 DEF Sign
    <3> HIDE DEF n
    <3>2. e.op = worker[w].op /\ e.pub = worker[w].pub /\ e.pc = "send"
      BY <2>1 DEF Execution
    <3>. QED
      BY <3>1, <3>2
  <2>. QED
    BY <2>2, <2>3
<1>2. UNCHANGED <<chain, sent, cut, execs>> /\ worker[w].pc \in {"pick", "sign"}
  BY DEF PickKey, Sign
<1>3. RowPubs \subseteq RowPubs'
  <2>1. CASE PickKey(w)
    <3>1. PICK r \in Live : rows' = [rows EXCEPT ![r].used = clock + 1]
      BY <2>1 DEF PickKey
    <3>2. r \in DOMAIN rows /\ rows' = [rows EXCEPT ![r] = [rows[r] EXCEPT !.used = clock + 1]]
      BY <3>1 DEF Live
    <3>3. [rows[r] EXCEPT !.used = clock + 1].pub = rows[r].pub
      BY <3>2, RowType DEF Row
    <3>. QED
      BY <3>2, <3>3, SamePubs
  <2>2. CASE Sign(w)
    BY <2>2 DEF Sign, RowPubs
  <2>. QED
    BY <2>1, <2>2
<1>4. NoNewTx
  BY <1>2, FewerTx DEF StrandInv
<1>5. Intending(worker[w]) /\ Unsent(worker[w]) /\ ~ Waiting(worker[w])
  BY <1>2 DEF Intending, Unsent, Waiting
<1>6. Intending(e) /\ e.op = "sync" => e.pub \in RowPubs'
  BY <1>1, <1>3, <1>5 DEF StrandInv, OwnKeys, ClonesKnown
<1>7. Adds(e) => Adds(worker[w]) /\ e.pub = worker[w].pub /\ (Unsent(e) => Unsent(worker[w]))
  BY <1>1, <1>5 DEF Adds
<1>8. execs' \in Nat /\ execs <= execs'
  BY <1>2, PubTypes DEF PubsAreNumbers
<1>. QED
  BY <1>1, <1>2, <1>3, <1>4, <1>5, <1>6, <1>7, <1>8, WorkerMoves

\* What is sent is one more transaction that may get its key on chain, and its worker waits for it.
LEMMA StrandSends ==
    ASSUME TypeOK, StrandInv, NEW w \in Workers, Send(w)
    PROVE  StrandInv'
<1> DEFINE e == [worker[w] EXCEPT !.pc = "wait"]
           x == Transaction(w)
<1>1. /\ UNCHANGED <<chain, rows, cut, execs>> /\ sent' = sent \cup {x}
      /\ worker' = [worker EXCEPT ![w] = e] /\ worker[w].pc = "send"
  BY DEF Send, TypeOK
<1>2. e.pc = "wait" /\ e.op = worker[w].op /\ e.pub = worker[w].pub
  BY DEF TypeOK, Execution
<1>3. x.op = worker[w].op /\ x.pub = worker[w].pub /\ x.status = "pending"
  BY DEF Transaction
<1> HIDE DEF e, x
<1>4. \A v \in Workers : worker'[v] = IF v = w THEN e ELSE worker[v]
  BY <1>1 DEF TypeOK
<1>5. Intending(worker[w]) /\ Unsent(worker[w]) /\ ~ Waiting(worker[w])
  BY <1>1 DEF Intending, Unsent, Waiting
<1>6. /\ \A v \in Workers : /\ worker'[v].op = worker[v].op /\ worker'[v].pub = worker[v].pub
                            /\ Intending(worker'[v]) => Intending(worker[v])
                            /\ Unsent(worker'[v]) => v # w /\ Unsent(worker[v])
                            /\ Waiting(worker[v]) => Waiting(worker'[v])
      /\ worker[w].op = "add" => Waiting(worker'[w])
  BY <1>2, <1>4, <1>5 DEF Intending, Unsent, Waiting
<1>7. KeysAreNew'
  BY <1>1, <1>3, <1>5, <1>6 DEF StrandInv, OwnKeys, KeysAreNew, Adds
<1>8. KeysApart'
  BY <1>1, <1>3, <1>5, <1>6 DEF StrandInv, OwnKeys, KeysApart, KeysUnused, Adds
<1>9. KeysUnused'
  BY <1>1, <1>3, <1>5, <1>6 DEF StrandInv, OwnKeys, KeysApart, KeysUnused, Adds
<1>10. RowPubs' = RowPubs
  BY <1>1 DEF RowPubs
<1>11. ClonesKnown'
  BY <1>1, <1>3, <1>5, <1>6, <1>10 DEF StrandInv, OwnKeys, ClonesKnown
<1>12. ASSUME NEW pub \in Doubtful'
       PROVE  pub \in Doubtful \/ \E v \in Workers : Waiting(worker'[v]) /\ worker'[v].pub = pub
  <2>1. MayAdd(pub)' => MayAdd(pub) \/ (x.op = "add" /\ x.pub = pub)
    BY <1>1 DEF MayAdd
  <2>. QED
    BY <1>1, <1>3, <1>6, <1>10, <2>1 DEF Doubtful
<1>13. IsFiniteSet({}) /\ Cardinality({}) = 0
  BY FS_EmptySet
<1>14. cut' \in Nat /\ cut + 0 <= cut'
  BY <1>1 DEF TypeOK
<1>15. LostAccounted'
  BY <1>6, <1>10, <1>12, <1>13, <1>14, LostKept DEF StrandInv
<1>. QED
  BY <1>7, <1>8, <1>9, <1>11, <1>15 DEF StrandInv, OwnKeys

\* An execution that ends with an error before its transaction could have been executed.
LEMMA StrandFails ==
    ASSUME TypeOK, StrandInv, NEW w \in Workers, Fail(w), UNCHANGED <<chain, rows, cut, execs>>,
           Waiting(worker[w]) => worker[w].pub \notin Doubtful
    PROVE  StrandInv'
<1>1. NoNewTx
  BY AbandonedTx DEF Fail, StrandInv
<1>2. RowPubs' = RowPubs
  BY DEF RowPubs
<1>3. Doubtful' \subseteq Doubtful
  BY <1>1, <1>2, DoubtfulKept
<1>4. worker' = [worker EXCEPT ![w] = NoExecution] /\ ~ Intending(NoExecution)
  BY DEF Fail, Ended, NoExecution, Intending
<1>5. execs' \in Nat /\ execs <= execs'
  BY DEF TypeOK
<1>. QED
  BY <1>1, <1>2, <1>3, <1>4, <1>5, WorkerMoves DEF Adds

\* The key of a transaction that has failed does not get on chain.
LEMMA FailedKey ==
    ASSUME StrandInv, SentInOrder, NEW w \in Workers, NEW t \in sent, t.owner = w, t.status = "failed"
    PROVE  Waiting(worker[w]) => worker[w].pub \notin Doubtful
<1>. SUFFICES ASSUME Waiting(worker[w]) PROVE worker[w].pub \notin Doubtful
  OBVIOUS
<1>1. t.op = "add" /\ t.pub = worker[w].pub
  BY DEF SentInOrder, Awaited, Waiting
<1>2. ~ OnChain(chain, t.pub)
  BY <1>1 DEF StrandInv, OwnKeys, KeysUnused
<1>3. ~ MayAdd(t.pub)
  BY <1>1 DEF StrandInv, OwnKeys, KeysApart, MayAdd
<1>. QED
  BY <1>1, <1>2, <1>3 DEF Doubtful

LEMMA StrandStops ==
    ASSUME TypeOK, HandsInOrder, SentInOrder, StrandInv, NEW w \in Workers,
           Rejected(w) \/ TxFails(w) \/ ResultLost(w) \/ SaveFails(w)
    PROVE  StrandInv'
<1>1. execs' = execs /\ execs \in Nat
  BY DEF Rejected, TxFails, ResultLost, SaveFails, TypeOK
<1>2. CASE ProcessDies
  BY <1>1, <1>2, StrandDies
<1>3. CASE Rejected(w) /\ Fail(w) /\ UNCHANGED <<chain, rows, cut>>
  <2>1. ~ Waiting(worker[w])
    BY <1>3 DEF Rejected, Waiting
  <2>. QED
    BY <1>1, <1>3, <2>1, StrandFails
<1>4. CASE TxFails(w) /\ Fail(w) /\ UNCHANGED <<chain, rows, cut>>
  <2>1. PICK t \in sent : t.owner = w /\ t.status = "failed"
    BY <1>4 DEF TxFails
  <2>. QED
    BY <1>1, <1>4, <2>1, FailedKey, StrandFails
<1>5. CASE worker' = Ended(w) /\ CutOff({w}) /\ UNCHANGED <<chain, rows>> /\ NoNewTx
  <2>1. {w} \in SUBSET Workers
    OBVIOUS
  <2>2. \A v \in Workers : worker'[v] = worker[v] \/ (worker'[v] = NoExecution /\ v \in {w})
    BY <1>5 DEF TypeOK, Ended
  <2>. QED
    BY <1>1, <1>5, <2>1, <2>2, StrandCut
<1>6. ASSUME ResultLost(w) \/ SaveFails(w), ~ ProcessDies
      PROVE  worker' = Ended(w) /\ CutOff({w}) /\ UNCHANGED <<chain, rows>> /\ NoNewTx
  <2>1. CASE ResultLost(w)
    BY <1>6, <2>1, AbandonedTx DEF ResultLost, Fail, StrandInv
  <2>2. CASE SaveFails(w)
    BY <2>2, FewerTx DEF SaveFails, StrandInv
  <2>. QED
    BY <1>6, <2>1, <2>2
<1>. QED
  BY <1>2, <1>3, <1>4, <1>5, <1>6 DEF Rejected, TxFails

LEMMA StrandSeals ==
    ASSUME TypeOK, SentInOrder, StrandInv, NEW w \in Workers, Sealed(w)
    PROVE  StrandInv'
<1> DEFINE e == IF worker[w].op = "send" THEN NoExecution ELSE [worker[w] EXCEPT !.pc = "save"]
<1>1. /\ UNCHANGED <<chain, rows, cut, execs>> /\ sent' \subseteq sent
      /\ worker' = [worker EXCEPT ![w] = e]
  BY DEF Sealed, TypeOK, Ended
<1>2. worker[w].pc = "wait"
  BY DEF Sealed, SentInOrder, Awaited
<1>3. /\ worker[w].op = "send" => ~ Intending(e)
      /\ worker[w].op # "send" => e.pc = "save" /\ e.op = worker[w].op /\ e.pub = worker[w].pub
  BY DEF TypeOK, Execution, Intending, NoExecution
<1> HIDE DEF e
<1>4. NoNewTx
  BY <1>1, FewerTx DEF StrandInv
<1>5. RowPubs' = RowPubs
  BY <1>1 DEF RowPubs
<1>6. Intending(worker[w])
  BY <1>2 DEF Intending
<1>7. Adds(e) => Adds(worker[w]) /\ e.pub = worker[w].pub /\ (Unsent(e) => Unsent(worker[w]))
  BY <1>3, <1>6 DEF Adds, Unsent
<1>8. Intending(e) /\ e.op = "sync" => e.pub \in RowPubs'
  BY <1>3, <1>5, <1>6 DEF StrandInv, OwnKeys, ClonesKnown
<1>9. Waiting(worker[w]) => Waiting(e) /\ e.pub = worker[w].pub
  BY <1>3 DEF Waiting
<1>10. execs' \in Nat /\ execs <= execs'
  BY <1>1, PubTypes DEF PubsAreNumbers
<1>. QED
  BY <1>1, <1>4, <1>5, <1>7, <1>8, <1>9, <1>10, WorkerMoves

LEMMA StrandSaves ==
    ASSUME TypeOK, HandsInOrder, StrandInv, NEW w \in Workers, Save(w)
    PROVE  StrandInv'
<1> DEFINE e == worker[w]
<1>1. /\ UNCHANGED <<chain, sent, cut, execs>> /\ worker' = [worker EXCEPT ![w] = NoExecution]
      /\ e.pc = "save" /\ Intends(chain, rows, e) /\ ~ Intending(NoExecution)
  BY DEF Save, Ended, TypeOK, HandsInOrder, InOrder, Intending, NoExecution
<1>2. rows \in Seq(Row) /\ DOMAIN rows = 1..Len(rows) /\ Len(rows) \in Nat
  BY DEF TypeOK
<1>3. RowPubs \subseteq RowPubs' /\ (e.op = "add" => e.pub \in RowPubs')
  <2>1. CASE InsertKeys(w)
    <3> DEFINE n == IF e.op = "add" THEN 1 ELSE e.count
    <3>1. /\ n \in Nat /\ rows' \in Seq(Row) /\ Len(rows') = Len(rows) + n
          /\ \A i \in 1..Len(rows) : rows'[i] = rows[i]
          /\ \A i \in Len(rows) + 1..Len(rows) + n :
               rows'[i] = NewRow(e.index + (i - Len(rows)) - 1, e.pub)
      BY <1>1, <2>1, InsertIs, Zenon
    <3>2. e.op = "add" => n = 1
      OBVIOUS
    <3> HIDE DEF n
    <3>3. DOMAIN rows' = 1..Len(rows) + n
      BY <3>1
    <3>4. RowPubs \subseteq RowPubs'
      BY <1>2, <3>1, <3>3, SamePubs
    <3>5. ASSUME e.op = "add" PROVE e.pub \in RowPubs'
      <4>1. Len(rows) + 1 \in Len(rows) + 1..Len(rows) + n /\ Len(rows) + 1 \in DOMAIN rows'
        BY <1>2, <3>2, <3>3, <3>5
      <4>2. \A index : NewRow(index, e.pub).pub = e.pub
        BY DEF NewRow
      <4>3. rows'[Len(rows) + 1].pub = e.pub
        BY <3>1, <4>1, <4>2
      <4>. QED
        BY <4>1, <4>3 DEF RowPubs
    <3>. QED
      BY <3>4, <3>5
  <2>2. CASE DeleteKey(w)
    <3>1. /\ e.row \in DOMAIN rows /\ e.op = "revoke"
          /\ rows' = [rows EXCEPT ![e.row] = [rows[e.row] EXCEPT !.live = FALSE]]
      BY <1>1, <1>2, <2>2 DEF DeleteKey, Intends
    <3>2. [rows[e.row] EXCEPT !.live = FALSE].pub = rows[e.row].pub
      BY <3>1, RowType DEF Row
    <3>. QED
      BY <3>1, <3>2, SamePubs
  <2>. QED
    BY <2>1, <2>2 DEF Save
<1>4. NoNewTx
  BY <1>1, FewerTx DEF StrandInv
<1>5. Waiting(worker[w]) => worker[w].pub \notin Doubtful'
  BY <1>3 DEF Waiting, Doubtful
<1>6. execs' \in Nat /\ execs <= execs'
  BY <1>1, PubTypes DEF PubsAreNumbers
<1>. QED
  BY <1>1, <1>3, <1>4, <1>5, <1>6, WorkerMoves DEF Adds

\* The chain executes the transaction of an addition or a sync: the key it adds is one that might
\* have been added, or one of the table.
LEMMA StrandExecutes ==
    ASSUME TypeOK, TableFollowsChain, SentInOrder, StrandInv, NEW t \in sent,
           t.status = "pending", chain' = After(t), sent' = Settled(t, "sealed"),
           UNCHANGED <<rows, worker, execs, cut>>
    PROVE  StrandInv'
<1> DEFINE x == [t EXCEPT !.status = "sealed"]
<1>1. t \in Tx /\ t.signer \in 1..Len(chain) /\ chain \in Seq(ChainKey) /\ Len(chain) \in Nat
      /\ DOMAIN chain = 1..Len(chain)
  BY DEF TypeOK, SentInOrder
<1>2. x.op = t.op /\ x.pub = t.pub /\ x.status = "sealed"
  BY <1>1 DEF Tx
<1> HIDE DEF x
<1>3. \A u \in sent' : (u \in sent /\ u # t) \/ u = x
  BY DEF Settled, x
<1>4. /\ chain' \in Seq(ChainKey) /\ DOMAIN chain' = 1..Len(chain')
      /\ Len(chain') = Len(chain) + Len(NewKeys(t)) /\ Len(NewKeys(t)) \in Nat
      /\ \A i \in 1..Len(chain) : chain'[i].pub = chain[i].pub
      /\ \A i \in Len(chain) + 1..Len(chain') : chain'[i].pub = t.pub
      /\ t.op = "add" => Len(NewKeys(t)) = 1
      /\ t.op \notin {"add", "sync"} => Len(NewKeys(t)) = 0
  <2>1. /\ After(t) \in Seq(ChainKey)
        /\ Len(After(t)) = Len(chain) + Len(NewKeys(t)) /\ Len(NewKeys(t)) \in Nat
        /\ \A i \in 1..Len(chain) : After(t)[i].pub = chain[i].pub
        /\ \A i \in Len(chain) + 1..Len(chain) + Len(NewKeys(t)) : After(t)[i].pub = t.pub
    BY <1>1, AfterKeys
  <2>2. /\ t.op = "add" => Len(NewKeys(t)) = 1
        /\ t.op \notin {"add", "sync"} => Len(NewKeys(t)) = 0
    BY <1>1, NewKeysAre
  <2>. QED
    BY <2>1, <2>2
<1>5. RowPubs' = RowPubs
  BY DEF RowPubs
<1>6. \A i \in Len(chain) + 1..Len(chain') : t.op \in {"add", "sync"}
  BY <1>1, <1>4
<1>7. /\ t.op = "sync" => t.pub \in RowPubs
      /\ \A pub \in RowPubs : OnChain(chain, pub)
  BY DEF StrandInv, OwnKeys, ClonesKnown, TableFollowsChain, RowPubs, OnChain
<1>8. \A pub : OnChain(chain', pub) => OnChain(chain, pub) \/ (pub = t.pub /\ t.op = "add")
  <2>. SUFFICES ASSUME NEW i \in 1..Len(chain')
                PROVE  OnChain(chain, chain'[i].pub) \/ (chain'[i].pub = t.pub /\ t.op = "add")
    BY <1>4 DEF OnChain
  <2>1. CASE i \in 1..Len(chain)
    BY <1>1, <1>4, <2>1 DEF OnChain
  <2>2. CASE i \in Len(chain) + 1..Len(chain')
    BY <1>4, <1>6, <1>7, <2>2
  <2>. QED
    BY <1>1, <1>4, <2>1, <2>2
<1>9. PubsAreNumbers
  BY PubTypes
<1>10. KeysAreNew'
  <2>1. ASSUME NEW i \in DOMAIN chain' PROVE chain'[i].pub <= execs
    <3>1. OnChain(chain', chain'[i].pub)
      BY DEF OnChain
    <3>2. OnChain(chain, chain'[i].pub) \/ (chain'[i].pub = t.pub /\ t.op = "add")
      BY <1>8, <3>1
    <3>. QED
      BY <3>2 DEF StrandInv, OwnKeys, KeysAreNew, OnChain
  <2>2. \A u \in sent' : u.op = "add" => u.pub <= execs
    BY <1>2, <1>3 DEF StrandInv, OwnKeys, KeysAreNew
  <2>. QED
    BY <2>1, <2>2 DEF StrandInv, OwnKeys, KeysAreNew
<1>11. KeysApart'
  BY <1>2, <1>3 DEF StrandInv, OwnKeys, KeysApart
<1>12. KeysUnused'
  <2>1. ASSUME NEW w \in Workers, Adds(worker[w]), Unsent(worker[w])
        PROVE  ~ OnChain(chain', worker[w].pub) /\ \A u \in sent' : u.op = "add" => u.pub # worker[w].pub
    <3>1. ~ OnChain(chain, worker[w].pub) /\ \A u \in sent : u.op = "add" => u.pub # worker[w].pub
      BY <2>1 DEF StrandInv, OwnKeys, KeysUnused
    <3>. QED
      BY <1>2, <1>3, <1>8, <3>1
  <2>2. ASSUME NEW u \in sent', u.op = "add", u.status # "sealed" PROVE ~ OnChain(chain', u.pub)
    <3>1. u \in sent /\ u # t
      BY <1>2, <1>3, <2>2
    <3>2. ~ OnChain(chain, u.pub) /\ ~ (u.pub = t.pub /\ t.op = "add")
      BY <2>2, <3>1 DEF StrandInv, OwnKeys, KeysUnused, KeysApart
    <3>. QED
      BY <1>8, <3>2
  <2>. QED
    BY <2>1, <2>2 DEF KeysUnused
<1>13. ClonesKnown'
  <2>1. ASSUME NEW i \in DOMAIN chain', NEW j \in DOMAIN chain', i # j, chain'[i].pub = chain'[j].pub
        PROVE  chain'[i].pub \in RowPubs
    <3>1. CASE i \in 1..Len(chain) /\ j \in 1..Len(chain)
      BY <1>1, <1>4, <2>1, <3>1 DEF StrandInv, OwnKeys, ClonesKnown
    <3>2. CASE t.op # "add" /\ (i \in Len(chain) + 1..Len(chain') \/ j \in Len(chain) + 1..Len(chain'))
      BY <1>4, <1>6, <1>7, <2>1, <3>2
    <3>3. ASSUME t.op = "add", NEW k \in 1..Len(chain), NEW l \in Len(chain) + 1..Len(chain'),
                 chain'[k].pub = chain'[l].pub
          PROVE  FALSE
      <4>1. chain[k].pub = t.pub
        BY <1>4, <3>3
      <4>2. ~ OnChain(chain, t.pub)
        BY <3>3 DEF StrandInv, OwnKeys, KeysUnused
      <4>. QED
        BY <1>1, <4>1, <4>2 DEF OnChain
    <3>4. t.op = "add" => i \in 1..Len(chain) \/ j \in 1..Len(chain)
      <4>1. t.op = "add" => Len(chain') = Len(chain) + 1 /\ i \in 1..Len(chain') /\ j \in 1..Len(chain')
        BY <1>4
      <4>. QED
        BY <1>1, <2>1, <4>1
    <3>5. i \in 1..Len(chain) \cup (Len(chain) + 1..Len(chain')) /\ j \in 1..Len(chain) \cup (Len(chain) + 1..Len(chain'))
      BY <1>1, <1>4
    <3>. QED
      BY <2>1, <3>1, <3>2, <3>3, <3>4, <3>5
  <2>2. \A u \in sent' : u.op = "sync" => u.pub \in RowPubs
    BY <1>2, <1>3, <1>7 DEF StrandInv, OwnKeys, ClonesKnown
  <2>. QED
    BY <1>5, <2>1, <2>2 DEF StrandInv, OwnKeys, ClonesKnown
<1>14. Doubtful' \subseteq Doubtful
  <2>1. ASSUME NEW pub \in Doubtful'
        PROVE  OnChain(chain, pub) \/ MayAdd(pub)
    <3>1. OnChain(chain', pub) \/ MayAdd(pub)'
      BY DEF Doubtful
    <3>2. MayAdd(pub)' => MayAdd(pub)
      BY <1>2, <1>3 DEF MayAdd
    <3>3. pub = t.pub /\ t.op = "add" => MayAdd(pub)
      BY DEF MayAdd
    <3>. QED
      BY <1>8, <3>1, <3>2, <3>3
  <2>. QED
    BY <1>5, <2>1 DEF Doubtful
<1>15. IsFiniteSet({}) /\ Cardinality({}) = 0
  BY FS_EmptySet
<1>16. cut' \in Nat /\ cut + 0 <= cut'
  BY DEF TypeOK
<1>17. LostAccounted'
  BY <1>5, <1>14, <1>15, <1>16, LostKept DEF StrandInv
<1>. QED
  BY <1>10, <1>11, <1>12, <1>13, <1>17 DEF StrandInv, OwnKeys

LEMMA StrandChain ==
    ASSUME TypeOK, TableFollowsChain, SentInOrder, StrandInv, NEW t \in sent, Execute(t) \/ Expire(t)
    PROVE  StrandInv'
<1>1. t.status = "pending" /\ UNCHANGED <<rows, worker, execs, cut>>
  BY DEF Execute, Expire
<1>2. CASE chain' = After(t) /\ sent' = Settled(t, "sealed")
  BY <1>1, <1>2, StrandExecutes
<1>3. CASE UNCHANGED chain /\ sent' = Settled(t, "failed")
  <2>1. NoNewTx
    BY <1>1, <1>3, FailedTx DEF StrandInv
  <2>2. RowPubs' = RowPubs
    BY <1>1 DEF RowPubs
  <2>3. NoNewAdd /\ \A w \in Workers : Intending(worker'[w]) /\ worker'[w].op = "sync" => worker'[w].pub \in RowPubs'
    BY <1>1, <2>2 DEF NoNewAdd, StrandInv, OwnKeys, ClonesKnown
  <2>4. execs' \in Nat /\ execs <= execs'
    BY <1>1, PubTypes DEF PubsAreNumbers
  <2>5. \A w \in Workers : Waiting(worker[w]) => Waiting(worker'[w]) /\ worker'[w].pub = worker[w].pub
    BY <1>1
  <2>. QED
    BY <1>1, <1>3, <2>1, <2>2, <2>3, <2>4, <2>5, StrandKept
<1>. QED
  BY <1>2, <1>3 DEF Execute, Expire

LEMMA StrandStep == IInv /\ StrandInv /\ [Next]_vars => StrandInv'
<1>. SUFFICES ASSUME IInv, StrandInv, [Next]_vars PROVE StrandInv'
  OBVIOUS
<1>. TypeOK /\ TableFollowsChain /\ HandsInOrder /\ SentInOrder
  BY DEF IInv
<1>1. CASE UNCHANGED vars \/ Waits
  <2>1. UNCHANGED <<chain, rows, sent, worker, execs, cut>>
    BY <1>1 DEF vars, Waits
  <2>2. RowPubs' = RowPubs /\ NoNewTx /\ NoNewAdd
    BY <2>1, FewerTx DEF RowPubs, NoNewAdd, StrandInv
  <2>3. execs' \in Nat /\ execs <= execs'
    BY <2>1, PubTypes DEF PubsAreNumbers
  <2>4. \A w \in Workers : Intending(worker'[w]) /\ worker'[w].op = "sync" => worker'[w].pub \in RowPubs'
    BY <2>1, <2>2 DEF StrandInv, OwnKeys, ClonesKnown
  <2>. QED
    BY <2>1, <2>2, <2>3, <2>4, StrandKept
<1>2. ASSUME NEW w \in Workers,
             AddRead(w) \/ RevokeRead(w) \/ SyncReadChain(w) \/ SyncReadRows(w) \/ SendRead(w)
      PROVE  StrandInv'
  BY <1>2, StrandAdds, StrandReads
<1>3. execs \in Nat /\ execs + 1 \in Nat /\ execs <= execs + 1 /\ execs <= execs
  BY PubTypes DEF PubsAreNumbers
<1>4. ASSUME NEW w \in Workers, PanicNoKeys(w) PROVE StrandInv'
  BY <1>3, <1>4, StrandDies DEF PanicNoKeys
<1>5. CASE Crash
  BY <1>3, <1>5, StrandDies DEF Crash
<1>6. ASSUME NEW w \in Workers, PickKey(w) \/ Sign(w) \/ Send(w) PROVE StrandInv'
  BY <1>6, StrandPicks, StrandSends
<1>7. ASSUME NEW w \in Workers, Rejected(w) \/ TxFails(w) \/ ResultLost(w) \/ SaveFails(w) PROVE StrandInv'
  BY <1>7, StrandStops
<1>8. ASSUME NEW w \in Workers, Sealed(w) \/ Save(w) PROVE StrandInv'
  BY <1>8, StrandSeals, StrandSaves
<1>9. ASSUME NEW t \in sent, Execute(t) \/ Expire(t) PROVE StrandInv'
  BY <1>9, StrandChain
<1>. QED
  BY <1>1, <1>2, <1>4, <1>5, <1>6, <1>7, <1>8, <1>9 DEF Next

\* Stranded keys are told apart by their key pairs, each of which is lost or still in a worker's hands.
LEMMA StrandBound == TypeOK /\ StrandInv => StrandedAccounted
<1>. SUFFICES ASSUME TypeOK, StrandInv PROVE StrandedAccounted
  OBVIOUS
<1> DEFINE stranded == {i \in DOMAIN chain : \A r \in DOMAIN rows : rows[r].pub # chain[i].pub}
           adding == {w \in Workers : worker[w].pc \in {"wait", "save"} /\ worker[w].op = "add"}
           hands == {worker[w].pub : w \in adding}
           f == [i \in stranded |-> chain[i].pub]
<1>1. IsFiniteSet(Pubs) /\ Lost \subseteq Pubs /\ \A i \in DOMAIN chain : chain[i].pub \in Pubs
  <2>1. 0 \in Int /\ MaxExec \in Int
    BY ConstantsOK
  <2>2. IsFiniteSet(0..MaxExec)
    BY <2>1, FS_Interval, Zenon
  <2>3. \A i \in DOMAIN chain : chain[i] \in ChainKey
    BY ElementOfSeq DEF TypeOK
  <2>. QED
    BY <2>2, <2>3 DEF Pubs, Lost, Doubtful, ChainKey
<1>2. IsFiniteSet(adding)
  BY ConstantsOK, FS_Subset
<1>3. IsFiniteSet(hands) /\ Cardinality(hands) <= Cardinality(adding)
  <2> DEFINE g == [w \in adding |-> worker[w].pub]
  <2>1. g \in Surjection(adding, hands)
    BY DEF Surjection
  <2>. QED
    BY <1>2, <2>1, FS_Surjection
<1>4. IsFiniteSet(Lost)
  BY <1>1, FS_Subset
<1>5. IsFiniteSet(Lost \cup hands)
      /\ Cardinality(Lost \cup hands) = Cardinality(Lost) + Cardinality(hands) - Cardinality(Lost \cap hands)
  BY <1>3, <1>4, FS_Union
<1>6. Cardinality(Lost) \in Nat /\ Cardinality(hands) \in Nat /\ Cardinality(Lost \cap hands) \in Nat
      /\ Cardinality(adding) \in Nat
  BY <1>2, <1>3, <1>4, FS_Subset, FS_CardinalityType
<1>7. f \in Injection(stranded, Lost \cup hands)
  <2>1. ASSUME NEW i \in stranded PROVE f[i] \in Lost \cup hands
    <3>1. chain[i].pub \in Doubtful
      BY <1>1 DEF Doubtful, RowPubs, OnChain
    <3>. QED
      BY <3>1 DEF Lost, Waiting
  <2>2. ASSUME NEW i \in stranded, NEW j \in stranded, f[i] = f[j] PROVE i = j
    <3>1. chain[i].pub = chain[j].pub /\ chain[i].pub \notin RowPubs
      BY <2>2 DEF RowPubs
    <3>. QED
      BY <3>1 DEF StrandInv, OwnKeys, ClonesKnown
  <2> HIDE DEF stranded, hands
  <2>. QED
    BY <2>1, <2>2 DEF Injection, IsInjective
<1>8. IsFiniteSet(stranded) /\ Cardinality(stranded) <= Cardinality(Lost \cup hands)
  <2> HIDE DEF stranded, hands, f
  <2>. QED
    BY <1>5, <1>7, FS_Injection
<1>9. Cardinality(stranded) \in Nat
  BY <1>8, FS_CardinalityType
<1> HIDE DEF stranded, hands, adding
<1>10. Cardinality(stranded) <= cut + Cardinality(adding)
  BY <1>3, <1>5, <1>6, <1>8, <1>9 DEF StrandInv, LostAccounted, TypeOK
<1>. QED
  BY <1>10 DEF StrandedAccounted, Adding, stranded, adding

\* Retries and overlapping jobs strand no keys but those of additions that were cut off.
THEOREM StrandedKeysAccounted == Spec => []StrandedAccounted
<1>1. Init => StrandInv
  BY StrandInit
<1>2. IInv /\ StrandInv /\ [Next]_vars => StrandInv'
  BY StrandStep
<1>3. IInv /\ StrandInv => StrandedAccounted
  BY StrandBound DEF IInv
<1>. QED
  BY Inductive, <1>1, <1>2, <1>3, PTL DEF Spec

-----------------------------------------------------------------------------
(* Table and chain agree.  While jobs run one at a time, the two differ only between the execution  *)
(* of a transaction and the change of the table after it, and only by what that job was to change.  *)

HasRow(i) == \E r \in Live : rows[r].index = i /\ rows[r].pub = chain[i].pub
OneRowEach == \A q, r \in Live : rows[q].index = rows[r].index => q = r

Consistent ==
    /\ OneRowEach
    /\ \E r \in Live : TRUE
    /\ \A r \in Live : Usable(r)
    /\ \A i \in DOMAIN chain : ~ chain[i].revoked => HasRow(i)

Extends(e) == e.op \in {"add", "sync"}
NewIndices(e) == e.index..e.index + (IF e.op = "add" THEN 1 ELSE e.count) - 1

\* What was read still fits: the keys will come right behind the last, and a row other than the one
\* whose key is revoked remains.
Fits(e) ==
    /\ Extends(e) => e.index = Len(chain) + 1
    /\ e.op = "revoke" => e.row \in Live /\ \E r \in Live : r # e.row

\* The chain has done what e asked for, and the table has not followed yet.
AheadByKeys(e) ==
    /\ OneRowEach
    /\ \E r \in Live : TRUE
    /\ \A r \in Live : Usable(r) /\ rows[r].index < e.index
    /\ \A i \in NewIndices(e) : i \in DOMAIN chain /\ ~ chain[i].revoked /\ chain[i].pub = e.pub
    /\ \A i \in DOMAIN chain : ~ chain[i].revoked => HasRow(i) \/ i \in NewIndices(e)

AheadByRevocation(e) ==
    /\ OneRowEach
    /\ e.row \in Live /\ \E r \in Live : r # e.row
    /\ \A r \in Live : Usable(r) \/ r = e.row
    /\ \A i \in DOMAIN chain : ~ chain[i].revoked => HasRow(i)

Ahead(e) ==
    /\ Extends(e) => AheadByKeys(e)
    /\ e.op = "revoke" => AheadByRevocation(e)
    /\ e.op = "send" => Consistent

Executed(w) == worker[w].pc = "save" \/ \E t \in sent : t.owner = w /\ t.status = "sealed"

Going(w) ==
    IF Executed(w) THEN Ahead(worker[w])
    ELSE Consistent /\ (Intending(worker[w]) => Fits(worker[w]))

OneAtATime ==
    /\ \A v, w \in Busy : v = w
    /\ \A t, u \in sent : t = u
    /\ \A t \in sent : t.owner \in Workers

Agreement ==
    /\ OneAtATime
    /\ Busy = {} => Consistent
    /\ \A w \in Busy : Going(w)

AgreeInv == smooth /\ aligned => Agreement

LEMMA AgreeInit == Init => AgreeInv
<1>. SUFFICES ASSUME Init PROVE Agreement
  BY DEF AgreeInv
<1>1. InitKeys \in Nat \ {0} /\ DOMAIN chain = 1..InitKeys /\ DOMAIN rows = 1..InitKeys
  BY ConstantsOK DEF Init
<1>2. \A i \in 1..InitKeys : /\ chain[i].pub = 0 /\ ~ chain[i].revoked
                             /\ rows[i].index = i /\ rows[i].pub = 0 /\ rows[i].live
  BY DEF Init
<1>3. Live = 1..InitKeys /\ 1 \in Live
  BY <1>1, <1>2 DEF Live
<1>4. Consistent
  BY <1>1, <1>2, <1>3 DEF Consistent, OneRowEach, Usable, HasRow
<1>5. Busy = {} /\ sent = {}
  BY DEF Init, Busy, NoExecution
<1>. QED
  BY <1>4, <1>5 DEF Agreement, OneAtATime

\* The chain stays, and the table in what it says of the keys.
LEMMA SameTable ==
    ASSUME UNCHANGED chain, DOMAIN rows' = DOMAIN rows,
           \A r \in DOMAIN rows : rows'[r].index = rows[r].index /\ rows'[r].pub = rows[r].pub
                                  /\ rows'[r].live = rows[r].live
    PROVE  /\ Consistent => Consistent'
           /\ \A e : (Ahead(e) => Ahead(e)') /\ (Fits(e) => Fits(e)')
<1>1. Live' = Live /\ Live \subseteq DOMAIN rows
  BY DEF Live
<1>2. OneRowEach => OneRowEach'
  BY <1>1 DEF OneRowEach
<1>3. \A r \in Live : Usable(r) => Usable(r)'
  BY <1>1 DEF Usable
<1>4. \A i : HasRow(i) => HasRow(i)'
  BY <1>1 DEF HasRow
<1>5. Consistent => Consistent'
  BY <1>1, <1>2, <1>3, <1>4 DEF Consistent
<1>6. ASSUME NEW e PROVE AheadByKeys(e) => AheadByKeys(e)'
  BY <1>1, <1>2, <1>3, <1>4 DEF AheadByKeys
<1>7. ASSUME NEW e PROVE AheadByRevocation(e) => AheadByRevocation(e)'
  BY <1>1, <1>2, <1>3, <1>4 DEF AheadByRevocation
<1>8. ASSUME NEW e PROVE Fits(e) => Fits(e)'
  BY <1>1 DEF Fits
<1>. QED
  BY <1>5, <1>6, <1>7, <1>8 DEF Ahead

\* What the others do while one is busy, and while nobody is: nothing.
LEMMA OthersRest ==
    ASSUME SentInOrder, OneAtATime, NEW w \in Workers, Busy \subseteq {w}
    PROVE  /\ \A v \in Workers : v # w => worker[v].pc = "idle"
           /\ \A t \in sent : t.owner = w /\ Awaited(t, worker[w])
           /\ worker[w].pc # "wait" => sent = {}
<1>1. \A v \in Workers : v # w => worker[v].pc = "idle"
  BY DEF Busy
<1>2. \A t \in sent : t.owner = w /\ Awaited(t, worker[w])
  BY <1>1 DEF SentInOrder, OneAtATime, Awaited
<1>. QED
  BY <1>1, <1>2 DEF Awaited

LEMMA OneIsBusy ==
    ASSUME OneAtATime, NEW w \in Workers, worker[w].pc # "idle"
    PROVE  w \in Busy /\ Busy \subseteq {w}
BY DEF OneAtATime, Busy

\* One worker goes on with e while the others rest.
LEMMA HandGoesOn ==
    ASSUME TypeOK, NEW w \in Workers, \A v \in Workers : v # w => worker[v].pc = "idle",
           NEW e, worker' = [worker EXCEPT ![w] = e],
           \A t, u \in sent' : t.owner = w /\ t = u,
           e.pc = "idle" => Consistent',
           e.pc # "idle" =>
               IF e.pc = "save" \/ \E t \in sent' : t.status = "sealed" THEN Ahead(e)'
               ELSE Consistent' /\ (Intending(e) => Fits(e)')
    PROVE  Agreement'
<1>1. \A v \in Workers : worker'[v] = IF v = w THEN e ELSE worker[v]
  BY DEF TypeOK
<1>2. Busy' = IF e.pc = "idle" THEN {} ELSE {w}
  BY <1>1 DEF Busy
<1>3. OneAtATime'
  BY <1>2 DEF OneAtATime
<1>4. Busy' = {} => Consistent'
  BY <1>2
<1>5. ASSUME w \in Busy' PROVE Going(w)'
  <2>1. worker'[w] = e /\ e.pc # "idle"
    BY <1>1, <1>2, <1>5
  <2>2. Executed(w)' <=> e.pc = "save" \/ \E t \in sent' : t.status = "sealed"
    BY <2>1 DEF Executed
  <2>3. Executed(w)' => Ahead(worker[w])'
    BY <2>1, <2>2 DEF Ahead, AheadByKeys, AheadByRevocation, NewIndices, Extends
  <2>4. ~ Executed(w)' => Consistent' /\ (Intending(worker'[w]) => Fits(worker[w])')
    BY <2>1, <2>2 DEF Fits, Extends
  <2>. QED
    BY <2>3, <2>4 DEF Going
<1>. QED
  BY <1>2, <1>3, <1>4, <1>5 DEF Agreement

\* A worker that has nothing on chain yet goes on, as it was, or with what it has just read.
LEMMA HandIsEarly ==
    ASSUME TypeOK, NEW w \in Workers, \A v \in Workers : v # w => worker[v].pc = "idle",
           NEW e, worker' = [worker EXCEPT ![w] = e], e.pc # "save",
           \A t, u \in sent' : t.owner = w /\ t.status # "sealed" /\ t = u,
           Consistent, Intending(e) => Fits(e),
           UNCHANGED chain, DOMAIN rows' = DOMAIN rows,
           \A r \in DOMAIN rows : rows'[r].index = rows[r].index /\ rows'[r].pub = rows[r].pub
                                  /\ rows'[r].live = rows[r].live
    PROVE  Agreement'
<1>1. Consistent' /\ (Fits(e) => Fits(e)')
  BY SameTable
<1>2. ~ \E t \in sent' : t.status = "sealed"
  OBVIOUS
<1>. QED
  BY <1>1, <1>2, HandGoesOn

\* Of a worker that has not sent anything, all that is known is that table and chain agree.
LEMMA NotSent ==
    ASSUME SentInOrder, Agreement, NEW w \in Workers, Busy \subseteq {w}, worker[w].pc \notin {"wait", "save"}
    PROVE  /\ \A v \in Workers : v # w => worker[v].pc = "idle"
           /\ sent = {} /\ Consistent
           /\ Intending(worker[w]) /\ worker[w].pc # "idle" => Fits(worker[w])
<1>1. (\A v \in Workers : v # w => worker[v].pc = "idle") /\ sent = {}
  BY OthersRest DEF Agreement
<1>2. ~ Executed(w)
  BY <1>1 DEF Executed
<1>3. CASE Busy = {}
  BY <1>1, <1>3 DEF Agreement, Busy
<1>4. CASE w \in Busy
  BY <1>1, <1>2, <1>4 DEF Agreement, Going
<1>. QED
  BY <1>1, <1>3, <1>4

\* An index read while the worker is alone is the one the chain will give, and a key is revoked
\* only if another row is left.
LEMMA AgreeReads ==
    ASSUME TypeOK, SentInOrder, AgreeInv, NEW w \in Workers, smooth' /\ aligned',
           AddRead(w) \/ RevokeRead(w) \/ SyncReadChain(w) \/ SyncReadRows(w) \/ SendRead(w)
    PROVE  Agreement'
<1>1. smooth /\ aligned /\ UNCHANGED <<chain, rows, sent>> /\ worker[w].pc \in {"idle", "seen"}
      /\ (worker[w].pc = "idle" => Busy = {})
  BY DEF AddRead, RevokeRead, SyncReadChain, SyncReadRows, SendRead, Begin
<1>2. Agreement /\ Busy \subseteq {w}
  BY <1>1, OneIsBusy DEF AgreeInv, Agreement
<1>3. (\A v \in Workers : v # w => worker[v].pc = "idle") /\ sent = {} /\ Consistent
  BY <1>1, <1>2, NotSent
<1>4. PICK e : worker' = [worker EXCEPT ![w] = e] /\ e.pc # "save" /\ (Intending(e) => Fits(e))
  <2>1. CASE AddRead(w)
    <3> DEFINE a == [NoExecution EXCEPT !.pc = "pick", !.op = "add", !.index = NextIndex, !.pub = execs + 1]
    <3>1. a.pc = "pick" /\ a.op = "add" /\ a.index = Len(chain) + 1
      BY DEF NoExecution, NextIndex
    <3> HIDE DEF a
    <3>2. worker' = [worker EXCEPT ![w] = a]
      BY <2>1 DEF a, AddRead
    <3>3. Fits(a)
      BY <3>1 DEF Fits, Extends
    <3>. QED
      BY <3>1, <3>2, <3>3
  <2>2. CASE RevokeRead(w)
    <3>1. PICK r \in Live : worker' = [worker EXCEPT ![w] =
             [NoExecution EXCEPT !.pc = "pick", !.op = "revoke", !.index = rows[r].index, !.row = r]]
      BY <2>2 DEF RevokeRead
    <3> DEFINE a == [NoExecution EXCEPT !.pc = "pick", !.op = "revoke", !.index = rows[r].index, !.row = r]
    <3>2. a.pc = "pick" /\ a.op = "revoke" /\ a.row = r
      BY DEF NoExecution
    <3> HIDE DEF a
    <3>3. worker' = [worker EXCEPT ![w] = a]
      BY <3>1 DEF a
    <3>4. \E q \in Live : q # r
      <4>1. ASSUME \A q \in Live : q = r PROVE FALSE
        <5>1. Live = {r}
          BY <4>1
        <5>. QED
          BY <2>2, <5>1, FS_Singleton DEF RevokeRead
      <4>. QED
        BY <4>1
    <3>5. Fits(a)
      BY <3>2, <3>4 DEF Fits, Extends
    <3>. QED
      BY <3>2, <3>3, <3>5
  <2>3. CASE SyncReadChain(w) \/ SendRead(w)
    <3> DEFINE b == [NoExecution EXCEPT !.pc = "seen", !.op = "sync", !.seen = chain]
               c == [NoExecution EXCEPT !.pc = "pick", !.op = "send"]
    <3>1. b.pc = "seen" /\ c.pc = "pick" /\ c.op = "send"
      BY DEF NoExecution
    <3> HIDE DEF b, c
    <3>2. \E e \in {b, c} : worker' = [worker EXCEPT ![w] = e]
      BY <2>3 DEF b, c, SyncReadChain, SendRead
    <3>. QED
      BY <3>1, <3>2 DEF Intending, Fits, Extends
  <2>4. CASE SyncReadRows(w)
    <3>1. PICK last, pub, count :
            \/ worker' = Ended(w)
            \/ /\ rows[last].index = Len(chain)
               /\ worker' = [worker EXCEPT ![w] =
                    [NoExecution EXCEPT !.pc = "pick", !.op = "sync", !.index = rows[last].index + 1,
                                        !.pub = pub, !.count = count]]
      BY <2>4 DEF SyncReadRows
    <3> DEFINE a == [NoExecution EXCEPT !.pc = "pick", !.op = "sync", !.index = rows[last].index + 1,
                                        !.pub = pub, !.count = count]
    <3>2. a.pc = "pick" /\ a.op = "sync" /\ a.index = rows[last].index + 1 /\ NoExecution.pc = "idle"
      BY DEF NoExecution
    <3> HIDE DEF a
    <3>3. \/ worker' = [worker EXCEPT ![w] = NoExecution]
          \/ rows[last].index = Len(chain) /\ worker' = [worker EXCEPT ![w] = a]
      BY <3>1 DEF a, Ended
    <3>4. rows[last].index = Len(chain) => Fits(a)
      BY <3>2 DEF Fits, Extends
    <3>. QED
      BY <3>2, <3>3, <3>4 DEF Intending
  <2>. QED
    BY <2>1, <2>2, <2>3, <2>4
<1>. QED
  BY <1>1, <1>3, <1>4, HandIsEarly

LEMMA AgreePicks ==
    ASSUME TypeOK, SentInOrder, AgreeInv, NEW w \in Workers, smooth' /\ aligned', PickKey(w) \/ Sign(w) \/ Send(w)
    PROVE  Agreement'
<1>1. smooth /\ aligned /\ UNCHANGED chain /\ worker[w].pc \in {"pick", "sign", "send"}
  BY DEF PickKey, Sign, Send
<1>2. Agreement /\ Busy \subseteq {w}
  BY <1>1, OneIsBusy DEF AgreeInv, Agreement
<1>3. (\A v \in Workers : v # w => worker[v].pc = "idle") /\ sent = {} /\ Consistent /\ Fits(worker[w])
  BY <1>1, <1>2, NotSent DEF Intending
<1>4. worker[w] \in Execution /\ worker \in [Workers -> Execution]
  BY DEF TypeOK
<1>5. PICK e : /\ worker' = [worker EXCEPT ![w] = e] /\ e.pc \in {"sign", "send", "wait"}
               /\ e.op = worker[w].op /\ e.index = worker[w].index /\ e.row = worker[w].row
  <2>1. CASE PickKey(w)
    <3>1. PICK r : worker' = [worker EXCEPT ![w].pc = "sign", ![w].key = r, ![w].at = clock + 1]
      BY <2>1 DEF PickKey
    <3> DEFINE a == [worker[w] EXCEPT !.pc = "sign", !.key = r, !.at = clock + 1]
    <3>2. a.pc = "sign" /\ a.op = worker[w].op /\ a.index = worker[w].index /\ a.row = worker[w].row
      BY <1>4 DEF Execution
    <3>3. worker' = [worker EXCEPT ![w] = a]
      BY <1>4, <3>1
    <3>. QED
      BY <3>2, <3>3
  <2>2. CASE Sign(w)
    <3> DEFINE n == chain[rows[worker[w].key].index].seq
               a == [worker[w] EXCEPT !.pc = "send", !.seq = n]
    <3>1. worker' = [worker EXCEPT ![w] = a]
      BY <1>4, <2>2 DEF Sign
    <3> HIDE DEF n
    <3>2. a.pc = "send" /\ a.op = worker[w].op /\ a.index = worker[w].index /\ a.row = worker[w].row
      BY <1>4 DEF Execution
    <3>. QED
      BY <3>1, <3>2
  <2>3. CASE Send(w)
    <3> DEFINE a == [worker[w] EXCEPT !.pc = "wait"]
    <3>1. a.pc = "wait" /\ a.op = worker[w].op /\ a.index = worker[w].index /\ a.row = worker[w].row
      BY <1>4 DEF Execution
    <3>2. worker' = [worker EXCEPT ![w] = a]
      BY <1>4, <2>3 DEF Send
    <3>. QED
      BY <3>1, <3>2
  <2>. QED
    BY <2>1, <2>2, <2>3
<1>6. Fits(e)
  BY <1>3, <1>5 DEF Fits, Extends
<1>7. \A t, u \in sent' : t.owner = w /\ t.status # "sealed" /\ t = u
  <2>1. \A t \in sent' : t = Transaction(w)
    BY <1>3 DEF PickKey, Sign, Send
  <2>2. Transaction(w).owner = w /\ Transaction(w).status = "pending"
    BY DEF Transaction
  <2>. QED
    BY <2>1, <2>2
<1>8. /\ DOMAIN rows' = DOMAIN rows
      /\ \A r \in DOMAIN rows : rows'[r].index = rows[r].index /\ rows'[r].pub = rows[r].pub
                                /\ rows'[r].live = rows[r].live
  <2>1. CASE PickKey(w)
    <3>1. PICK r \in Live : rows' = [rows EXCEPT ![r].used = clock + 1]
      BY <2>1 DEF PickKey
    <3>2. r \in DOMAIN rows /\ rows' = [rows EXCEPT ![r] = [rows[r] EXCEPT !.used = clock + 1]]
      BY <3>1 DEF Live
    <3> DEFINE a == [rows[r] EXCEPT !.used = clock + 1]
    <3>3. a.index = rows[r].index /\ a.pub = rows[r].pub /\ a.live = rows[r].live
      BY <3>2, RowType DEF Row
    <3> HIDE DEF a
    <3>4. rows' = [rows EXCEPT ![r] = a]
      BY <3>2 DEF a
    <3>. QED
      BY <3>2, <3>3, <3>4
  <2>2. CASE UNCHANGED rows
    BY <2>2
  <2>. QED
    BY <2>1, <2>2 DEF Sign, Send
<1>. QED
  BY <1>1, <1>3, <1>5, <1>6, <1>7, <1>8, HandIsEarly

\* An execution that fails has changed nothing.
LEMMA AgreeFails ==
    ASSUME TypeOK, SentInOrder, AgreeInv, NEW w \in Workers, smooth' /\ aligned',
           Rejected(w) \/ TxFails(w) \/ ResultLost(w) \/ SaveFails(w)
    PROVE  Agreement'
<1>1. (Rejected(w) \/ TxFails(w)) /\ Fail(w) /\ UNCHANGED <<chain, rows, smooth, aligned>>
  BY DEF Rejected, TxFails, ResultLost, SaveFails, ProcessDies, CutOff
<1>2. Agreement /\ smooth /\ aligned
  BY <1>1 DEF AgreeInv
<1>3. worker' = [worker EXCEPT ![w] = NoExecution] /\ NoExecution.pc = "idle"
  BY <1>1 DEF Fail, Ended, NoExecution
<1>4. (\A v \in Workers : v # w => worker[v].pc = "idle") /\ Consistent /\ sent' = {}
  <2>1. CASE Rejected(w)
    <3>1. worker[w].pc \in {"pick", "sign", "send"}
      BY <2>1 DEF Rejected
    <3>2. Busy \subseteq {w}
      BY <1>2, <3>1, OneIsBusy DEF Agreement
    <3>3. (\A v \in Workers : v # w => worker[v].pc = "idle") /\ Consistent /\ sent = {}
      BY <1>2, <3>1, <3>2, NotSent
    <3>. QED
      BY <1>1, <3>3 DEF Fail, Abandoned
  <2>2. CASE TxFails(w)
    <3>1. PICK t \in sent : t.owner = w /\ t.status = "failed"
      BY <2>2 DEF TxFails
    <3>2. worker[w].pc = "wait"
      BY <3>1 DEF SentInOrder, Awaited
    <3>3. w \in Busy /\ Busy \subseteq {w}
      BY <1>2, <3>2, OneIsBusy DEF Agreement
    <3>4. \A v \in Workers : v # w => worker[v].pc = "idle"
      BY <1>2, <3>3, OthersRest DEF Agreement
    <3>5. sent = {t}
      BY <1>2, <3>1 DEF Agreement, OneAtATime
    <3>6. sent' = {}
      BY <1>1, <3>1, <3>5 DEF Fail, Abandoned
    <3>7. ~ Executed(w)
      BY <3>1, <3>2, <3>5 DEF Executed
    <3>. QED
      BY <1>2, <3>3, <3>4, <3>6, <3>7 DEF Agreement, Going
  <2>. QED
    BY <1>1, <2>1, <2>2
<1>. QED
  BY <1>1, <1>3, <1>4, HandIsEarly DEF Intending

LEMMA AgreeSeals ==
    ASSUME TypeOK, SentInOrder, AgreeInv, NEW w \in Workers, smooth' /\ aligned', Sealed(w)
    PROVE  Agreement'
<1>1. smooth /\ aligned /\ UNCHANGED <<chain, rows>>
  BY DEF Sealed
<1>2. Agreement
  BY <1>1 DEF AgreeInv
<1>3. PICK t \in sent : t.owner = w /\ t.status = "sealed"
  BY DEF Sealed
<1>4. worker[w].pc = "wait"
  BY <1>3 DEF SentInOrder, Awaited
<1>5. w \in Busy /\ Busy \subseteq {w}
  BY <1>2, <1>4, OneIsBusy DEF Agreement
<1>6. (\A v \in Workers : v # w => worker[v].pc = "idle") /\ \A u \in sent : u.owner = w
  BY <1>2, <1>5, OthersRest DEF Agreement
<1>7. sent' = {}
  BY <1>6 DEF Sealed
<1>8. Ahead(worker[w])
  BY <1>2, <1>3, <1>5 DEF Agreement, Going, Executed
<1>9. /\ Consistent => Consistent'
      /\ \A e : (Ahead(e) => Ahead(e)')
  BY <1>1, SameTable
<1>10. CASE worker[w].op = "send"
  <2>1. worker' = [worker EXCEPT ![w] = NoExecution] /\ NoExecution.pc = "idle"
    BY <1>10 DEF Sealed, Ended, NoExecution
  <2>2. Consistent'
    BY <1>8, <1>9, <1>10 DEF Ahead
  <2>. QED
    BY <1>6, <1>7, <2>1, <2>2, HandGoesOn
<1>11. CASE worker[w].op # "send"
  <2>1. PICK e : e = [worker[w] EXCEPT !.pc = "save"]
    OBVIOUS
  <2>2. worker' = [worker EXCEPT ![w] = e]
    BY <1>11, <2>1 DEF Sealed, TypeOK
  <2>3. /\ e.pc = "save" /\ e.op = worker[w].op /\ e.index = worker[w].index /\ e.row = worker[w].row
        /\ e.pub = worker[w].pub /\ e.count = worker[w].count
    BY <2>1 DEF TypeOK, Execution
  <2>4. Ahead(e)
    BY <1>8, <2>3 DEF Ahead, AheadByKeys, AheadByRevocation, NewIndices, Extends
  <2>5. Ahead(e)'
    BY <1>9, <2>4
  <2>. QED
    BY <1>6, <1>7, <2>2, <2>3, <2>5, HandGoesOn
<1>. QED
  BY <1>10, <1>11

\* Every index an execution was to store is stored in some row.
LEMMA StoredAt ==
    ASSUME NEW stored \in Nat, NEW added \in Nat, NEW first \in Nat, NEW i \in first..first + added - 1
    PROVE  \E k \in stored + 1..stored + added : first + (k - stored) - 1 = i
<1>1. stored + (i - first) + 1 \in stored + 1..stored + added
  OBVIOUS
<1>2. first + ((stored + (i - first) + 1) - stored) - 1 = i
  OBVIOUS
<1>. QED
  BY <1>1, <1>2

\* The table, with what the chain has already done, agrees with the chain.
LEMMA SaveCatchesUp ==
    ASSUME TypeOK, TableFollowsChain, NEW w \in Workers, Intends(chain, rows, worker[w]),
           Done(chain, worker[w]), Ahead(worker[w]), InsertKeys(w) \/ DeleteKey(w), UNCHANGED chain
    PROVE  Consistent'
<1> DEFINE e == worker[w]
<1>1. rows \in Seq(Row) /\ DOMAIN rows = 1..Len(rows) /\ Len(rows) \in Nat
  BY DEF TypeOK
<1>2. Live \subseteq DOMAIN rows /\ \A r \in Live : rows[r].live
  BY DEF Live
<1>3. CASE InsertKeys(w)
  <2> DEFINE n == IF e.op = "add" THEN 1 ELSE e.count
             new == Len(rows) + 1..Len(rows) + n
  <2>1. /\ n \in Nat /\ rows' \in Seq(Row) /\ Len(rows') = Len(rows) + n
        /\ \A i \in 1..Len(rows) : rows'[i] = rows[i]
        /\ \A i \in new : rows'[i] = NewRow(e.index + (i - Len(rows)) - 1, e.pub)
    BY <1>3, InsertIs, Zenon
  <2>2. Extends(e) /\ NewIndices(e) = e.index..e.index + n - 1 /\ e.index \in Nat /\ e.pub \in Pubs
    BY <1>3 DEF InsertKeys, Extends, NewIndices, TypeOK, Execution
  <2>3. AheadByKeys(e)
    BY <2>2 DEF Ahead
  <2> HIDE DEF n, e
  <2>4. \A index, pub : /\ NewRow(index, pub).index = index /\ NewRow(index, pub).pub = pub
                        /\ NewRow(index, pub).live
    BY DEF NewRow
  <2>5. \A i \in new : /\ rows'[i].index = e.index + (i - Len(rows)) - 1 /\ rows'[i].pub = e.pub
                       /\ rows'[i].live
    BY <2>1, <2>4
  <2>6. DOMAIN rows' = 1..Len(rows) + n
    BY <2>1
  <2>7. Live' = Live \cup new
    <3>1. 1..Len(rows) + n = 1..Len(rows) \cup new
      BY <1>1, <2>1
    <3> HIDE DEF new
    <3>. QED
      BY <1>1, <2>1, <2>5, <2>6, <3>1 DEF Live
  <2>8. \A r \in Live : rows'[r] = rows[r]
    BY <1>1, <1>2, <2>1
  <2>9. \A i \in new : rows'[i].index \in NewIndices(e) /\ rows'[i].index >= e.index
    BY <1>1, <2>1, <2>2, <2>5
  <2>10. \A r \in Live : rows[r].index \in Nat
    BY <1>2, RowType DEF Row
  <2>11. \A r \in Live, i \in new : rows'[r].index # rows'[i].index
    <3>1. \A r \in Live, i \in new :
            /\ rows[r].index \in Nat /\ rows[r].index < e.index /\ rows'[i].index >= e.index
            /\ rows'[i].index \in Int
      BY <1>1, <2>1, <2>2, <2>3, <2>5, <2>9, <2>10 DEF AheadByKeys
    <3>2. \A a, b, c \in Int : a < b /\ c >= b => a # c
      OBVIOUS
    <3>. QED
      BY <2>2, <2>8, <3>1
  <2>12. OneRowEach'
    <3>1. \A i, j \in new : rows'[i].index = rows'[j].index => i = j
      BY <1>1, <2>1, <2>2, <2>5
    <3>2. \A q, r \in Live : rows'[q].index = rows'[r].index => q = r
      BY <2>3, <2>8 DEF AheadByKeys, OneRowEach
    <3> HIDE DEF new
    <3>. QED
      BY <2>7, <2>11, <3>1, <3>2 DEF OneRowEach
  <2>13. \A r \in Live' : Usable(r)'
    <3>1. ASSUME NEW r \in Live PROVE Usable(r)'
      BY <2>3, <2>8 DEF AheadByKeys, Usable
    <3>2. ASSUME NEW r \in new PROVE Usable(r)'
      <4>1. ~ chain[rows'[r].index].revoked /\ chain[rows'[r].index].pub = e.pub
        BY <2>3, <2>9 DEF AheadByKeys
      <4>2. rows'[r].pub = e.pub
        BY <2>5
      <4>. QED
        BY <4>1, <4>2 DEF Usable
    <3> HIDE DEF new
    <3>. QED
      BY <2>7, <3>1, <3>2
  <2>14. ASSUME NEW i \in DOMAIN chain, ~ chain[i].revoked PROVE HasRow(i)'
    <3>1. CASE HasRow(i)
      <4>1. PICK r \in Live : rows[r].index = i /\ rows[r].pub = chain[i].pub
        BY <3>1 DEF HasRow
      <4>. QED
        BY <2>7, <2>8, <4>1 DEF HasRow
    <3>2. CASE i \in NewIndices(e)
      <4>1. i \in e.index..e.index + n - 1 /\ chain[i].pub = e.pub
        BY <2>2, <2>3, <3>2 DEF AheadByKeys
      <4>2. PICK k \in new : e.index + (k - Len(rows)) - 1 = i
        <5>1. Len(rows) \in Nat /\ n \in Nat /\ e.index \in Nat /\ i \in e.index..e.index + n - 1
          BY <1>1, <2>1, <2>2, <4>1
        <5>. QED
          BY <5>1, StoredAt
      <4>3. rows'[k].index = i /\ rows'[k].pub = chain[i].pub
        BY <2>5, <4>1, <4>2
      <4>. QED
        BY <2>7, <4>2, <4>3 DEF HasRow
    <3>. QED
      BY <2>3, <2>14, <3>1, <3>2 DEF AheadByKeys
  <2>15. \E r \in Live' : TRUE
    BY <2>3, <2>7 DEF AheadByKeys
  <2>. QED
    BY <2>12, <2>13, <2>14, <2>15 DEF Consistent
<1>4. CASE DeleteKey(w)
  <2>1. e.op = "revoke" /\ AheadByRevocation(e)
    BY <1>4 DEF DeleteKey, Ahead
  <2>2. /\ e.row \in DOMAIN rows /\ e.index = rows[e.row].index /\ chain[e.index].revoked
        /\ rows' = [rows EXCEPT ![e.row] = [rows[e.row] EXCEPT !.live = FALSE]]
    BY <1>1, <1>4, <2>1 DEF DeleteKey, Intends, Done
  <2> DEFINE gone == [rows[e.row] EXCEPT !.live = FALSE]
  <2>3. gone.live = FALSE
    BY <2>2, RowType DEF Row
  <2> HIDE DEF gone, e
  <2>4. rows' = [rows EXCEPT ![e.row] = gone]
    BY <2>2 DEF gone
  <2>5. Live' = Live \ {e.row} /\ \A r \in Live' : rows'[r] = rows[r]
    BY <2>2, <2>3, <2>4 DEF Live
  <2>6. OneRowEach'
    BY <2>1, <2>5 DEF AheadByRevocation, OneRowEach
  <2>7. (\E r \in Live' : TRUE) /\ \A r \in Live' : Usable(r)'
    BY <2>1, <2>5 DEF AheadByRevocation, Usable
  <2>8. ASSUME NEW i \in DOMAIN chain, ~ chain[i].revoked PROVE HasRow(i)'
    <3>1. PICK r \in Live : rows[r].index = i /\ rows[r].pub = chain[i].pub
      BY <2>1, <2>8 DEF AheadByRevocation, HasRow
    <3>2. r # e.row
      BY <2>2, <2>8, <3>1
    <3>. QED
      BY <2>5, <3>1, <3>2 DEF HasRow
  <2>. QED
    BY <2>6, <2>7, <2>8 DEF Consistent
<1>. QED
  BY <1>3, <1>4

LEMMA AgreeSaves ==
    ASSUME IInv, AgreeInv, NEW w \in Workers, smooth' /\ aligned', Save(w)
    PROVE  Agreement'
<1>. TypeOK /\ TableFollowsChain /\ HandsInOrder /\ SentInOrder
  BY DEF IInv
<1>1. smooth /\ aligned /\ UNCHANGED <<chain, sent>> /\ worker[w].pc = "save" /\ (InsertKeys(w) \/ DeleteKey(w))
  BY DEF Save
<1>2. Agreement
  BY <1>1 DEF AgreeInv
<1>3. w \in Busy /\ Busy \subseteq {w}
  BY <1>1, <1>2, OneIsBusy DEF Agreement
<1>4. (\A v \in Workers : v # w => worker[v].pc = "idle") /\ sent = {}
  BY <1>1, <1>2, <1>3, OthersRest DEF Agreement
<1>5. Ahead(worker[w]) /\ Intends(chain, rows, worker[w]) /\ Done(chain, worker[w])
  BY <1>1, <1>2, <1>3 DEF Agreement, Going, Executed, HandsInOrder, InOrder
<1>6. Consistent'
  BY <1>1, <1>5, SaveCatchesUp
<1>7. worker' = [worker EXCEPT ![w] = NoExecution] /\ NoExecution.pc = "idle" /\ sent' = {}
  BY <1>1, <1>4 DEF Save, Ended, NoExecution
<1>. QED
  BY <1>4, <1>6, <1>7, HandGoesOn

\* The chain does what the one execution asked for, and is ahead of the table by just that.
LEMMA ChainGoesAhead ==
    ASSUME TypeOK, TableFollowsChain, Consistent, NEW e \in Execution, Intends(chain, rows, e), Fits(e),
           NEW t \in Tx, t.signer \in 1..Len(chain),
           t.op = e.op, t.index = e.index, t.pub = e.pub, t.count = e.count,
           chain' = After(t), UNCHANGED rows
    PROVE  Ahead(e)'
<1> DEFINE n == Len(NewKeys(t))
           len == Len(chain)
<1>1. chain \in Seq(ChainKey) /\ DOMAIN chain = 1..len /\ len \in Nat
  BY DEF TypeOK
<1>2. /\ chain' \in Seq(ChainKey) /\ Len(chain') = len + n /\ n \in Nat
      /\ \A i \in 1..len : /\ chain'[i].pub = chain[i].pub
                           /\ chain'[i].revoked <=> chain[i].revoked \/ (t.op = "revoke" /\ i = t.index)
      /\ \A i \in len + 1..len + n : chain'[i].pub = t.pub /\ ~ chain'[i].revoked
  BY AfterKeys
<1>3. /\ e.op = "add" => n = 1
      /\ e.op = "sync" => n = e.count
      /\ e.op \notin {"add", "sync"} => n = 0
  BY NewKeysAre
<1> HIDE DEF n, len
<1>4. DOMAIN chain' = 1..len + n
  BY <1>2
<1>5. Live' = Live /\ Live \subseteq DOMAIN rows
  BY DEF Live
<1>6. \A r \in Live : rows[r].index \in 1..len
  BY <1>1, <1>5 DEF TableFollowsChain
<1>7. OneRowEach' /\ \E r \in Live : TRUE
  BY <1>5 DEF Consistent, OneRowEach
<1>8. \A r \in Live : (e.op = "revoke" /\ rows[r].index = t.index) \/ Usable(r)'
  BY <1>2, <1>6 DEF Consistent, Usable
<1>9. ASSUME NEW i \in 1..len, ~ chain'[i].revoked PROVE HasRow(i)'
  <2>1. ~ chain[i].revoked /\ chain'[i].pub = chain[i].pub
    BY <1>2, <1>9
  <2>2. HasRow(i)
    BY <1>1, <2>1 DEF Consistent
  <2>. QED
    BY <1>5, <2>1, <2>2 DEF HasRow
<1>10. ASSUME Extends(e) PROVE AheadByKeys(e)'
  <2>1. e.index = len + 1 /\ NewIndices(e) = len + 1..len + n
    <3>1. e.index = len + 1 /\ n = IF e.op = "add" THEN 1 ELSE e.count
      BY <1>3, <1>10 DEF Fits, Extends, len
    <3>2. e.index + n - 1 = len + n
      BY <1>1, <1>2, <3>1
    <3>. QED
      BY <3>1, <3>2 DEF NewIndices
  <2>2. \A r \in Live : Usable(r)' /\ rows[r].index < e.index
    BY <1>1, <1>6, <1>8, <1>10, <2>1 DEF Extends
  <2>3. \A i \in NewIndices(e) : i \in 1..len + n /\ ~ chain'[i].revoked /\ chain'[i].pub = e.pub
    BY <1>1, <1>2, <2>1
  <2>4. \A i \in 1..len + n : i \in 1..len \/ i \in NewIndices(e)
    BY <1>1, <1>2, <2>1
  <2>5. \A i \in DOMAIN chain' : ~ chain'[i].revoked => HasRow(i)' \/ i \in NewIndices(e)
    BY <1>4, <1>9, <2>4
  <2>. QED
    BY <1>4, <1>5, <1>7, <2>2, <2>3, <2>5 DEF AheadByKeys, NewIndices
<1>11. ASSUME ~ Extends(e) PROVE \A i \in DOMAIN chain' : ~ chain'[i].revoked => HasRow(i)'
  BY <1>1, <1>3, <1>4, <1>9, <1>11 DEF Extends
<1>12. ASSUME e.op = "revoke" PROVE AheadByRevocation(e)'
  <2>1. e.row \in Live /\ (\E r \in Live : r # e.row) /\ rows[e.row].index = t.index
    BY <1>12 DEF Fits, Intends
  <2>2. \A r \in Live : rows[r].index = t.index => r = e.row
    BY <2>1 DEF Consistent, OneRowEach
  <2>3. \A i \in DOMAIN chain' : ~ chain'[i].revoked => HasRow(i)'
    BY <1>11, <1>12 DEF Extends
  <2>. QED
    BY <1>5, <1>7, <1>8, <2>1, <2>2, <2>3 DEF AheadByRevocation
<1>13. ASSUME e.op = "send" PROVE Consistent'
  BY <1>5, <1>7, <1>8, <1>11, <1>13 DEF Consistent, Extends
<1>. QED
  BY <1>10, <1>12, <1>13 DEF Ahead, Extends

LEMMA AgreeExecutes ==
    ASSUME IInv, AgreeInv, NEW t \in sent, smooth' /\ aligned', Execute(t) \/ Expire(t)
    PROVE  Agreement'
<1>. TypeOK /\ TableFollowsChain /\ HandsInOrder /\ SentInOrder
  BY DEF IInv
<1>1. smooth /\ aligned /\ UNCHANGED <<rows, worker>> /\ t.status = "pending" /\ t \in Tx /\ t.signer \in 1..Len(chain)
  BY DEF Execute, Expire, TypeOK, SentInOrder
<1>2. Agreement
  BY <1>1 DEF AgreeInv
<1>3. PICK w \in Workers : t.owner = w
  BY <1>2 DEF Agreement, OneAtATime
<1>4. PICK e : e = worker[w]
  OBVIOUS
<1>5. Awaited(t, e) /\ e.pc = "wait" /\ e \in Execution
  BY <1>3, <1>4 DEF SentInOrder, Awaited, TypeOK
<1>6. w \in Busy /\ Busy \subseteq {w}
  BY <1>2, <1>4, <1>5, OneIsBusy DEF Agreement
<1>7. (\A v \in Workers : v # w => worker[v].pc = "idle") /\ sent = {t}
  BY <1>2, <1>6, OthersRest DEF Agreement, OneAtATime
<1>8. ~ Executed(w)
  BY <1>1, <1>4, <1>5, <1>7 DEF Executed
<1>9. Consistent /\ Fits(e) /\ Intends(chain, rows, e)
  BY <1>2, <1>4, <1>5, <1>6, <1>8 DEF Agreement, Going, Intending, HandsInOrder, InOrder
<1>10. worker' = [worker EXCEPT ![w] = e]
  BY <1>1, <1>4 DEF TypeOK
<1>11. ASSUME NEW status \in {"sealed", "failed"}, sent' = Settled(t, status)
       PROVE  sent' = {[t EXCEPT !.status = status]} /\ \A u \in sent' : u.owner = w /\ u.status = status
  <2>1. t.owner # "nobody"
    BY <1>3, ConstantsOK
  <2>2. sent' = {[t EXCEPT !.status = status]}
    BY <1>7, <1>11, <2>1 DEF Settled
  <2>3. [t EXCEPT !.status = status].owner = w /\ [t EXCEPT !.status = status].status = status
    BY <1>1, <1>3 DEF Tx
  <2>. QED
    BY <2>2, <2>3
<1>12. CASE chain' = After(t) /\ sent' = Settled(t, "sealed")
  <2>1. Ahead(e)'
    BY <1>1, <1>5, <1>9, <1>12, ChainGoesAhead DEF Awaited
  <2>2. \A u, v \in sent' : u.owner = w /\ u.status = "sealed" /\ u = v
    BY <1>11, <1>12
  <2>3. \E u \in sent' : u.status = "sealed"
    BY <1>11, <1>12
  <2>. QED
    BY <1>5, <1>7, <1>10, <2>1, <2>2, <2>3, HandGoesOn
<1>13. CASE UNCHANGED chain /\ sent' = Settled(t, "failed")
  <2>1. \A u, v \in sent' : u.owner = w /\ u.status # "sealed" /\ u = v
    BY <1>11, <1>13
  <2>. QED
    BY <1>1, <1>5, <1>7, <1>9, <1>10, <1>13, <2>1, HandIsEarly
<1>. QED
  BY <1>12, <1>13 DEF Execute, Expire

LEMMA AgreeStep == IInv /\ AgreeInv /\ [Next]_vars => AgreeInv'
<1>. SUFFICES ASSUME IInv, AgreeInv, [Next]_vars, smooth' /\ aligned' PROVE Agreement'
  BY DEF AgreeInv
<1>. TypeOK /\ TableFollowsChain /\ HandsInOrder /\ SentInOrder
  BY DEF IInv
<1>1. CASE UNCHANGED vars \/ Waits
  <2>1. UNCHANGED <<chain, rows, sent, worker, smooth, aligned>>
    BY <1>1 DEF vars, Waits
  <2>2. Agreement
    BY <2>1 DEF AgreeInv
  <2>3. /\ Consistent => Consistent'
        /\ \A e : (Ahead(e) => Ahead(e)') /\ (Fits(e) => Fits(e)')
    BY <2>1, SameTable
  <2>4. OneAtATime' /\ Busy' = Busy
    BY <2>1, <2>2 DEF Agreement, OneAtATime, Busy
  <2>5. ASSUME NEW w \in Busy PROVE Going(w)'
    <3>1. PICK e : e = worker[w]
      OBVIOUS
    <3>2. IF Executed(w) THEN Ahead(e) ELSE Consistent /\ (Intending(e) => Fits(e))
      BY <2>2, <3>1 DEF Agreement, Going
    <3>3. worker'[w] = e /\ (Executed(w)' <=> Executed(w))
      BY <2>1, <3>1 DEF Executed
    <3>4. Executed(w) => Ahead(worker[w])'
      BY <2>3, <3>2, <3>3 DEF Ahead, AheadByKeys, AheadByRevocation, NewIndices, Extends
    <3>5. ~ Executed(w) => Consistent' /\ (Intending(worker'[w]) => Fits(worker[w])')
      BY <2>3, <3>2, <3>3 DEF Fits, Extends
    <3>. QED
      BY <3>3, <3>4, <3>5 DEF Going
  <2>. QED
    BY <2>2, <2>3, <2>4, <2>5 DEF Agreement
<1>2. ASSUME NEW w \in Workers,
             AddRead(w) \/ RevokeRead(w) \/ SyncReadChain(w) \/ SyncReadRows(w) \/ SendRead(w)
      PROVE  Agreement'
  BY <1>2, AgreeReads
<1>3. ASSUME NEW w \in Workers, PanicNoKeys(w) PROVE FALSE
  BY <1>3 DEF PanicNoKeys, ProcessDies, CutOff
<1>4. ASSUME Crash PROVE FALSE
  BY <1>4 DEF Crash, ProcessDies, CutOff
<1>5. ASSUME NEW w \in Workers, PickKey(w) \/ Sign(w) \/ Send(w) PROVE Agreement'
  BY <1>5, AgreePicks
<1>6. ASSUME NEW w \in Workers, Rejected(w) \/ TxFails(w) \/ ResultLost(w) \/ SaveFails(w) PROVE Agreement'
  BY <1>6, AgreeFails
<1>7. ASSUME NEW w \in Workers, Sealed(w) \/ Save(w) PROVE Agreement'
  BY <1>7, AgreeSeals, AgreeSaves
<1>8. ASSUME NEW t \in sent, Execute(t) \/ Expire(t) PROVE Agreement'
  BY <1>8, AgreeExecutes
<1>. QED
  BY <1>1, <1>2, <1>3, <1>4, <1>5, <1>6, <1>7, <1>8 DEF Next

\* Somebody can always sign, and between jobs the two lists are the same.
LEMMA AgreeHolds == TypeOK /\ TableFollowsChain /\ AgreeInv => KeysAgree
<1>. SUFFICES ASSUME TypeOK, TableFollowsChain, Agreement
              PROVE  /\ \E r \in Live : Usable(r)
                     /\ Busy = {} =>
                          {<<rows[r].index, rows[r].pub>> : r \in Live}
                              = {<<i, chain[i].pub>> : i \in {j \in DOMAIN chain : ~chain[j].revoked}}
  BY DEF AgreeInv, KeysAgree
<1>1. Consistent => \E r \in Live : Usable(r)
  BY DEF Consistent
<1>2. ASSUME NEW w \in Busy PROVE \E r \in Live : Usable(r)
  <2>1. CASE ~ Executed(w)
    BY <1>1, <1>2, <2>1 DEF Agreement, Going
  <2>2. CASE Executed(w)
    <3>1. Ahead(worker[w]) /\ worker[w].op \in AllKinds
      BY <1>2, <2>2 DEF Agreement, Going, TypeOK, Execution, Busy
    <3>2. Extends(worker[w]) \/ worker[w].op \in {"revoke", "send"}
      BY <3>1 DEF AllKinds, Extends
    <3>. QED
      BY <1>1, <3>1, <3>2 DEF Ahead, AheadByKeys, AheadByRevocation
  <2>. QED
    BY <2>1, <2>2
<1>3. ASSUME Consistent
      PROVE  {<<rows[r].index, rows[r].pub>> : r \in Live}
                 = {<<i, chain[i].pub>> : i \in {j \in DOMAIN chain : ~chain[j].revoked}}
  <2>1. ASSUME NEW r \in Live
        PROVE  /\ rows[r].index \in {j \in DOMAIN chain : ~chain[j].revoked}
               /\ rows[r].pub = chain[rows[r].index].pub
    BY <1>3 DEF Consistent, Usable, TableFollowsChain, Live
  <2>2. ASSUME NEW i \in DOMAIN chain, ~ chain[i].revoked
        PROVE  \E r \in Live : rows[r].index = i /\ rows[r].pub = chain[i].pub
    BY <1>3, <2>2 DEF Consistent, HasRow
  <2>. QED
    BY <2>1, <2>2
<1>. QED
  BY <1>1, <1>2, <1>3 DEF Agreement

\* While jobs run one at a time, none is cut off, and no sync adds clones after the chain's last key
\* was revoked, table and chain agree between jobs, and the account can always sign.
THEOREM KeysStayEqual == Spec => []KeysAgree
<1>1. Init => AgreeInv
  BY AgreeInit
<1>2. IInv /\ AgreeInv /\ [Next]_vars => AgreeInv'
  BY AgreeStep
<1>3. IInv /\ AgreeInv => KeysAgree
  BY AgreeHolds DEF IInv
<1>. QED
  BY Inductive, <1>1, <1>2, <1>3, PTL DEF Spec
=============================================================================
