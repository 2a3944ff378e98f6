--------------------------- MODULE AdminKeys_proofs ---------------------------
(***************************************************************************)
(* Proofs about AdminKeys, for any instances, threads, keys and faults:    *)
(* the table of proposal keys stays usable and large enough, keys are      *)
(* taken in turn, and the accounts that nobody has a key of are accounted  *)
(* for.                                                                    *)
(***************************************************************************)
EXTENDS AdminKeys, FiniteSetTheorems, SequenceTheorems, TLAPS

-----------------------------------------------------------------------------
(* The inductive invariant.                                                *)

\* An instance replaces the table from the time it has read the keys until it serves.
Replacing(i) == server[i].pc \in {"delete", "fill", "sign", "send", "wait"}

\* An instance has counted what it wants to add, and its transaction adds that many keys.
Honest(i) ==
    /\ Replacing(i) => server[i].replaces
    /\ server[i].replaces => Replacing(i) \/ (server[i].pc = "get" /\ server[i].tx # 0)
    /\ server[i].tx # 0 => server[i].replaces
    /\ Replacing(i) => server[i].found <= Cardinality(Usable)
    /\ server[i].pc = "sign" => server[i].found < Wanted[i]
    /\ server[i].pc \in {"send", "wait"} =>
          /\ server[i].tx \in DOMAIN txs /\ txs[server[i].tx].kind = "keys"
          /\ server[i].found + txs[server[i].tx].count = Wanted[i]
          /\ txs[server[i].tx].state = "sealed" => Wanted[i] <= Cardinality(Usable)
    /\ server[i].pc = "get" /\ server[i].tx # 0 => Wanted[i] <= Cardinality(Usable)
    /\ server[i].pc \in {"delete", "fill"} /\ server[i].tx # 0 => Wanted[i] <= server[i].found
    /\ server[i].keys \subseteq Usable

BootHonest == \A i \in Instances : Honest(i)

\* A thread has a key of the chain, and a transaction that is as far as the thread is.
InHand(t) ==
    /\ thread[t].pc = "idle" => thread[t] = Idle
    /\ thread[t].pc = "sign" => thread[t].tx = 0
    /\ thread[t].pc # "idle" => thread[t].key \in DOMAIN chain
    /\ thread[t].pc \in {"send", "wait", "save"} =>
          thread[t].tx \in DOMAIN txs /\ txs[thread[t].tx].kind = thread[t].kind
    /\ thread[t].pc = "save" => thread[t].kind = "account" /\ txs[thread[t].tx].state = "sealed"
    /\ thread[t].pc = "send" /\ thread[t].kind = "account" => txs[thread[t].tx].state = "signed"

\* The transaction that creates an account is in the hands of one thread.
OneHand ==
    \A t, u \in Threads : thread[t].kind = "account" /\ thread[t].tx # 0 /\ thread[u].tx = thread[t].tx => u = t

ThreadsHonest ==
    /\ AdminKey \in DOMAIN chain /\ \A k \in DOMAIN txs : txs[k].key \in DOMAIN chain
    /\ \A t \in Threads : InHand(t)
    /\ OneHand

\* The two orders of the table have the same keys, each of them once.
TurnOnce == \A m, n \in DOMAIN turn : turn[m] = turn[n] => m = n

\* Unless two instances met, one at a time replaces the table, and what it has inserted and
\* what is left make up the keys it found: enough for every one that serves.
TableComplete ==
    torn \/
        /\ \A i, j \in Instances : server[i].replaces /\ server[j].replaces => i = j
        /\ \A i \in Instances : At(i, "serve") => Wanted[i] <= Cardinality(Usable)
        /\ \A i \in Instances : server[i].pc \in {"delete", "fill"} =>
              \A j \in Instances : At(j, "serve") => Wanted[j] <= server[i].found
        /\ \A i \in Instances : At(i, "delete") =>
              Cardinality(server[i].keys) = server[i].found /\ Len(table) <= server[i].found
        /\ \A i \in Instances : At(i, "fill") =>
              /\ server[i].keys \intersect Range(table) = {}
              /\ Len(table) + Cardinality(server[i].keys) = server[i].found

\* Accounts that are, or may get, on the chain, which no thread is going to store.
Orphans ==
    {k \in DOMAIN txs : /\ txs[k].kind = "account" /\ txs[k].state \in {"pending", "sealed"} /\ k \notin stored
                        /\ \A t \in Threads : thread[t].tx # k}

OrphansAccounted == Cardinality(Orphans) <= cut

\* Behind a key in the turn are at most as many keys as were chosen since.
BehindInTurn ==
    \A t \in Threads : thread[t].pc # "idle" /\ ~ thread[t].reset =>
        \E n \in DOMAIN turn : turn[n] = thread[t].key /\ Len(turn) - n <= thread[t].picks

AdminInv ==
    /\ TableUsable /\ BootHonest /\ ThreadsHonest /\ TurnOnce /\ TableComplete
    /\ ServesWithKeys /\ OrphansAccounted /\ BehindInTurn /\ InTurn

-----------------------------------------------------------------------------
(* Sequences and sets.                                                     *)

LEMMA Sequent ==
    ASSUME TypeOK
    PROVE  /\ Len(chain) \in Nat /\ DOMAIN chain = 1..Len(chain) /\ \A k \in DOMAIN chain : chain[k] \in Key
           /\ Len(table) \in Nat /\ DOMAIN table = 1..Len(table) /\ \A n \in DOMAIN table : table[n] \in ProposalKey
           /\ Len(turn) \in Nat /\ DOMAIN turn = 1..Len(turn) /\ \A n \in DOMAIN turn : turn[n] \in ProposalKey
           /\ Len(txs) \in Nat /\ DOMAIN txs = 1..Len(txs) /\ \A k \in DOMAIN txs : txs[k] \in Tx
BY DEF TypeOK

\* An element moves to the end.
LEMMA Rotated ==
    ASSUME NEW S, NEW seq \in Seq(S), NEW n \in DOMAIN seq
    PROVE  LET new == Append(RemoveAt(seq, n), seq[n])
           IN  /\ new \in Seq(S) /\ Len(new) = Len(seq)
               /\ \A m \in 1..Len(seq) : new[m] = IF m < n THEN seq[m] ELSE IF m < Len(seq) THEN seq[m + 1] ELSE seq[n]
<1>. PICK new : new = Append(RemoveAt(seq, n), seq[n])
  OBVIOUS
<1>0. new = Append(RemoveAt(seq, n), seq[n])
  OBVIOUS
<1>1. Len(seq) \in Nat /\ DOMAIN seq = 1..Len(seq) /\ n \in 1..Len(seq) /\ \A m \in 1..Len(seq) : seq[m] \in S
  OBVIOUS
<1>. PICK before : before = SubSeq(seq, 1, n - 1)
  OBVIOUS
<1>. PICK after : after = SubSeq(seq, n + 1, Len(seq))
  OBVIOUS
<1>2. before \in Seq(S) /\ Len(before) = n - 1 /\ \A m \in 1..(n - 1) : before[m] = seq[m]
  <2>1. 1 \in Int /\ n - 1 \in Int /\ (\A m \in 1..(n - 1) : seq[m] \in S) /\ before = SubSeq(seq, 1, n - 1)
    BY <1>1
  <2>2. /\ before \in Seq(S) /\ Len(before) = IF 1 <= n - 1 THEN n - 1 - 1 + 1 ELSE 0
        /\ \A m \in 1..(n - 1 - 1 + 1) : before[m] = seq[1 + m - 1]
    BY ONLY <2>1, SubSeqProperties
  <2>. QED
    BY ONLY <1>1, <2>2
<1>3. after \in Seq(S) /\ Len(after) = Len(seq) - n /\ \A m \in 1..(Len(seq) - n) : after[m] = seq[n + m]
  <2>1. /\ n + 1 \in Int /\ Len(seq) \in Int /\ (\A m \in (n + 1)..Len(seq) : seq[m] \in S)
        /\ after = SubSeq(seq, n + 1, Len(seq))
    BY <1>1
  <2>2. /\ after \in Seq(S) /\ Len(after) = IF n + 1 <= Len(seq) THEN Len(seq) - (n + 1) + 1 ELSE 0
        /\ \A m \in 1..(Len(seq) - (n + 1) + 1) : after[m] = seq[n + 1 + m - 1]
    BY ONLY <2>1, SubSeqProperties
  <2>3. ASSUME NEW m \in 1..(Len(seq) - n) PROVE after[m] = seq[n + m]
    <3>1. m \in 1..(Len(seq) - (n + 1) + 1) /\ n + 1 + m - 1 = n + m
      BY ONLY <1>1, m \in 1..(Len(seq) - n)
    <3>. QED
      BY ONLY <2>2, <3>1
  <2>. QED
    BY ONLY <1>1, <2>2, <2>3
<1>4. PICK rest : rest = before \o after
  OBVIOUS
<1>5. new = Append(rest, seq[n])
  BY <1>4 DEF RemoveAt
<1>6. /\ rest \in Seq(S) /\ Len(rest) = Len(before) + Len(after)
      /\ \A m \in 1..(Len(before) + Len(after)) :
            rest[m] = IF m <= Len(before) THEN before[m] ELSE after[m - Len(before)]
  <2>1. before \in Seq(S) /\ after \in Seq(S)
    BY <1>2, <1>3
  <2>. QED
    BY ONLY <2>1, <1>4, ConcatProperties
<1>7. /\ rest \in Seq(S) /\ Len(rest) = Len(seq) - 1
      /\ \A m \in 1..(Len(seq) - 1) : rest[m] = IF m < n THEN seq[m] ELSE seq[m + 1]
  <2>1. Len(rest) = Len(seq) - 1
    BY ONLY <1>1, <1>2, <1>3, <1>6
  <2>2. ASSUME NEW m \in 1..(Len(seq) - 1), m < n PROVE rest[m] = seq[m]
    BY ONLY <1>1, <1>2, <1>3, <1>6, <2>2, m \in 1..(Len(seq) - 1)
  <2>3. ASSUME NEW m \in 1..(Len(seq) - 1), ~ (m < n) PROVE rest[m] = seq[m + 1]
    <3>1. rest[m] = after[m - (n - 1)] /\ m - (n - 1) \in 1..(Len(seq) - n)
      BY ONLY <1>1, <1>2, <1>3, <1>6, <2>3, m \in 1..(Len(seq) - 1)
    <3>2. after[m - (n - 1)] = seq[n + (m - (n - 1))] /\ n + (m - (n - 1)) = m + 1
      BY ONLY <1>1, <1>3, <3>1, m \in 1..(Len(seq) - 1)
    <3>. QED
      BY ONLY <3>1, <3>2
  <2>. QED
    BY ONLY <1>6, <2>1, <2>2, <2>3
<1>8. /\ new \in Seq(S) /\ Len(new) = Len(rest) + 1 /\ new[Len(rest) + 1] = seq[n]
      /\ \A m \in 1..Len(rest) : new[m] = rest[m]
  <2>1. rest \in Seq(S) /\ seq[n] \in S
    BY <1>1, <1>7
  <2>. QED
    BY ONLY <2>1, <1>5, AppendProperties
<1>9. /\ new \in Seq(S) /\ Len(new) = Len(seq)
      /\ \A m \in 1..Len(seq) : new[m] = IF m < n THEN seq[m] ELSE IF m < Len(seq) THEN seq[m + 1] ELSE seq[n]
  BY ONLY <1>1, <1>7, <1>8
<1>. QED
  BY ONLY <1>0, <1>9

\* The elements stay the same, each as often as before.
LEMMA RotatedRange ==
    ASSUME NEW S, NEW seq \in Seq(S), NEW n \in DOMAIN seq
    PROVE  LET new == Append(RemoveAt(seq, n), seq[n])
           IN  /\ Range(new) = Range(seq)
               /\ (\A k, m \in DOMAIN seq : seq[k] = seq[m] => k = m) => \A k, m \in DOMAIN new : new[k] = new[m] => k = m
<1>. PICK new : new = Append(RemoveAt(seq, n), seq[n])
  OBVIOUS
<1>0. new = Append(RemoveAt(seq, n), seq[n])
  OBVIOUS
<1>. PICK len \in Nat : len = Len(seq)
  OBVIOUS
<1>1. /\ DOMAIN seq = 1..len /\ DOMAIN new = 1..len
      /\ \A m \in 1..len : new[m] = IF m < n THEN seq[m] ELSE IF m < len THEN seq[m + 1] ELSE seq[n]
  <2>1. /\ new \in Seq(S) /\ Len(new) = len
        /\ \A m \in 1..len : new[m] = IF m < n THEN seq[m] ELSE IF m < len THEN seq[m + 1] ELSE seq[n]
    BY Rotated
  <2>2. DOMAIN new = 1..len
    BY ONLY <2>1, LenProperties
  <2>. QED
    BY <2>1, <2>2
<1>2. n \in 1..len
  BY <1>1
<1>3. ASSUME NEW m \in 1..len PROVE \E k \in 1..len : new[m] = seq[k]
  BY ONLY <1>1, <1>2, len \in Nat, m \in 1..len
<1>4. ASSUME NEW m \in 1..len PROVE \E k \in 1..len : seq[m] = new[k]
  <2>1. CASE m < n
    BY ONLY <2>1, <1>1, <1>2, len \in Nat, m \in 1..len
  <2>2. CASE m = n
    <3>. len \in 1..len /\ new[len] = seq[m]
      BY ONLY <2>2, <1>1, <1>2, len \in Nat, m \in 1..len
    <3>. QED
      OBVIOUS
  <2>3. CASE m > n
    <3>. m - 1 \in 1..len /\ new[m - 1] = seq[m]
      BY ONLY <2>3, <1>1, <1>2, len \in Nat, m \in 1..len
    <3>. QED
      OBVIOUS
  <2>4. m < n \/ m = n \/ m > n
    BY ONLY <1>2, len \in Nat, m \in 1..len
  <2>. QED
    BY ONLY <2>1, <2>2, <2>3, <2>4
<1>5. Range(new) = Range(seq)
  <2>1. Range(new) = {new[m] : m \in 1..len} /\ Range(seq) = {seq[m] : m \in 1..len}
    BY <1>1 DEF Range
  <2>. QED
    BY ONLY <1>3, <1>4, <2>1
<1>6. ASSUME \A k, m \in 1..len : seq[k] = seq[m] => k = m, NEW k \in 1..len, NEW m \in 1..len, new[k] = new[m]
      PROVE  k = m
  BY ONLY <1>1, <1>2, <1>6, len \in Nat
<1>7. (\A k, m \in DOMAIN seq : seq[k] = seq[m] => k = m) => \A k, m \in DOMAIN new : new[k] = new[m] => k = m
  BY ONLY <1>1, <1>6
<1>. QED
  BY ONLY <1>0, <1>5, <1>7

\* A sequence without repetitions is as long as its range is large.
LEMMA LengthOfRange ==
    ASSUME NEW S, NEW seq \in Seq(S), \A m, n \in DOMAIN seq : seq[m] = seq[n] => m = n
    PROVE  IsFiniteSet(Range(seq)) /\ Cardinality(Range(seq)) = Len(seq)
<1>1. Len(seq) \in Nat /\ DOMAIN seq = 1..Len(seq)
  OBVIOUS
<1>2. seq \in Surjection(1..Len(seq), Range(seq)) /\ seq \in Injection(1..Len(seq), Range(seq))
  BY <1>1 DEF Surjection, Injection, Range, IsInjective
<1>3. IsFiniteSet(1..Len(seq)) /\ Cardinality(1..Len(seq)) = Len(seq)
  BY <1>1, FS_Interval
<1>. QED
  BY <1>2, <1>3, FS_Surjection

-----------------------------------------------------------------------------
(* Types.                                                                  *)

LEMMA Starts == /\ Down \in Server /\ Idle \in Execution
                /\ Down.pc = "down" /\ Down.keys = {} /\ Down.tx = 0 /\ ~ Down.replaces
                /\ Idle.pc = "idle" /\ Idle.kind = "raw" /\ Idle.tx = 0
BY DEF Down, Idle, Server, Execution, AllKinds

LEMMA TxAppended ==
    ASSUME TypeOK, NEW tx \in Tx, txs' = Append(txs, tx)
    PROVE  /\ txs' \in Seq(Tx) /\ DOMAIN txs' = 1..(Len(txs) + 1) /\ Len(txs) + 1 \in DOMAIN txs'
           /\ DOMAIN txs \subseteq DOMAIN txs' /\ Len(txs) + 1 \notin DOMAIN txs /\ Len(txs) + 1 # 0
           /\ \A k \in DOMAIN txs : txs'[k] = txs[k]
           /\ txs'[Len(txs) + 1] = tx
BY Sequent, AppendProperties DEF TypeOK

\* The state of a transaction changes.
LEMMA StateSet ==
    ASSUME TypeOK, NEW k \in DOMAIN txs, NEW s \in {"signed", "pending", "sealed", "failed"},
           txs' = [txs EXCEPT ![k].state = s]
    PROVE  /\ txs' \in Seq(Tx) /\ DOMAIN txs' = DOMAIN txs /\ txs'[k].state = s
           /\ \A j \in DOMAIN txs : j # k => txs'[j] = txs[j]
           /\ \A j \in DOMAIN txs : /\ txs'[j].kind = txs[j].kind /\ txs'[j].key = txs[j].key
                                    /\ txs'[j].seq = txs[j].seq /\ txs'[j].count = txs[j].count
<1>1. txs[k] \in Tx /\ k \in 1..Len(txs)
  BY Sequent
<1>2. [txs[k] EXCEPT !.state = s] \in Tx
  BY <1>1 DEF Tx
<1>3. txs' = [txs EXCEPT ![k] = [txs[k] EXCEPT !.state = s]]
  BY Sequent
<1>4. txs' \in Seq(Tx)
  BY <1>1, <1>2, <1>3, ExceptSeq DEF TypeOK
<1>. QED
  BY <1>1, <1>4, Sequent DEF Tx

\* A transaction that is sent is pending, or was sent before.
LEMMA SentOnce ==
    ASSUME TypeOK, NEW k \in DOMAIN txs, Sent(k)
    PROVE  /\ txs' \in Seq(Tx) /\ DOMAIN txs' = DOMAIN txs
           /\ txs'[k].state = IF txs[k].state = "signed" THEN "pending" ELSE txs[k].state
           /\ \A j \in DOMAIN txs : j # k => txs'[j] = txs[j]
           /\ \A j \in DOMAIN txs : /\ txs'[j].kind = txs[j].kind /\ txs'[j].key = txs[j].key
                                    /\ txs'[j].seq = txs[j].seq /\ txs'[j].count = txs[j].count
<1>. DEFINE s == IF txs[k].state = "signed" THEN "pending" ELSE txs[k].state
<1>1. s \in {"signed", "pending", "sealed", "failed"}
  BY Sequent DEF Tx
<1>2. txs' = [txs EXCEPT ![k].state = s]
  BY DEF Sent
<1>. QED
  BY <1>1, <1>2, StateSet

\* The keys that are added are put behind the others, and are not revoked.
LEMMA ChainGrows ==
    ASSUME TypeOK, NEW k \in DOMAIN txs, txs[k].key \in DOMAIN chain, Includes(k)
    PROVE  /\ chain' \in Seq(Key) /\ DOMAIN chain \subseteq DOMAIN chain'
           /\ DOMAIN chain' = 1..(Len(chain) + txs[k].count)
           /\ \A n \in DOMAIN chain : chain'[n].revoked = chain[n].revoked
           /\ \A n \in (Len(chain) + 1)..(Len(chain) + txs[k].count) : ~ chain'[n].revoked
<1>. PICK count \in Nat : count = txs[k].count
  BY Sequent DEF Tx
<1>. PICK new : new = [n \in 1..count |-> [seq |-> 0, revoked |-> FALSE]]
  OBVIOUS
<1>. PICK old : old = [chain EXCEPT ![txs[k].key].seq = @ + 1]
  OBVIOUS
<1>1. new \in Seq(Key) /\ Len(new) = count /\ \A n \in 1..count : ~ new[n].revoked
  <2>1. new \in [1..count -> Key]
    BY DEF Key
  <2>2. new \in Seq(Key)
    BY ONLY <2>1, count \in Nat, SeqDef
  <2>3. DOMAIN new = 1..count /\ DOMAIN new = 1..Len(new) /\ Len(new) \in Nat
    BY ONLY <2>1, <2>2, LenProperties
  <2>4. Len(new) = count
    BY ONLY <2>3, count \in Nat
  <2>. QED
    BY <2>2, <2>4
<1>2. old \in Seq(Key) /\ Len(old) = Len(chain) /\ \A n \in DOMAIN chain : old[n].revoked = chain[n].revoked
  <2>1. txs[k].key \in 1..Len(chain)
    BY Sequent
  <2>. PICK key \in Key : key = chain[txs[k].key]
    BY Sequent
  <2>. PICK next : next = [key EXCEPT !.seq = key.seq + 1]
    OBVIOUS
  <2>2. next \in Key /\ next.revoked = key.revoked
    BY DEF Key
  <2>3. old = [chain EXCEPT ![txs[k].key] = next]
    BY Sequent
  <2>4. old \in Seq(Key) /\ Len(old) = Len(chain)
    BY <2>1, <2>2, <2>3, ExceptSeq DEF TypeOK
  <2>. QED
    BY <2>1, <2>2, <2>3, <2>4, Sequent
<1>. PICK all : all = old \o new
  OBVIOUS
<1>3. chain' = all
  BY DEF Includes
<1>4. /\ all \in Seq(Key) /\ Len(all) = Len(chain) + count
      /\ \A n \in 1..(Len(chain) + count) : all[n] = IF n <= Len(chain) THEN old[n] ELSE new[n - Len(chain)]
  <2>1. /\ all \in Seq(Key) /\ Len(all) = Len(old) + Len(new)
        /\ \A n \in 1..(Len(old) + Len(new)) : all[n] = IF n <= Len(old) THEN old[n] ELSE new[n - Len(old)]
    <3>1. old \in Seq(Key) /\ new \in Seq(Key) /\ all = old \o new
      BY <1>1, <1>2
    <3>. QED
      BY ONLY <3>1, ConcatProperties
  <2>. QED
    BY ONLY <1>1, <1>2, <2>1
<1>5. Len(chain) \in Nat /\ DOMAIN chain = 1..Len(chain)
  BY Sequent
<1>6. DOMAIN chain' = 1..(Len(chain) + count)
  BY ONLY <1>3, <1>4, LenProperties
<1>7. ASSUME NEW n \in DOMAIN chain PROVE n \in DOMAIN chain' /\ chain'[n].revoked = chain[n].revoked
  <2>1. n \in 1..(Len(chain) + count) /\ chain'[n] = old[n]
    BY ONLY <1>3, <1>4, <1>5, n \in DOMAIN chain, count \in Nat
  <2>. QED
    BY <1>2, <1>6, <2>1
<1>8. ASSUME NEW n \in (Len(chain) + 1)..(Len(chain) + count) PROVE ~ chain'[n].revoked
  <2>1. chain'[n] = new[n - Len(chain)] /\ n - Len(chain) \in 1..count
    BY ONLY <1>3, <1>4, <1>5, n \in (Len(chain) + 1)..(Len(chain) + count), count \in Nat
  <2>. QED
    BY <1>1, <2>1
<1>. QED
  BY <1>3, <1>4, <1>6, <1>7, <1>8

LEMMA UsableFinite ==
    ASSUME TypeOK
    PROVE  IsFiniteSet(Usable) /\ Cardinality(Usable) \in Nat /\ Usable \subseteq ProposalKey
<1>1. Len(chain) \in Nat /\ Usable \subseteq 1..Len(chain)
  BY Sequent DEF Usable
<1>2. IsFiniteSet(1..Len(chain))
  BY ONLY <1>1, FS_Interval
<1>3. IsFiniteSet(Usable)
  BY ONLY <1>1, <1>2, FS_Subset
<1>. QED
  BY <1>1, <1>3, FS_CardinalityType DEF ProposalKey

\* As many keys as the transaction adds can be used from then on.
LEMMA UsableGrows ==
    ASSUME TypeOK, NEW k \in DOMAIN txs, txs[k].key \in DOMAIN chain, Includes(k)
    PROVE  /\ Usable \subseteq Usable' /\ IsFiniteSet(Usable')
           /\ Cardinality(Usable') = Cardinality(Usable) + txs[k].count
<1>. PICK len \in Nat : len = Len(chain)
  BY Sequent
<1>. PICK count \in Nat : count = txs[k].count
  BY Sequent DEF Tx
<1>. DEFINE more == (len + 1)..(len + count)
<1>1. IsFiniteSet(more) /\ Cardinality(more) = count
  BY ONLY len \in Nat, count \in Nat, FS_Interval
<1>2. Usable' = Usable \union more /\ Usable \intersect more = {}
  <2>1. DOMAIN chain = 1..len /\ DOMAIN chain' = 1..(len + count)
    BY Sequent, ChainGrows
  <2>2. (\A n \in 1..len : chain'[n].revoked = chain[n].revoked) /\ \A n \in more : ~ chain'[n].revoked
    BY <2>1, ChainGrows
  <2>3. 1..(len + count) = (1..len) \union more /\ (1..len) \intersect more = {}
    OBVIOUS
  <2>. QED
    BY ONLY <2>1, <2>2, <2>3 DEF Usable
<1>3. IsFiniteSet(Usable) /\ Cardinality(Usable) \in Nat
  BY UsableFinite
<1>. HIDE DEF more
<1>4. /\ IsFiniteSet(Usable')
      /\ Cardinality(Usable') = Cardinality(Usable) + Cardinality(more) - Cardinality(Usable \intersect more)
  BY <1>1, <1>2, <1>3, FS_Union
<1>5. Cardinality(Usable \intersect more) = 0
  BY <1>2, FS_EmptySet
<1>. QED
  BY <1>1, <1>2, <1>3, <1>4, <1>5

\* An instance goes on, keeps what it has read, or begins anew.
LEMMA Goneto ==
    ASSUME TypeOK, NEW i \in Instances, NEW pc, Goes(i, pc),
           pc \in {"down", "admin", "insert", "chain", "table", "get", "delete", "fill", "sign", "send", "wait", "serve"}
    PROVE  /\ server' \in [Instances -> Server] /\ \A j \in Instances : j # i => server'[j] = server[j]
           /\ server'[i].pc = pc /\ server'[i].keys = server[i].keys /\ server'[i].found = server[i].found
           /\ server'[i].tx = server[i].tx /\ server'[i].replaces = server[i].replaces
BY DEF TypeOK, Goes, Server

LEMMA Begun ==
    ASSUME TypeOK, NEW i \in Instances, NEW s \in Server, server' = [server EXCEPT ![i] = s]
    PROVE  /\ server' \in [Instances -> Server] /\ server'[i] = s
           /\ \A j \in Instances : j # i => server'[j] = server[j]
BY DEF TypeOK

LEMMA Serves == LET s == [Down EXCEPT !.pc = "serve"] IN
    s \in Server /\ s.pc = "serve" /\ s.keys = {} /\ s.tx = 0 /\ ~ s.replaces
BY DEF Down, Server

\* A thread goes on, or is idle again.
LEMMA ThreadGoneto ==
    ASSUME TypeOK, NEW t \in Threads, NEW pc \in {"idle", "sign", "send", "wait", "save"},
           thread' = [thread EXCEPT ![t].pc = pc]
    PROVE  /\ thread' \in [Threads -> Execution] /\ \A u \in Threads : u # t => thread'[u] = thread[u]
           /\ thread'[t].pc = pc /\ thread'[t].kind = thread[t].kind /\ thread'[t].key = thread[t].key
           /\ thread'[t].tx = thread[t].tx /\ thread'[t].picks = thread[t].picks /\ thread'[t].reset = thread[t].reset
BY DEF TypeOK, Execution

LEMMA IsDone ==
    ASSUME TypeOK, NEW t \in Threads, Done(t)
    PROVE  /\ thread' \in [Threads -> Execution] /\ thread'[t] = Idle
           /\ \A u \in Threads : u # t => thread'[u] = thread[u]
BY Starts DEF TypeOK, Done

\* The executions learn that the table has changed.
LEMMA Reset ==
    ASSUME TypeOK, TableChanges
    PROVE  /\ thread' \in [Threads -> Execution]
           /\ \A t \in Threads :
                /\ thread'[t].pc = thread[t].pc /\ thread'[t].kind = thread[t].kind /\ thread'[t].key = thread[t].key
                /\ thread'[t].tx = thread[t].tx /\ thread'[t].picks = thread[t].picks
                /\ thread'[t].reset <=> thread[t].pc # "idle"
                /\ thread[t] = Idle => thread'[t] = Idle
<1>1. \A t \in Threads : thread[t] \in Execution
  BY DEF TypeOK
<1>2. \A e \in Execution, r \in BOOLEAN :
        LET f == [e EXCEPT !.reset = r]
        IN  /\ f \in Execution /\ f.pc = e.pc /\ f.kind = e.kind /\ f.key = e.key /\ f.tx = e.tx /\ f.picks = e.picks
            /\ f.reset = r
  BY DEF Execution
<1>3. [Idle EXCEPT !.reset = FALSE] = Idle
  <2>1. \A e, f \in Execution :
          e.pc = f.pc /\ e.kind = f.kind /\ e.key = f.key /\ e.tx = f.tx /\ e.picks = f.picks /\ e.reset = f.reset => e = f
    BY DEF Execution
  <2>2. Idle \in Execution /\ Idle.reset = FALSE
    BY Starts DEF Idle
  <2>. PICK f : f = [Idle EXCEPT !.reset = FALSE]
    OBVIOUS
  <2>3. /\ f \in Execution /\ f.pc = Idle.pc /\ f.kind = Idle.kind /\ f.key = Idle.key /\ f.tx = Idle.tx
        /\ f.picks = Idle.picks /\ f.reset = FALSE
    BY <1>2, <2>2
  <2>4. f = Idle
    BY ONLY <2>1, <2>2, <2>3
  <2>. QED
    BY <2>4
<1>. DEFINE r(t) == thread[t].pc # "idle"
<1>4. \A t \in Threads : r(t) \in BOOLEAN /\ thread'[t] = [thread[t] EXCEPT !.reset = r(t)]
  BY DEF TableChanges
<1>5. thread' \in [Threads -> Execution]
  BY <1>1, <1>2 DEF TableChanges
<1>6. Idle.pc = "idle"
  BY Starts
<1>7. \A t \in Threads : thread[t] = Idle => thread'[t] = Idle
  BY <1>3, <1>4, <1>6
<1>. HIDE DEF r
<1>8. \A t \in Threads :
                /\ thread'[t].pc = thread[t].pc /\ thread'[t].kind = thread[t].kind /\ thread'[t].key = thread[t].key
                /\ thread'[t].tx = thread[t].tx /\ thread'[t].picks = thread[t].picks
                /\ thread'[t].reset = r(t)
  <2>. TAKE t \in Threads
  <2>1. PICK b \in BOOLEAN : b = r(t) /\ thread'[t] = [thread[t] EXCEPT !.reset = b]
    BY <1>4
  <2>. QED
    BY ONLY <1>1, <1>2, <2>1, t \in Threads
<1>. QED
  BY <1>5, <1>7, <1>8 DEF r

LEMMA AdminInitType == Init => TypeOK
<1>. SUFFICES ASSUME Init PROVE TypeOK
  OBVIOUS
<1>1. chain \in Seq(Key)
  <2>. PICK len \in Nat : len = Len(InitChain)
    BY AdminOK
  <2>1. DOMAIN InitChain = 1..len /\ \A k \in 1..len : InitChain[k] \in BOOLEAN
    BY AdminOK
  <2>2. chain \in [1..len -> Key]
    BY <2>1 DEF Init, Key
  <2>. QED
    BY ONLY <2>2, len \in Nat, SeqDef
<1>2. server \in [Instances -> Server] /\ thread \in [Threads -> Execution]
  BY Starts DEF Init
<1>3. table \in Seq(ProposalKey) /\ turn \in Seq(ProposalKey) /\ txs \in Seq(Tx)
  BY DEF Init
<1>. QED
  BY <1>1, <1>2, <1>3 DEF Init, TypeOK

LEMMA BootType ==
    ASSUME TypeOK, BootHonest, ThreadsHonest, NEW i \in Instances, Boot(i)
    PROVE  TypeOK'
<1>. USE DEF TypeOK, At
<1>. server[i] \in Server
  OBVIOUS
<1>1. CASE Start(i)
  BY <1>1, Goneto DEF Start
<1>2. CASE FindAdmin(i)
  BY <1>2, Goneto DEF FindAdmin
<1>3. CASE InsertAdmin(i)
  <2>1. server' \in [Instances -> Server]
    BY <1>3, Goneto, Starts DEF InsertAdmin, Fatal
  <2>. QED
    BY <1>3, <2>1 DEF InsertAdmin
<1>4. CASE CheckChain(i)
  BY <1>4, Goneto DEF CheckChain
<1>5. CASE CheckTable(i)
  <2>1. server' \in [Instances -> Server]
    BY <1>5, Goneto, Serves DEF CheckTable
  <2>. QED
    BY <1>5, <2>1 DEF CheckTable
<1>6. CASE GetKeys(i)
  <2>1. Usable \subseteq ProposalKey /\ Cardinality(Usable) \in Nat
    BY UsableFinite
  <2>2. [server[i] EXCEPT !.pc = "delete", !.keys = Usable, !.found = Cardinality(Usable), !.replaces = TRUE] \in Server
    BY <2>1 DEF Server
  <2>3. server' \in [Instances -> Server]
    BY <1>6, <2>2 DEF GetKeys
  <2>4. torn' \in BOOLEAN
    BY <1>6 DEF GetKeys
  <2>. QED
    BY <1>6, <2>3, <2>4 DEF GetKeys
<1>7. CASE DeleteAll(i)
  BY <1>7, Goneto, Reset DEF DeleteAll
<1>8. CASE InsertKey(i)
  <2>1. PICK key \in server[i].keys :
          \/ Fatal(i) /\ UNCHANGED <<table, turn, thread>>
          \/ /\ table' = Append(table, key) /\ turn' = Append(turn, key)
             /\ server' = [server EXCEPT ![i].keys = @ \ {key}]
             /\ TableChanges
    BY <1>8 DEF InsertKey
  <2>2. key \in ProposalKey
    BY DEF Server
  <2>3. CASE Fatal(i) /\ UNCHANGED <<table, turn, thread>>
    BY <1>8, <2>3, Starts DEF InsertKey, Fatal
  <2>4. CASE /\ table' = Append(table, key) /\ turn' = Append(turn, key)
             /\ server' = [server EXCEPT ![i].keys = @ \ {key}]
             /\ TableChanges
    <3>1. table' \in Seq(ProposalKey) /\ turn' \in Seq(ProposalKey)
      BY <2>2, <2>4, AppendProperties
    <3>2. server' \in [Instances -> Server]
      BY <2>4 DEF Server
    <3>3. thread' \in [Threads -> Execution]
      BY <2>4, Reset
    <3>. QED
      BY <1>8, <3>1, <3>2, <3>3 DEF InsertKey
  <2>. QED
    BY <2>1, <2>3, <2>4
<1>9. CASE Filled(i)
  <2>1. server' \in [Instances -> Server]
    BY <1>9, Goneto, Serves DEF Filled
  <2>. QED
    BY <1>9, <2>1 DEF Filled
<1>10. CASE SignAdd(i)
  <2>1. chain[AdminKey] \in Key /\ AdminKey \in Nat \ {0}
    BY Sequent DEF ThreadsHonest, AdminKey
  <2>2. Wanted[i] \in Nat /\ server[i].found \in Nat /\ server[i].found < Wanted[i]
    BY <1>10, AdminOK DEF SignAdd, BootHonest, Honest, Server
  <2>. PICK tx : tx = [kind |-> "keys", key |-> AdminKey, seq |-> chain[AdminKey].seq,
                       count |-> Wanted[i] - server[i].found, state |-> "signed"]
    OBVIOUS
  <2>3. tx \in Tx
    BY <2>1, <2>2 DEF Tx, Key
  <2>4. txs' = Append(txs, tx)
    BY <1>10 DEF SignAdd, Signed
  <2>5. txs' \in Seq(Tx) /\ DOMAIN txs \subseteq DOMAIN txs'
    BY <2>3, <2>4, TxAppended
  <2>6. server' \in [Instances -> Server]
    <3>1. Len(txs) + 1 \in Nat
      BY Sequent
    <3>. QED
      BY <1>10, <3>1 DEF SignAdd, Server
  <2>. QED
    BY <1>10, <2>5, <2>6 DEF SignAdd
<1>11. CASE SendAdd(i)
  <2>1. server[i].tx \in DOMAIN txs
    BY <1>11 DEF SendAdd, BootHonest, Honest
  <2>2. txs' \in Seq(Tx) /\ DOMAIN txs' = DOMAIN txs
    BY <1>11, <2>1, SentOnce DEF SendAdd
  <2>. QED
    BY <1>11, <2>2, Goneto DEF SendAdd
<1>12. CASE Added(i)
  BY <1>12, Goneto DEF Added
<1>13. CASE NotAdded(i)
  BY <1>13, Starts DEF NotAdded, Fatal
<1>. QED
  BY <1>1, <1>2, <1>3, <1>4, <1>5, <1>6, <1>7, <1>8, <1>9, <1>10, <1>11, <1>12, <1>13 DEF Boot

\* The key at place n of the turn, which a thread takes, moves to the end.
Takes(t, kind, n) ==
    /\ n \in Pick(t) /\ turn' = Append(RemoveAt(turn, n), turn[n])
    /\ turn' \in Seq(ProposalKey) /\ Len(turn') = Len(turn) /\ DOMAIN turn' = DOMAIN turn
    /\ \A m \in 1..Len(turn) : turn'[m] = IF m < n THEN turn[m] ELSE IF m < Len(turn) THEN turn[m + 1] ELSE turn[n]
    /\ thread' = [u \in Threads |->
         IF u = t THEN [Idle EXCEPT !.pc = "sign", !.kind = kind, !.key = turn[n]]
         ELSE IF thread[u].pc = "idle" THEN Idle ELSE [thread[u] EXCEPT !.picks = @ + 1]]

LEMMA Chosen ==
    ASSUME TypeOK, NEW t, NEW kind, Begin(t, kind)
    PROVE  \E n \in DOMAIN turn : Takes(t, kind, n)
<1>1. PICK n \in Pick(t) :
             /\ turn' = Append(RemoveAt(turn, n), turn[n])
             /\ thread' = [u \in Threads |->
                  IF u = t THEN [Idle EXCEPT !.pc = "sign", !.kind = kind, !.key = turn[n]]
                  ELSE IF thread[u].pc = "idle" THEN Idle ELSE [thread[u] EXCEPT !.picks = @ + 1]]
  BY DEF Begin
<1>2. n \in DOMAIN turn /\ turn \in Seq(ProposalKey)
  BY DEF Pick, TypeOK
<1>3. /\ turn' \in Seq(ProposalKey) /\ Len(turn') = Len(turn)
      /\ \A m \in 1..Len(turn) : turn'[m] = IF m < n THEN turn[m] ELSE IF m < Len(turn) THEN turn[m + 1] ELSE turn[n]
  BY ONLY <1>1, <1>2, Rotated
<1>4. DOMAIN turn' = DOMAIN turn
  BY ONLY <1>2, <1>3, LenProperties
<1>. QED
  BY <1>1, <1>2, <1>3, <1>4 DEF Takes

LEMMA ThreadType ==
    ASSUME TypeOK, ThreadsHonest, NEW t \in Threads, ThreadStep(t)
    PROVE  TypeOK'
<1>. USE DEF TypeOK, Done
<1>. thread[t] \in Execution /\ InHand(t)
  BY DEF ThreadsHonest
<1>1. ASSUME NEW kind \in Kinds, Begin(t, kind) PROVE TypeOK'
  <2>0. PICK n \in DOMAIN turn : Takes(t, kind, n)
    BY <1>1, Chosen
  <2>1. /\ turn' \in Seq(ProposalKey)
        /\ thread' = [u \in Threads |->
             IF u = t THEN [Idle EXCEPT !.pc = "sign", !.kind = kind, !.key = turn[n]]
             ELSE IF thread[u].pc = "idle" THEN Idle ELSE [thread[u] EXCEPT !.picks = @ + 1]]
    BY <2>0 DEF Takes
  <2>2. turn[n] \in Nat /\ kind \in AllKinds
    BY Sequent, AdminOK DEF ProposalKey
  <2>3. [Idle EXCEPT !.pc = "sign", !.kind = kind, !.key = turn[n]] \in Execution
    BY <2>2 DEF Idle, Execution
  <2>4. ASSUME NEW u \in Threads PROVE [thread[u] EXCEPT !.picks = @ + 1] \in Execution
    <3>1. thread[u] \in Execution
      OBVIOUS
    <3>2. \A e \in Execution : [e EXCEPT !.picks = e.picks + 1] \in Execution
      BY ONLY TRUE DEF Execution
    <3>. QED
      BY ONLY <3>1, <3>2
  <2>5. thread' \in [Threads -> Execution]
    BY <2>1, <2>3, <2>4, Starts
  <2>. QED
    BY <1>1, <2>1, <2>5 DEF Begin
<1>2. ASSUME NEW k \in DOMAIN txs, Execute(t, k) PROVE TypeOK'
  <2>1. txs[k].key \in Nat /\ k \in Nat
    BY Sequent DEF Tx
  <2>2. [Idle EXCEPT !.pc = "send", !.tx = k, !.key = txs[k].key, !.reset = TRUE] \in Execution
    BY <2>1, Starts DEF Idle, Execution
  <2>. QED
    BY <1>2, <2>2 DEF Execute
<1>3. CASE Sign(t)
  <2>1. thread[t].key \in DOMAIN chain /\ thread[t].kind \in AllKinds
    BY <1>3 DEF InHand, Sign, Execution
  <2>2. chain[thread[t].key].seq \in Nat /\ thread[t].key \in Nat \ {0}
    BY <2>1, Sequent DEF Key
  <2>. PICK tx : tx = [kind |-> thread[t].kind, key |-> thread[t].key, seq |-> chain[thread[t].key].seq,
                       count |-> 0, state |-> "signed"]
    OBVIOUS
  <2>3. tx \in Tx
    BY <2>1, <2>2 DEF Tx
  <2>4. txs' = Append(txs, tx)
    BY <1>3 DEF Sign, Signed
  <2>5. txs' \in Seq(Tx) /\ DOMAIN txs \subseteq DOMAIN txs'
    BY <2>3, <2>4, TxAppended
  <2>6. thread' \in [Threads -> Execution]
    <3>1. Len(txs) + 1 \in Nat
      BY Sequent
    <3>2. CASE thread[t].kind = "raw"
      BY <1>3, <3>2, Starts DEF Sign
    <3>3. CASE thread[t].kind # "raw"
      <4>1. thread' = [thread EXCEPT ![t] = [thread[t] EXCEPT !.pc = "send", !.tx = Len(txs) + 1]]
        BY <1>3, <3>3 DEF Sign
      <4>2. [thread[t] EXCEPT !.pc = "send", !.tx = Len(txs) + 1] \in Execution
        BY <3>1 DEF Execution
      <4>. QED
        BY <4>1, <4>2
    <3>. QED
      BY <3>2, <3>3
  <2>. QED
    BY <1>3, <2>5, <2>6 DEF Sign
<1>4. CASE Send(t)
  <2>1. thread[t].tx \in DOMAIN txs
    BY <1>4 DEF Send, InHand
  <2>2. txs' \in Seq(Tx) /\ DOMAIN txs' = DOMAIN txs
    BY <1>4, <2>1, SentOnce DEF Send
  <2>. QED
    BY <1>4, <2>2 DEF Send, Execution
<1>5. CASE SendFails(t)
  <2>1. thread[t].tx \in DOMAIN txs
    BY <1>5 DEF SendFails, InHand
  <2>2. txs' \in Seq(Tx) /\ DOMAIN txs' = DOMAIN txs
    BY <1>5, <2>1, SentOnce DEF SendFails
  <2>3. cut' \in Nat
    BY <1>5 DEF SendFails
  <2>. QED
    BY <1>5, <2>2, <2>3, Starts DEF SendFails, MayFail
<1>6. CASE Sealed(t)
  <2>1. thread' \in [Threads -> Execution]
    BY <1>6, ThreadGoneto, IsDone DEF Sealed
  <2>. QED
    BY <1>6, <2>1 DEF Sealed
<1>7. CASE Failed(t)
  BY <1>7, Starts DEF Failed
<1>8. CASE Save(t)
  <2>1. thread[t].tx \in DOMAIN txs
    BY <1>8 DEF Save, InHand
  <2>. QED
    BY <1>8, <2>1, Starts DEF Save, AccountStored
<1>9. CASE CutOff(t)
  <2>1. Cardinality({u \in {t} : Sending(u)}) \in Nat
    BY FS_Singleton, FS_Subset, FS_CardinalityType
  <2>2. cut' = cut + Cardinality({u \in {t} : Sending(u)})
    BY <1>9 DEF CutOff, Cut
  <2>3. faults' \in Nat
    BY <1>9 DEF CutOff, MayFail
  <2>. QED
    BY <1>9, <2>1, <2>2, <2>3, Starts DEF CutOff
<1>. HIDE DEF TypeOK, Done
<1>. QED
  BY <1>1, <1>2, <1>3, <1>4, <1>5, <1>6, <1>7, <1>8, <1>9 DEF ThreadStep

LEMMA AdminTypeStep ==
    ASSUME TypeOK, BootHonest, ThreadsHonest, [Next]_vars
    PROVE  TypeOK'
<1>1. ASSUME NEW i \in Instances, Crash(i) PROVE TypeOK'
  <2>1. Cardinality({t \in {t \in Threads : Home[t] = i} : Sending(t)}) \in Nat
    BY AdminOK, FS_Subset, FS_CardinalityType
  <2>. QED
    BY <1>1, <2>1, Starts DEF Crash, Cut, Fatal, MayFail, TypeOK
<1>2. ASSUME NEW k \in DOMAIN txs, Includes(k) PROVE TypeOK'
  <2>1. chain' \in Seq(Key)
    BY <1>2, ChainGrows DEF ThreadsHonest
  <2>2. txs' \in Seq(Tx) /\ DOMAIN txs' = DOMAIN txs
    BY <1>2, StateSet DEF Includes
  <2>. QED
    BY <1>2, <2>1, <2>2 DEF Includes, TypeOK
<1>3. ASSUME NEW k \in DOMAIN txs, Rejects(k) PROVE TypeOK'
  <2>1. txs' \in Seq(Tx) /\ DOMAIN txs' = DOMAIN txs
    BY <1>3, StateSet DEF Rejects
  <2>. QED
    BY <1>3, <2>1 DEF Rejects, MayFail, TypeOK
<1>4. CASE UNCHANGED vars
  BY <1>4 DEF vars, TypeOK
<1>. QED
  BY <1>1, <1>2, <1>3, <1>4, BootType, ThreadType DEF Next, Decides

-----------------------------------------------------------------------------
(* What the steps leave alone.                                             *)

LEMMA BootFrame ==
    ASSUME TypeOK, NEW i \in Instances, Boot(i)
    PROVE  /\ UNCHANGED <<chain, stored, cut, execs, faults>>
           /\ \A j \in Instances : j # i => server'[j] = server[j]
<1>1. UNCHANGED <<chain, stored, cut, execs, faults>>
  BY DEF Boot, Start, FindAdmin, InsertAdmin, CheckChain, CheckTable, GetKeys, DeleteAll, InsertKey, Filled,
         SignAdd, SendAdd, Added, NotAdded
<1>2. \E s : server' = [server EXCEPT ![i] = s]
  <2>1. CASE \E pc : Goes(i, pc)
    BY <2>1 DEF Goes, TypeOK
  <2>2. CASE Fatal(i)
    BY <2>2 DEF Fatal
  <2>3. CASE Start(i) \/ FindAdmin(i) \/ InsertAdmin(i) \/ CheckChain(i) \/ DeleteAll(i) \/ SendAdd(i) \/ Added(i)
             \/ NotAdded(i)
    BY <2>1, <2>2, <2>3 DEF Start, FindAdmin, InsertAdmin, CheckChain, DeleteAll, SendAdd, Added, NotAdded
  <2>4. CASE CheckTable(i) \/ Filled(i)
    BY <2>1, <2>4 DEF CheckTable, Filled
  <2>5. CASE GetKeys(i)
    BY <2>5 DEF GetKeys
  <2>6. CASE SignAdd(i)
    BY <2>6 DEF SignAdd, TypeOK
  <2>7. CASE InsertKey(i)
    <3>1. ASSUME NEW key, server' = [server EXCEPT ![i].keys = @ \ {key}] PROVE \E s : server' = [server EXCEPT ![i] = s]
      BY <3>1 DEF TypeOK
    <3>. QED
      BY <2>2, <2>7, <3>1 DEF InsertKey
  <2>. QED
    BY <2>3, <2>4, <2>5, <2>6, <2>7 DEF Boot
<1>. QED
  BY <1>1, <1>2 DEF TypeOK

LEMMA ThreadFrame ==
    ASSUME NEW t \in Threads, ThreadStep(t)
    PROVE  UNCHANGED <<chain, admin, table, server, torn>>
BY DEF ThreadStep, Begin, Execute, Sign, Send, SendFails, Sealed, Failed, Save, CutOff

LEMMA DecideFrame ==
    ASSUME NEW k \in DOMAIN txs, Decides(k)
    PROVE  UNCHANGED <<admin, table, turn, stored, server, thread, cut, torn, execs>>
BY DEF Decides, Includes, Rejects

\* A transaction keeps what it is, and a sealed one stays sealed.
TxsKept ==
    /\ DOMAIN txs \subseteq DOMAIN txs'
    /\ \A k \in DOMAIN txs :
         /\ txs'[k].kind = txs[k].kind /\ txs'[k].key = txs[k].key
         /\ txs'[k].seq = txs[k].seq /\ txs'[k].count = txs[k].count
         /\ txs[k].state = "sealed" => txs'[k].state = "sealed"
         /\ txs'[k].state = "sealed" => txs[k].state = "sealed" \/ Includes(k)

\* The transactions that a step adds or changes.
LEMMA TxsStep ==
    ASSUME TypeOK, BootHonest, ThreadsHonest, [Next]_vars
    PROVE  TxsKept
<1>1. CASE txs' = txs
  BY <1>1 DEF TxsKept
<1>2. ASSUME NEW k \in DOMAIN txs, Sent(k) PROVE TxsKept
  BY <1>2, SentOnce DEF TxsKept
<1>3. ASSUME NEW kind \in AllKinds \union {"keys"}, NEW key \in DOMAIN chain, NEW count \in Nat, Signed(kind, key, count)
      PROVE TxsKept
  <2>1. chain[key] \in Key /\ key \in Nat \ {0}
    BY Sequent
  <2>. PICK tx : tx = [kind |-> kind, key |-> key, seq |-> chain[key].seq, count |-> count, state |-> "signed"]
    OBVIOUS
  <2>2. tx \in Tx /\ txs' = Append(txs, tx)
    BY <1>3, <2>1 DEF Signed, Tx, Key
  <2>. QED
    BY <2>2, TxAppended DEF TxsKept
<1>4. ASSUME NEW i \in Instances, Boot(i) PROVE TxsKept
  <2>1. CASE SignAdd(i)
    <3>0. Wanted[i] \in Nat /\ server[i].found \in Nat
      BY AdminOK DEF TypeOK, Server
    <3>1. Wanted[i] - server[i].found \in Nat
      BY <2>1, <3>0 DEF SignAdd, BootHonest, Honest, At
    <3>. QED
      BY <1>3, <2>1, <3>1 DEF SignAdd, ThreadsHonest
  <2>2. CASE SendAdd(i)
    BY <1>2, <2>2 DEF SendAdd, BootHonest, Honest, At
  <2>. QED
    BY <1>1, <1>4, <2>1, <2>2 DEF Boot, Start, FindAdmin, InsertAdmin, CheckChain, CheckTable, GetKeys, DeleteAll,
       InsertKey, Filled, Added, NotAdded
<1>5. ASSUME NEW t \in Threads, ThreadStep(t) PROVE TxsKept
  <2>. InHand(t) /\ thread[t] \in Execution
    BY DEF ThreadsHonest, TypeOK
  <2>1. CASE Sign(t)
    BY <1>3, <2>1 DEF Sign, InHand, Execution
  <2>2. CASE Send(t)
    BY <1>2, <2>2 DEF Send, InHand
  <2>3. CASE SendFails(t)
    BY <1>1, <1>2, <2>3 DEF SendFails, InHand
  <2>. QED
    BY <1>1, <1>5, <2>1, <2>2, <2>3 DEF ThreadStep, Begin, Execute, Sealed, Failed, Save, CutOff
<1>6. ASSUME NEW k \in DOMAIN txs, Decides(k) PROVE TxsKept
  <2>1. CASE Includes(k)
    BY <2>1, StateSet DEF Includes, TxsKept
  <2>2. CASE Rejects(k)
    BY <2>2, StateSet DEF Rejects, TxsKept
  <2>. QED
    BY <1>6, <2>1, <2>2 DEF Decides
<1>7. ASSUME NEW i \in Instances, Crash(i) PROVE TxsKept
  BY <1>1, <1>7 DEF Crash
<1>. QED
  BY <1>1, <1>4, <1>5, <1>6, <1>7 DEF Next, vars

\* Keys that can be used stay so: the chain only grows.
UsableKept ==
    /\ DOMAIN chain \subseteq DOMAIN chain' /\ Usable \subseteq Usable'
    /\ Cardinality(Usable) <= Cardinality(Usable') /\ Cardinality(Usable') \in Nat

LEMMA UsableStep ==
    ASSUME TypeOK, ThreadsHonest, [Next]_vars
    PROVE  UsableKept
<1>0. Cardinality(Usable) \in Nat
  BY UsableFinite
<1>1. CASE chain' = chain
  BY <1>0, <1>1 DEF Usable, UsableKept
<1>2. ASSUME NEW k \in DOMAIN txs, Includes(k) PROVE UsableKept
  <2>1. txs[k].count \in Nat
    BY Sequent DEF Tx
  <2>. QED
    BY <1>0, <1>2, <2>1, UsableGrows, ChainGrows DEF ThreadsHonest, UsableKept
<1>. QED
  BY <1>1, <1>2, BootFrame, ThreadFrame DEF Next, Decides, Rejects, Crash, vars

-----------------------------------------------------------------------------
(* How an instance gets to serve.                                          *)

\* Nothing another one does makes an instance's numbers wrong.
LEMMA HonestKept ==
    ASSUME TypeOK, BootHonest, ThreadsHonest, [Next]_vars, NEW i \in Instances, server'[i] = server[i]
    PROVE  Honest(i)'
<1>1. Honest(i) /\ TxsKept /\ UsableKept
  BY TxsStep, UsableStep DEF BootHonest
<1>2. Wanted[i] \in Nat /\ server[i].found \in Nat /\ Cardinality(Usable) \in Nat /\ Cardinality(Usable') \in Nat
  BY <1>1, UsableFinite, AdminOK DEF TypeOK, Server, UsableKept
<1>3. ASSUME server[i].pc \in {"send", "wait"}, txs'[server[i].tx].state = "sealed"
      PROVE  Wanted[i] <= Cardinality(Usable')
  <2>. PICK k \in DOMAIN txs : k = server[i].tx
    BY <1>1, <1>3 DEF Honest
  <2>1. CASE txs[k].state = "sealed"
    BY <1>1, <1>2, <1>3, <2>1 DEF Honest, UsableKept
  <2>2. CASE Includes(k)
    <3>1. txs[k].count \in Nat
      BY Sequent DEF Tx
    <3>2. Cardinality(Usable') = Cardinality(Usable) + txs[k].count
      BY <2>2, UsableGrows DEF ThreadsHonest
    <3>. QED
      BY <1>1, <1>2, <1>3, <3>1, <3>2 DEF Honest, Replacing
  <2>. QED
    BY <1>1, <1>3, <2>1, <2>2 DEF TxsKept
<1>. QED
  BY <1>1, <1>2, <1>3 DEF Honest, Replacing, TxsKept, UsableKept

\* An instance that has no transaction and does not replace the table is at one of the other places.
LEMMA HonestAnew ==
    ASSUME NEW i \in Instances, server'[i].pc \notin {"delete", "fill", "sign", "send", "wait"},
           server'[i].tx = 0, ~ server'[i].replaces, server'[i].keys = {}
    PROVE  Honest(i)'
BY DEF Honest, Replacing

LEMMA HonestBoot ==
    ASSUME TypeOK, BootHonest, ThreadsHonest, NEW i \in Instances, Boot(i)
    PROVE  Honest(i)'
<1>1. Honest(i) /\ UNCHANGED chain
  BY BootFrame DEF BootHonest
<1>2. Usable' = Usable /\ Cardinality(Usable) \in Nat
  BY <1>1, UsableFinite DEF Usable
<1>3. Wanted[i] \in Nat /\ server[i].found \in Nat /\ server[i] \in Server
  BY AdminOK DEF TypeOK, Server
<1>. USE DEF At
<1>4. CASE Start(i)
  BY <1>1, <1>2, <1>4, Goneto DEF Start, Honest, Replacing
<1>5. CASE FindAdmin(i)
  BY <1>1, <1>2, <1>5, Goneto DEF FindAdmin, Honest, Replacing
<1>6. CASE InsertAdmin(i)
  <2>1. CASE admin
    BY <1>6, <2>1, Begun, Starts, HonestAnew DEF InsertAdmin, Fatal
  <2>2. CASE ~ admin
    BY <1>1, <1>2, <1>6, <2>2, Goneto DEF InsertAdmin, Honest, Replacing
  <2>. QED
    BY <2>1, <2>2
<1>7. CASE CheckChain(i)
  BY <1>1, <1>2, <1>7, Goneto DEF CheckChain, Honest, Replacing
<1>8. CASE CheckTable(i)
  <2>1. CASE Len(table) < Wanted[i]
    BY <1>1, <1>2, <1>8, <2>1, Goneto DEF CheckTable, Honest, Replacing
  <2>2. CASE ~ (Len(table) < Wanted[i])
    BY <1>8, <2>2, Begun, Serves, HonestAnew DEF CheckTable
  <2>. QED
    BY <2>1, <2>2
<1>9. CASE GetKeys(i)
  <2>1. /\ server'[i].pc = "delete" /\ server'[i].keys = Usable /\ server'[i].found = Cardinality(Usable)
        /\ server'[i].tx = server[i].tx /\ server'[i].replaces
    BY <1>3, <1>9 DEF GetKeys, Server, TypeOK
  <2>. QED
    BY <1>1, <1>2, <1>9, <2>1 DEF GetKeys, Honest, Replacing
<1>10. CASE DeleteAll(i)
  BY <1>1, <1>2, <1>10, Goneto DEF DeleteAll, Honest, Replacing
<1>11. CASE InsertKey(i)
  <2>1. CASE Fatal(i)
    BY <2>1, Begun, Starts, HonestAnew DEF Fatal
  <2>2. ASSUME NEW key, server' = [server EXCEPT ![i].keys = @ \ {key}] PROVE Honest(i)'
    <3>1. /\ server'[i].pc = server[i].pc /\ server'[i].keys = server[i].keys \ {key}
          /\ server'[i].found = server[i].found /\ server'[i].tx = server[i].tx
          /\ server'[i].replaces = server[i].replaces
      BY <1>3, <2>2 DEF Server, TypeOK
    <3>. QED
      BY <1>1, <1>2, <1>11, <3>1 DEF InsertKey, Honest, Replacing
  <2>. QED
    BY <1>11, <2>1, <2>2 DEF InsertKey
<1>12. CASE Filled(i)
  <2>1. CASE server[i].tx = 0 /\ server[i].found < Wanted[i]
    BY <1>1, <1>2, <1>12, <2>1, Goneto DEF Filled, Honest, Replacing
  <2>2. CASE ~ (server[i].tx = 0 /\ server[i].found < Wanted[i])
    BY <1>12, <2>2, Begun, Serves, HonestAnew DEF Filled
  <2>. QED
    BY <2>1, <2>2
<1>13. CASE SignAdd(i)
  <2>1. /\ server'[i].pc = "send" /\ server'[i].keys = server[i].keys /\ server'[i].found = server[i].found
        /\ server'[i].tx = Len(txs) + 1 /\ server'[i].replaces = server[i].replaces
    BY <1>3, <1>13 DEF SignAdd, Server, TypeOK
  <2>2. chain[AdminKey] \in Key /\ AdminKey \in Nat \ {0}
    BY Sequent DEF ThreadsHonest, AdminKey
  <2>. PICK tx : tx = [kind |-> "keys", key |-> AdminKey, seq |-> chain[AdminKey].seq,
                       count |-> Wanted[i] - server[i].found, state |-> "signed"]
    OBVIOUS
  <2>3. Wanted[i] - server[i].found \in Nat
    BY <1>1, <1>3, <1>13 DEF SignAdd, Honest
  <2>4. tx \in Tx /\ txs' = Append(txs, tx)
    BY <1>13, <2>2, <2>3 DEF SignAdd, Signed, Tx, Key
  <2>5. server'[i].tx \in DOMAIN txs' /\ txs'[server'[i].tx] = tx /\ server'[i].tx # 0
    BY <2>1, <2>4, TxAppended
  <2>6. server[i].found + tx.count = Wanted[i] /\ tx.kind = "keys" /\ tx.state # "sealed"
    BY <1>3
  <2>7. server[i].pc = "sign" /\ Replacing(i) /\ server[i].replaces
    BY <1>1, <1>13 DEF SignAdd, Honest, Replacing
  <2>. QED
    BY ONLY <1>1, <1>2, <2>1, <2>5, <2>6, <2>7 DEF Honest, Replacing
<1>14. CASE SendAdd(i)
  <2>1. server[i].tx \in DOMAIN txs
    BY <1>1, <1>14 DEF SendAdd, Honest
  <2>2. /\ DOMAIN txs' = DOMAIN txs
        /\ txs'[server[i].tx].kind = txs[server[i].tx].kind /\ txs'[server[i].tx].count = txs[server[i].tx].count
        /\ txs'[server[i].tx].state = "sealed" => txs[server[i].tx].state = "sealed"
    BY <1>14, <2>1, SentOnce DEF SendAdd
  <2>. QED
    BY <1>1, <1>2, <1>14, <2>1, <2>2, Goneto DEF SendAdd, Honest, Replacing
<1>15. CASE Added(i)
  <2>1. server[i].tx # 0 /\ Wanted[i] <= Cardinality(Usable)
    BY <1>1, <1>15, Sequent DEF Added, Honest
  <2>. QED
    BY <1>1, <1>2, <1>15, <2>1, Goneto DEF Added, Honest, Replacing
<1>16. CASE NotAdded(i)
  BY <1>16, Begun, Starts, HonestAnew DEF NotAdded, Fatal
<1>. QED
  BY <1>4, <1>5, <1>6, <1>7, <1>8, <1>9, <1>10, <1>11, <1>12, <1>13, <1>14, <1>15, <1>16 DEF Boot

LEMMA BootHonestStep ==
    ASSUME TypeOK, BootHonest, ThreadsHonest, [Next]_vars
    PROVE  BootHonest'
<1>. SUFFICES ASSUME NEW i \in Instances PROVE Honest(i)'
  BY DEF BootHonest
<1>1. CASE server'[i] = server[i]
  BY <1>1, HonestKept
<1>2. ASSUME NEW j \in Instances, Boot(j) PROVE Honest(i)'
  BY <1>1, <1>2, HonestBoot, BootFrame
<1>3. ASSUME NEW j \in Instances, Crash(j) PROVE Honest(i)'
  <2>1. server'[j] = Down /\ (j # i => server'[i] = server[i])
    BY <1>3, Begun, Starts DEF Crash, Fatal
  <2>. QED
    BY <1>1, <2>1, Starts, HonestAnew
<1>. QED
  BY <1>1, <1>2, <1>3, ThreadFrame, DecideFrame DEF Next, vars

-----------------------------------------------------------------------------
(* What the threads have in hand.                                          *)

\* A new transaction is of a key of the chain.
LEMMA KeysOnChain ==
    ASSUME TypeOK, BootHonest, ThreadsHonest, [Next]_vars
    PROVE  AdminKey \in DOMAIN chain' /\ \A k \in DOMAIN txs' : txs'[k].key \in DOMAIN chain'
<1>1. TxsKept /\ DOMAIN chain \subseteq DOMAIN chain'
  BY TxsStep, UsableStep DEF UsableKept
<1>2. \A k \in DOMAIN txs : txs'[k].key \in DOMAIN chain'
  BY <1>1 DEF TxsKept, ThreadsHonest
<1>3. ASSUME NEW kind, NEW key \in DOMAIN chain, NEW count, Signed(kind, key, count), NEW k \in DOMAIN txs'
      PROVE  txs'[k].key \in DOMAIN chain'
  <2>. PICK tx : tx = [kind |-> kind, key |-> key, seq |-> chain[key].seq, count |-> count, state |-> "signed"]
    OBVIOUS
  <2>1. txs' = Append(txs, tx) /\ tx.key = key
    BY <1>3 DEF Signed
  <2>2. k \in DOMAIN txs \/ txs'[k] = tx
    BY <1>3, <2>1, Sequent
  <2>. QED
    BY <1>1, <1>2, <2>1, <2>2
<1>4. CASE DOMAIN txs' = DOMAIN txs
  BY <1>1, <1>2, <1>4 DEF ThreadsHonest
<1>5. ASSUME NEW k \in DOMAIN txs, Sent(k) PROVE DOMAIN txs' = DOMAIN txs
  BY <1>5, SentOnce
<1>. DEFINE Goal == AdminKey \in DOMAIN chain' /\ \A k \in DOMAIN txs' : txs'[k].key \in DOMAIN chain'
<1>6. ASSUME NEW i \in Instances, Boot(i) PROVE Goal
  <2>1. CASE SignAdd(i)
    BY <1>1, <1>3, <2>1 DEF SignAdd, ThreadsHonest
  <2>2. CASE SendAdd(i)
    BY <1>4, <1>5, <2>2 DEF SendAdd, BootHonest, Honest, At
  <2>. QED
    BY <1>4, <1>6, <2>1, <2>2 DEF Boot, Start, FindAdmin, InsertAdmin, CheckChain, CheckTable, GetKeys, DeleteAll,
       InsertKey, Filled, Added, NotAdded
<1>7. ASSUME NEW t \in Threads, ThreadStep(t) PROVE Goal
  <2>. InHand(t)
    BY DEF ThreadsHonest
  <2>1. CASE Sign(t)
    BY <1>1, <1>3, <2>1 DEF Sign, InHand, ThreadsHonest
  <2>2. CASE Send(t)
    BY <1>4, <1>5, <2>2 DEF Send, InHand
  <2>3. CASE SendFails(t)
    BY <1>4, <1>5, <2>3 DEF SendFails, InHand
  <2>. QED
    BY <1>4, <1>7, <2>1, <2>2, <2>3 DEF ThreadStep, Begin, Execute, Sealed, Failed, Save, CutOff
<1>8. ASSUME NEW k \in DOMAIN txs, Decides(k) PROVE Goal
  BY <1>4, <1>8, StateSet DEF Decides, Includes, Rejects
<1>. QED
  BY <1>4, <1>6, <1>7, <1>8 DEF Next, Crash, vars

\* A transaction that creates an account is not sent but by the thread that has it in hand.
LEMMA SentByItself ==
    ASSUME TypeOK, BootHonest, ThreadsHonest, [Next]_vars, NEW t \in Threads,
           thread[t].pc = "send", thread[t].kind = "account"
    PROVE  txs'[thread[t].tx].state = "signed" \/ Send(t) \/ SendFails(t)
<1>. PICK k \in DOMAIN txs : k = thread[t].tx
  BY DEF ThreadsHonest, InHand
<1>0. txs[k].state = "signed" /\ txs[k].kind = "account" /\ k # 0
  BY Sequent DEF ThreadsHonest, InHand
<1>1. CASE txs'[k] = txs[k]
  BY <1>0, <1>1
<1>2. ASSUME NEW kind, NEW key, NEW count, Signed(kind, key, count) PROVE txs'[k] = txs[k]
  BY <1>2, Sequent DEF Signed
<1>3. ASSUME NEW j \in DOMAIN txs, j # k, Sent(j) PROVE txs'[k] = txs[k]
  BY <1>3, SentOnce
<1>4. ASSUME NEW i \in Instances, Boot(i) PROVE txs'[k] = txs[k]
  <2>1. CASE SendAdd(i)
    BY <1>0, <1>3, <2>1 DEF SendAdd, BootHonest, Honest, At
  <2>. QED
    BY <1>2, <1>4, <2>1 DEF Boot, Start, FindAdmin, InsertAdmin, CheckChain, CheckTable, GetKeys, DeleteAll,
       InsertKey, Filled, SignAdd, Added, NotAdded
<1>5. ASSUME NEW u \in Threads, u # t, ThreadStep(u) PROVE txs'[k] = txs[k]
  <2>1. thread[u].tx # k
    BY <1>0, <1>5 DEF ThreadsHonest, OneHand
  <2>2. CASE Send(u)
    BY <1>3, <2>1, <2>2 DEF Send, ThreadsHonest, InHand
  <2>3. CASE SendFails(u)
    BY <1>3, <2>1, <2>3 DEF SendFails, ThreadsHonest, InHand
  <2>. QED
    BY <1>2, <1>5, <2>2, <2>3 DEF ThreadStep, Begin, Execute, Sign, Sealed, Failed, Save, CutOff
<1>6. ASSUME ThreadStep(t) PROVE txs'[k] = txs[k] \/ Send(t) \/ SendFails(t)
  BY <1>6 DEF ThreadStep, Begin, Execute, Sign, Sealed, Failed, Save, CutOff
<1>7. ASSUME NEW j \in DOMAIN txs, Decides(j) PROVE txs'[k] = txs[k]
  BY <1>0, <1>7, StateSet DEF Decides, Includes, Rejects
<1>. QED
  BY <1>1, <1>4, <1>5, <1>6, <1>7 DEF Next, Crash, vars

\* A thread that does not move keeps what it has in hand.
LEMMA InHandKept ==
    ASSUME TypeOK, BootHonest, ThreadsHonest, [Next]_vars, NEW t \in Threads, ~ Send(t), ~ SendFails(t),
           thread'[t].pc = thread[t].pc, thread'[t].kind = thread[t].kind, thread'[t].key = thread[t].key,
           thread'[t].tx = thread[t].tx, thread[t] = Idle => thread'[t] = Idle
    PROVE  InHand(t)'
<1>1. TxsKept /\ DOMAIN chain \subseteq DOMAIN chain' /\ InHand(t)
  BY TxsStep, UsableStep DEF UsableKept, ThreadsHonest
<1>2. thread[t].pc = "send" /\ thread[t].kind = "account" => txs'[thread[t].tx].state = "signed"
  BY SentByItself
<1>. QED
  BY <1>1, <1>2 DEF InHand, TxsKept

LEMMA InHandThread ==
    ASSUME TypeOK, TableUsable, BootHonest, ThreadsHonest, NEW t \in Threads, ThreadStep(t)
    PROVE  InHand(t)'
<1>0. Next
  BY DEF Next
<1>1. TxsKept /\ DOMAIN chain \subseteq DOMAIN chain' /\ InHand(t) /\ thread[t] \in Execution
  BY <1>0, TxsStep, UsableStep DEF UsableKept, ThreadsHonest, TypeOK
<1>2. ASSUME Done(t) PROVE InHand(t)'
  BY <1>2, IsDone, Starts DEF InHand
<1>3. ASSUME NEW kind \in Kinds, Begin(t, kind) PROVE InHand(t)'
  <2>1. PICK n \in DOMAIN turn : Takes(t, kind, n)
    BY <1>3, Chosen
  <2>2. thread'[t] = [Idle EXCEPT !.pc = "sign", !.kind = kind, !.key = turn[n]]
    BY <2>1 DEF Takes
  <2>3. thread'[t].pc = "sign" /\ thread'[t].tx = 0 /\ thread'[t].key = turn[n]
    BY <2>2 DEF Idle
  <2>4. turn[n] \in DOMAIN chain'
    <3>. turn[n] \in Range(turn)
      BY DEF Range
    <3>. QED
      BY <1>1 DEF TableUsable
  <2>. QED
    BY <2>3, <2>4 DEF InHand
<1>4. ASSUME NEW k \in DOMAIN txs, Execute(t, k) PROVE InHand(t)'
  <2>1. thread' = [thread EXCEPT ![t] = [Idle EXCEPT !.pc = "send", !.tx = k, !.key = txs[k].key, !.reset = TRUE]]
    BY <1>4 DEF Execute
  <2>2. thread'[t] = [Idle EXCEPT !.pc = "send", !.tx = k, !.key = txs[k].key, !.reset = TRUE]
    BY <2>1 DEF TypeOK
  <2>3. thread'[t].pc = "send" /\ thread'[t].tx = k /\ thread'[t].key = txs[k].key /\ thread'[t].kind = "raw"
    BY <2>2 DEF Idle
  <2>. QED
    BY <1>1, <1>4, <2>3 DEF Execute, InHand, ThreadsHonest, TxsKept
<1>5. CASE Sign(t)
  <2>1. CASE thread[t].kind = "raw"
    BY <1>2, <1>5, <2>1 DEF Sign
  <2>2. CASE thread[t].kind # "raw"
    <3>1. thread' = [thread EXCEPT ![t].pc = "send", ![t].tx = Len(txs) + 1]
      BY <1>5, <2>2 DEF Sign
    <3>2. /\ thread'[t].pc = "send" /\ thread'[t].tx = Len(txs) + 1
          /\ thread'[t].key = thread[t].key /\ thread'[t].kind = thread[t].kind
      BY <1>1, <3>1 DEF Execution, TypeOK
    <3>3. txs'[Len(txs) + 1].kind = thread[t].kind /\ txs'[Len(txs) + 1].state = "signed" /\ Len(txs) + 1 \in DOMAIN txs'
      BY <1>5, Sequent DEF Sign, Signed
    <3>. QED
      BY <1>1, <1>5, <3>2, <3>3 DEF Sign, InHand
  <2>. QED
    BY <2>1, <2>2
<1>6. CASE Send(t)
  <2>1. thread[t].pc = "send" /\ thread' = [thread EXCEPT ![t].pc = "wait"]
    BY <1>6 DEF Send
  <2>2. thread'[t].pc = "wait" /\ thread'[t].tx = thread[t].tx /\ thread'[t].key = thread[t].key /\ thread'[t].kind = thread[t].kind
    BY <2>1, ThreadGoneto
  <2>. QED
    BY <1>1, <2>1, <2>2 DEF InHand, TxsKept
<1>7. CASE Sealed(t)
  <2>1. CASE thread[t].kind = "raw"
    BY <1>2, <1>7, <2>1 DEF Sealed
  <2>2. CASE thread[t].kind # "raw"
    <3>1. thread[t].kind = "account"
      BY <1>1, <2>2 DEF Execution, AllKinds
    <3>. QED
      BY <1>1, <1>7, <2>2, <3>1, ThreadGoneto DEF Sealed, InHand
  <2>. QED
    BY <2>1, <2>2
<1>. QED
  BY <1>2, <1>3, <1>4, <1>5, <1>6, <1>7 DEF ThreadStep, SendFails, Failed, Save, AccountStored, CutOff

\* The other threads learn that the table has changed, or that a key was taken, or end.
LEMMA OthersKeep ==
    ASSUME TypeOK, NEW t \in Threads, NEW u \in Threads, u # t, ThreadStep(t), InHand(u)
    PROVE  /\ thread'[u].pc = thread[u].pc /\ thread'[u].kind = thread[u].kind /\ thread'[u].key = thread[u].key
           /\ thread'[u].tx = thread[u].tx /\ thread'[u].reset = thread[u].reset
           /\ thread[u] = Idle => thread'[u] = Idle
<1>1. ASSUME NEW kind \in Kinds, Begin(t, kind)
      PROVE  /\ thread[u].pc = "idle" => thread'[u] = Idle
             /\ thread[u].pc # "idle" => thread'[u] = [thread[u] EXCEPT !.picks = @ + 1]
  <2>1. PICK n \in DOMAIN turn : Takes(t, kind, n)
    BY <1>1, Chosen
  <2>. QED
    BY <2>1 DEF Takes
<1>2. \A e \in Execution : LET f == [e EXCEPT !.picks = e.picks + 1] IN
        f.pc = e.pc /\ f.kind = e.kind /\ f.key = e.key /\ f.tx = e.tx /\ f.reset = e.reset
  BY DEF Execution
<1>3. thread[u] \in Execution
  BY DEF TypeOK
<1>4. ASSUME NEW kind \in Kinds, Begin(t, kind)
      PROVE  /\ thread'[u].pc = thread[u].pc /\ thread'[u].kind = thread[u].kind /\ thread'[u].key = thread[u].key
             /\ thread'[u].tx = thread[u].tx /\ thread'[u].reset = thread[u].reset
             /\ thread[u] = Idle => thread'[u] = Idle
  BY <1>1, <1>2, <1>3, <1>4, Starts DEF InHand
<1>5. CASE thread'[u] = thread[u]
  BY <1>5
<1>6. ASSUME ~ \E kind \in Kinds : Begin(t, kind) PROVE thread'[u] = thread[u]
  BY <1>6, IsDone, ThreadGoneto
     DEF ThreadStep, Execute, Sign, Send, SendFails, Sealed, Failed, Save, AccountStored, CutOff, TypeOK
<1>. QED
  BY <1>4, <1>5, <1>6

LEMMA OneHandStep ==
    ASSUME TypeOK, ThreadsHonest, [Next]_vars
    PROVE  OneHand'
<1>. \A t \in Threads : InHand(t)
  BY DEF ThreadsHonest
<1>. OneHand /\ \A t \in Threads : thread[t] \in Execution
  BY DEF ThreadsHonest, TypeOK
\* Nobody has got a transaction in hand that he had not.
<1>1. ASSUME \A t \in Threads : \/ thread'[t].tx = thread[t].tx /\ thread'[t].kind = thread[t].kind
                                \/ thread'[t].tx = 0
      PROVE  OneHand'
  BY <1>1 DEF OneHand
<1>2. \A t \in Threads : thread[t].tx = 0 \/ (thread[t].tx \in DOMAIN txs /\ txs[thread[t].tx].kind = thread[t].kind)
  BY Starts DEF InHand, Execution
<1>3. ASSUME NEW t \in Threads, ThreadStep(t) PROVE OneHand'
  <2>1. \A u \in Threads : u # t => thread'[u].tx = thread[u].tx /\ thread'[u].kind = thread[u].kind
    BY <1>3, OthersKeep
  <2>2. CASE thread'[t].tx = thread[t].tx /\ thread'[t].kind = thread[t].kind
    BY <1>1, <2>1, <2>2
  <2>3. CASE thread'[t].tx = 0
    BY <1>1, <2>1, <2>3
  <2>4. ASSUME NEW kind \in Kinds, Begin(t, kind) PROVE OneHand'
    <3>1. PICK n \in DOMAIN turn : Takes(t, kind, n)
      BY <2>4, Chosen
    <3>2. thread'[t].tx = 0
      BY <3>1 DEF Takes, Idle
    <3>. QED
      BY <2>3, <3>2
  <2>5. ASSUME NEW k \in DOMAIN txs, Execute(t, k) PROVE OneHand'
    <3>1. thread'[t].tx = k /\ thread'[t].kind = "raw" /\ txs[k].kind = "raw"
      BY <2>5 DEF Execute, Idle, TypeOK
    <3>. QED
      BY <1>2, <2>1, <3>1 DEF OneHand
  <2>6. CASE Sign(t)
    <3>1. thread'[t].tx = 0 \/ thread'[t].tx = Len(txs) + 1
      BY <2>6, Starts DEF Sign, Done, TypeOK, Execution
    <3>2. Len(txs) + 1 \notin DOMAIN txs /\ Len(txs) + 1 # 0
      BY Sequent
    <3>. QED
      BY <1>2, <2>1, <2>3, <3>1, <3>2 DEF OneHand
  <2>7. ASSUME Done(t) PROVE OneHand'
    BY <2>3, <2>7, IsDone, Starts
  <2>8. CASE Send(t) \/ Sealed(t)
    BY <2>2, <2>7, <2>8, ThreadGoneto DEF Send, Sealed
  <2>. QED
    BY <1>3, <2>4, <2>5, <2>6, <2>7, <2>8 DEF ThreadStep, SendFails, Failed, Save, AccountStored, CutOff
<1>4. ASSUME NEW i \in Instances, Boot(i) PROVE OneHand'
  BY <1>1, <1>4, Reset DEF Boot, Start, FindAdmin, InsertAdmin, CheckChain, CheckTable, GetKeys, DeleteAll,
       InsertKey, Filled, SignAdd, SendAdd, Added, NotAdded
<1>5. ASSUME NEW i \in Instances, Crash(i) PROVE OneHand'
  BY <1>1, <1>5, Starts DEF Crash
<1>. QED
  BY <1>1, <1>3, <1>4, <1>5, DecideFrame DEF Next, vars

LEMMA ThreadsHonestStep ==
    ASSUME TypeOK, TableUsable, BootHonest, ThreadsHonest, [Next]_vars
    PROVE  ThreadsHonest'
<1>1. ASSUME NEW t \in Threads PROVE InHand(t)'
  <2>0. InHand(t)
    BY DEF ThreadsHonest
  <2>1. CASE thread'[t] = thread[t] /\ ~ ThreadStep(t)
    BY <2>1, InHandKept DEF ThreadStep
  <2>2. CASE ThreadStep(t)
    BY <2>2, InHandThread
  <2>3. ASSUME NEW u \in Threads, ThreadStep(u), ~ ThreadStep(t) PROVE InHand(t)'
    BY <2>0, <2>3, OthersKeep, InHandKept DEF ThreadStep
  <2>4. ASSUME NEW i \in Instances, Boot(i), ~ ThreadStep(t) PROVE InHand(t)'
    <3>1. CASE TableChanges
      BY <2>4, <3>1, Reset, InHandKept DEF ThreadStep
    <3>. QED
      BY <2>1, <2>4, <3>1 DEF Boot, Start, FindAdmin, InsertAdmin, CheckChain, CheckTable, GetKeys, DeleteAll,
         InsertKey, Filled, SignAdd, SendAdd, Added, NotAdded
  <2>5. ASSUME NEW i \in Instances, Crash(i), ~ ThreadStep(t) PROVE InHand(t)'
    <3>1. thread'[t] = Idle \/ thread'[t] = thread[t]
      BY <2>5 DEF Crash
    <3>. QED
      BY <2>1, <2>5, <3>1, Starts DEF InHand
  <2>. QED
    BY <2>1, <2>2, <2>3, <2>4, <2>5, DecideFrame DEF Next, vars
<1>. QED
  BY <1>1, OneHandStep, KeysOnChain DEF ThreadsHonest

-----------------------------------------------------------------------------
(* The table.                                                              *)

\* A key that is inserted is put behind the others, in the table and in the turn.
Inserts(i, key) ==
    /\ At(i, "fill") /\ key \in server[i].keys /\ key \notin Range(table)
    /\ table' = Append(table, key) /\ turn' = Append(turn, key)
    /\ server' = [server EXCEPT ![i].keys = @ \ {key}]
    /\ TableChanges

\* The steps by which the table and its turn change.
LEMMA TableStep ==
    ASSUME [Next]_vars
    PROVE  \/ UNCHANGED <<table, turn>>
           \/ \E i \in Instances : DeleteAll(i)
           \/ \E i \in Instances : InsertKey(i) /\ \E key \in server[i].keys : Inserts(i, key)
           \/ UNCHANGED table /\ \E t \in Threads, kind \in Kinds : Begin(t, kind)
<1>. DEFINE Goal == \/ UNCHANGED <<table, turn>>
                    \/ \E i \in Instances : DeleteAll(i)
                    \/ \E i \in Instances : InsertKey(i) /\ \E key \in server[i].keys : Inserts(i, key)
                    \/ UNCHANGED table /\ \E t \in Threads, kind \in Kinds : Begin(t, kind)
<1>1. ASSUME NEW i \in Instances, Boot(i) PROVE Goal
  <2>1. CASE InsertKey(i)
    BY <2>1 DEF InsertKey, Inserts
  <2>2. CASE DeleteAll(i)
    BY <2>2
  <2>. QED
    BY <1>1, <2>1, <2>2 DEF Boot, Start, FindAdmin, InsertAdmin, CheckChain, CheckTable, GetKeys, Filled,
       SignAdd, SendAdd, Added, NotAdded
<1>2. ASSUME NEW t \in Threads, ThreadStep(t) PROVE Goal
  <2>1. UNCHANGED table
    BY <1>2, ThreadFrame
  <2>2. ASSUME NEW kind \in Kinds, Begin(t, kind) PROVE Goal
    BY <2>1, <2>2
  <2>. QED
    BY <1>2, <2>1, <2>2 DEF ThreadStep, Execute, Sign, Send, SendFails, Sealed, Failed, Save, CutOff
<1>. QED
  BY <1>1, <1>2, DecideFrame DEF Next, Crash, vars

\* One more element.
LEMMA AppendedRange ==
    ASSUME NEW S, NEW seq \in Seq(S), NEW elt \in S
    PROVE  /\ Append(seq, elt) \in Seq(S) /\ Len(Append(seq, elt)) = Len(seq) + 1
           /\ Range(Append(seq, elt)) = Range(seq) \union {elt}
           /\ (\A m, n \in DOMAIN seq : seq[m] = seq[n] => m = n) /\ elt \notin Range(seq) =>
                \A m, n \in DOMAIN Append(seq, elt) : Append(seq, elt)[m] = Append(seq, elt)[n] => m = n
<1>. PICK new : new = Append(seq, elt)
  OBVIOUS
<1>0. new = Append(seq, elt)
  OBVIOUS
<1>. PICK len \in Nat : len = Len(seq)
  OBVIOUS
<1>1. /\ new \in Seq(S) /\ Len(new) = len + 1 /\ DOMAIN seq = 1..len
      /\ \A m \in 1..len : new[m] = seq[m]
      /\ new[len + 1] = elt
  BY AppendProperties
<1>2. DOMAIN new = 1..(len + 1)
  BY ONLY <1>1, LenProperties
<1>3. 1..(len + 1) = (1..len) \union {len + 1}
  OBVIOUS
<1>4. Range(new) = Range(seq) \union {elt}
  <2>1. Range(new) = {new[m] : m \in (1..len) \union {len + 1}} /\ Range(seq) = {seq[m] : m \in 1..len}
    BY ONLY <1>1, <1>2, <1>3 DEF Range
  <2>. QED
    BY ONLY <1>1, <2>1
<1>5. ASSUME \A m, n \in DOMAIN seq : seq[m] = seq[n] => m = n, elt \notin Range(seq),
             NEW m \in DOMAIN new, NEW n \in DOMAIN new, new[m] = new[n]
      PROVE  m = n
  <2>1. \A k \in 1..len : seq[k] # elt
    BY ONLY <1>1, <1>5 DEF Range
  <2>2. m \in (1..len) \union {len + 1} /\ n \in (1..len) \union {len + 1}
    BY ONLY <1>2, <1>3, m \in DOMAIN new, n \in DOMAIN new
  <2>. QED
    BY ONLY <1>1, <1>5, <2>1, <2>2
<1>. QED
  BY <1>0, <1>1, <1>4, <1>5

\* The keys in the table are different, and can be used.
TableIsSound ==
    /\ \A m, n \in DOMAIN table : table[m] = table[n] => m = n
    /\ Range(turn) = Range(table) /\ Len(turn) = Len(table)
    /\ Range(table) \subseteq Usable

LEMMA TableUsableIs == TableUsable <=> TypeOK /\ TableIsSound
BY DEF TableUsable, TableIsSound, Usable

LEMMA TableUsableStep ==
    ASSUME TableUsable, BootHonest, ThreadsHonest, TurnOnce, [Next]_vars
    PROVE  TableUsable' /\ TurnOnce'
<1>1. TypeOK /\ TypeOK' /\ TableIsSound /\ Usable \subseteq Usable'
  BY TableUsableIs, AdminTypeStep, UsableStep DEF UsableKept
<1>. SUFFICES TableIsSound' /\ TurnOnce'
  <2>. TableUsable' <=> TypeOK' /\ TableIsSound'
    BY TableUsableIs, PTL
  <2>. QED
    BY <1>1
<1>. DEFINE Goal == TableIsSound' /\ TurnOnce'
<1>2. CASE UNCHANGED <<table, turn>>
  BY <1>1, <1>2 DEF TableIsSound, TurnOnce
<1>3. ASSUME NEW i \in Instances, DeleteAll(i) PROVE Goal
  <2>1. table' = <<>> /\ turn' = <<>>
    BY <1>3 DEF DeleteAll
  <2>2. Range(table') = {} /\ Range(turn') = {} /\ DOMAIN table' = {} /\ DOMAIN turn' = {} /\ Len(table') = Len(turn')
    BY <2>1 DEF Range
  <2>. QED
    BY <2>2 DEF TableIsSound, TurnOnce
<1>4. ASSUME NEW i \in Instances, NEW key \in server[i].keys, Inserts(i, key) PROVE Goal
  <2>1. key \in Usable /\ key \in ProposalKey
    BY <1>1, UsableFinite DEF BootHonest, Honest
  <2>2. table \in Seq(ProposalKey) /\ turn \in Seq(ProposalKey)
    BY <1>1 DEF TypeOK
  <2>3. table' = Append(table, key) /\ turn' = Append(turn, key) /\ key \notin Range(table) /\ key \notin Range(turn)
    BY <1>1, <1>4 DEF Inserts, TableIsSound
  <2>4. /\ Len(table') = Len(table) + 1 /\ Len(turn') = Len(turn) + 1
        /\ Range(table') = Range(table) \union {key} /\ Range(turn') = Range(turn) \union {key}
    BY <2>1, <2>2, <2>3, AppendedRange
  <2>5. \A m, n \in DOMAIN table' : table'[m] = table'[n] => m = n
    <3>1. \A m, n \in DOMAIN table : table[m] = table[n] => m = n
      BY <1>1 DEF TableIsSound
    <3>. QED
      BY <2>1, <2>2, <2>3, <3>1, AppendedRange
  <2>6. \A m, n \in DOMAIN turn' : turn'[m] = turn'[n] => m = n
    BY <2>1, <2>2, <2>3, AppendedRange DEF TurnOnce
  <2>. QED
    BY <1>1, <2>1, <2>4, <2>5, <2>6 DEF TableIsSound, TurnOnce
<1>5. ASSUME NEW t \in Threads, NEW kind \in Kinds, Begin(t, kind), UNCHANGED table PROVE Goal
  <2>1. PICK n \in DOMAIN turn : Takes(t, kind, n)
    BY <1>1, <1>5, Chosen
  <2>2. turn \in Seq(ProposalKey)
    BY <1>1 DEF TypeOK
  <2>3. n \in DOMAIN turn /\ Len(turn') = Len(turn) /\ turn' = Append(RemoveAt(turn, n), turn[n])
    BY <2>1 DEF Takes
  <2>4. /\ Range(turn') = Range(turn)
        /\ (\A k, m \in DOMAIN turn : turn[k] = turn[m] => k = m) => \A k, m \in DOMAIN turn' : turn'[k] = turn'[m] => k = m
    <3>. DEFINE new == Append(RemoveAt(turn, n), turn[n])
    <3>1. /\ Range(new) = Range(turn)
          /\ (\A k, m \in DOMAIN turn : turn[k] = turn[m] => k = m) => \A k, m \in DOMAIN new : new[k] = new[m] => k = m
      BY ONLY <2>2, n \in DOMAIN turn, RotatedRange
    <3>. HIDE DEF new
    <3>2. turn' = new
      BY <2>3 DEF new
    <3>. QED
      BY ONLY <3>1, <3>2
  <2>. QED
    BY <1>1, <1>5, <2>3, <2>4 DEF TableIsSound, TurnOnce
<1>. QED
  BY <1>2, <1>3, <1>4, <1>5, TableStep

\* The table has at most as many keys as can be used.
LEMMA TableFits ==
    ASSUME TableUsable
    PROVE  Len(table) \in Nat /\ Len(table) <= Cardinality(Usable)
<1>1. TypeOK /\ TableIsSound
  BY TableUsableIs
<1>2. table \in Seq(ProposalKey) /\ \A m, n \in DOMAIN table : table[m] = table[n] => m = n
  BY <1>1 DEF TypeOK, TableIsSound
<1>3. Cardinality(Range(table)) = Len(table)
  BY <1>2, LengthOfRange
<1>4. Range(table) \subseteq Usable /\ IsFiniteSet(Usable)
  BY <1>1, UsableFinite DEF TableIsSound
<1>. QED
  BY <1>1, <1>3, <1>4, FS_Subset, Sequent

-----------------------------------------------------------------------------
(* As many keys as an instance is configured for.                          *)

OneReplaces == \A i, j \in Instances : server[i].replaces /\ server[j].replaces => i = j

ServedUsable == \A i \in Instances : At(i, "serve") => Wanted[i] <= Cardinality(Usable)

\* An instance finds enough keys for the others, and gets through all of them.
Complete(i) ==
    /\ server[i].pc \in {"delete", "fill"} => \A j \in Instances : At(j, "serve") => Wanted[j] <= server[i].found
    /\ At(i, "delete") => Cardinality(server[i].keys) = server[i].found /\ Len(table) <= server[i].found
    /\ At(i, "fill") => /\ server[i].keys \intersect Range(table) = {}
                        /\ Len(table) + Cardinality(server[i].keys) = server[i].found

LEMMA TableCompleteIs == TableComplete <=> torn \/ (OneReplaces /\ ServedUsable /\ \A i \in Instances : Complete(i))
BY DEF TableComplete, OneReplaces, ServedUsable, Complete

\* A step after which no instance serves or replaces the table that did not before, and that
\* leaves the table alone.
LEMMA CompleteKept ==
    ASSUME TypeOK, UsableKept, OneReplaces, ServedUsable, \A i \in Instances : Complete(i), UNCHANGED table,
           \A i \in Instances : /\ server'[i].pc = "serve" => server[i].pc = "serve"
                                /\ server'[i].replaces => server[i].replaces
                                /\ server'[i].pc \in {"delete", "fill"} => server'[i] = server[i]
    PROVE  (OneReplaces /\ ServedUsable /\ \A i \in Instances : Complete(i))'
<1>1. OneReplaces'
  BY DEF OneReplaces
<1>2. ServedUsable'
  <2>1. \A i \in Instances : Wanted[i] \in Nat
    BY AdminOK
  <2>. QED
    BY <2>1, UsableFinite DEF ServedUsable, At, UsableKept
<1>3. \A i \in Instances : Complete(i)'
  BY DEF Complete, At
<1>. QED
  BY <1>1, <1>2, <1>3

\* An instance that begins to serve finds enough keys.
LEMMA CompleteServes ==
    ASSUME TypeOK, UsableKept, OneReplaces, ServedUsable, \A i \in Instances : Complete(i), UNCHANGED table,
           NEW i \in Instances, server' = [server EXCEPT ![i] = [Down EXCEPT !.pc = "serve"]],
           Wanted[i] <= Cardinality(Usable),
           \A j \in Instances \ {i} : server[j].pc \in {"delete", "fill"} => Wanted[i] <= server[j].found
    PROVE  (OneReplaces /\ ServedUsable /\ \A j \in Instances : Complete(j))'
<1>0. server'[i].pc = "serve" /\ ~ server'[i].replaces /\ \A j \in Instances : j # i => server'[j] = server[j]
  BY Serves, Begun
<1>1. OneReplaces'
  BY <1>0 DEF OneReplaces
<1>2. ServedUsable'
  <2>1. \A j \in Instances : Wanted[j] \in Nat
    BY AdminOK
  <2>. QED
    BY <1>0, <2>1, UsableFinite DEF ServedUsable, At, UsableKept
<1>3. \A j \in Instances : Complete(j)'
  BY <1>0 DEF Complete, At
<1>. QED
  BY <1>1, <1>2, <1>3

LEMMA CompleteBoot ==
    ASSUME TableUsable, BootHonest, ThreadsHonest, TableComplete, NEW i \in Instances, Boot(i)
    PROVE  TableComplete'
<1>0. Next /\ TypeOK /\ Honest(i) /\ server[i] \in Server
  BY TableUsableIs DEF Next, BootHonest, TypeOK
<1>1. UsableKept /\ Usable' = Usable /\ IsFiniteSet(Usable) /\ Cardinality(Usable) \in Nat
  BY <1>0, UsableStep, UsableFinite, BootFrame DEF Usable
<1>2. TableComplete' <=> torn' \/ (OneReplaces /\ ServedUsable /\ \A j \in Instances : Complete(j))'
  BY DEF TableComplete, OneReplaces, ServedUsable, Complete
<1>3. torn => torn'
  BY <1>0 DEF TypeOK, Boot, Start, FindAdmin, InsertAdmin, CheckChain, CheckTable, GetKeys, DeleteAll, InsertKey, Filled,
       SignAdd, SendAdd, Added, NotAdded
<1>. DEFINE Goal == TableComplete'
<1>. SUFFICES ASSUME ~ torn' PROVE Goal
  BY <1>2
<1>4. OneReplaces /\ ServedUsable /\ \A j \in Instances : Complete(j)
  BY <1>3, TableCompleteIs
<1>5. \A j \in Instances : j # i => server'[j] = server[j]
  BY <1>0, BootFrame
<1>6. ASSUME UNCHANGED table, server'[i].pc = "serve" => server[i].pc = "serve", server'[i].replaces => server[i].replaces,
             server'[i].pc \notin {"delete", "fill"}
      PROVE  Goal
  BY <1>0, <1>1, <1>2, <1>4, <1>5, <1>6, CompleteKept
<1>7. Wanted[i] \in Nat /\ server[i].found \in Nat
  BY <1>0, AdminOK DEF Server
<1>8. Len(table) \in Nat /\ Len(table) <= Cardinality(Usable)
  BY TableFits
<1>9. \A j \in Instances : IsFiniteSet(server[j].keys) /\ Cardinality(server[j].keys) \in Nat /\ server[j].found \in Nat
  <2>. TAKE j \in Instances
  <2>1. server[j].keys \subseteq Usable /\ server[j].found \in Nat
    BY <1>0 DEF BootHonest, Honest, TypeOK, Server
  <2>. QED
    BY <1>1, <2>1, FS_Subset, FS_CardinalityType
<1>10. \A j \in Instances : server[j].pc \in {"delete", "fill"} => server[j].replaces
  BY DEF BootHonest, Honest, Replacing
<1>. HIDE DEF Goal
<1>11. CASE Start(i) \/ FindAdmin(i) \/ InsertAdmin(i) \/ CheckChain(i)
  BY <1>0, <1>6, <1>11, Goneto, Begun, Starts DEF Start, FindAdmin, InsertAdmin, CheckChain, Fatal
<1>12. CASE SendAdd(i) \/ Added(i)
  BY <1>0, <1>6, <1>12, Goneto DEF SendAdd, Added
<1>13. CASE SignAdd(i)
  <2>1. server'[i].pc = "send" /\ server'[i].replaces = server[i].replaces
    BY <1>0, <1>13 DEF SignAdd, TypeOK, Server
  <2>. QED
    BY <1>6, <1>13, <2>1 DEF SignAdd
<1>14. CASE NotAdded(i)
  BY <1>14 DEF NotAdded
<1>15. CASE CheckTable(i)
  <2>1. CASE Len(table) < Wanted[i]
    BY <1>0, <1>6, <1>15, <2>1, Goneto DEF CheckTable
  <2>2. CASE ~ (Len(table) < Wanted[i])
    <3>1. server' = [server EXCEPT ![i] = [Down EXCEPT !.pc = "serve"]] /\ UNCHANGED table
      BY <1>15, <2>2 DEF CheckTable
    <3>2. Wanted[i] <= Len(table) /\ Wanted[i] <= Cardinality(Usable)
      BY <1>1, <1>7, <1>8, <2>2
    <3>3. ASSUME NEW j \in Instances, server[j].pc \in {"delete", "fill"} PROVE Wanted[i] <= server[j].found
      <4>1. Len(table) <= server[j].found
        BY <1>4, <1>8, <1>9, <3>3 DEF Complete, At
      <4>. QED
        BY <1>7, <1>8, <1>9, <3>2, <4>1
    <3>4. (OneReplaces /\ ServedUsable /\ \A j \in Instances : Complete(j))'
      BY <1>0, <1>1, <1>4, <3>1, <3>2, <3>3, CompleteServes
    <3>. QED
      BY <1>2, <3>4 DEF Goal
  <2>. QED
    BY <2>1, <2>2
<1>16. CASE GetKeys(i)
  <2>1. /\ server'[i].pc = "delete" /\ server'[i].keys = Usable /\ server'[i].found = Cardinality(Usable)
        /\ UNCHANGED table
    BY <1>0, <1>16 DEF GetKeys, TypeOK, Server
  <2>2. \A j \in Instances : j # i => ~ server[j].replaces
    BY <1>16 DEF GetKeys
  <2>3. OneReplaces'
    BY <1>5, <2>2 DEF OneReplaces
  <2>4. ServedUsable'
    BY <1>1, <1>4, <1>5, <2>1 DEF ServedUsable, At
  <2>5. Complete(i)'
    BY <1>1, <1>4, <1>5, <1>8, <2>1 DEF Complete, ServedUsable, At
  <2>6. \A j \in Instances : j # i => Complete(j)'
    BY <1>5, <1>10, <2>2 DEF Complete, At
  <2>. QED
    BY <1>2, <2>3, <2>4, <2>5, <2>6 DEF Goal
<1>17. CASE DeleteAll(i) \/ InsertKey(i)
  <2>1. server[i].replaces /\ \A j \in Instances : j # i => ~ server[j].replaces
    BY <1>4, <1>10, <1>17 DEF DeleteAll, InsertKey, At, OneReplaces
  <2>2. \A j \in Instances : j # i => Complete(j)'
    BY <1>5, <1>10, <2>1 DEF Complete, At
  <2>3. OneReplaces'
    BY <1>5, <2>1 DEF OneReplaces
  <2>4. ASSUME server'[i].pc = "fill", Complete(i)' PROVE Goal
    <3>1. ServedUsable'
      BY <1>1, <1>4, <1>5, <2>4 DEF ServedUsable, At
    <3>. QED
      BY <1>2, <2>2, <2>3, <2>4, <3>1 DEF Goal
  <2>5. CASE DeleteAll(i)
    <3>1. /\ server[i].pc = "delete" /\ server'[i].pc = "fill" /\ server'[i].keys = server[i].keys
          /\ server'[i].found = server[i].found /\ table' = <<>>
      BY <1>0, <2>5, Goneto DEF DeleteAll, At
    <3>2. Len(table') = 0 /\ Range(table') = {}
      BY <3>1 DEF Range
    <3>3. Complete(i)'
      BY <1>4, <1>5, <1>7, <1>9, <3>1, <3>2 DEF Complete, At
    <3>. QED
      BY <2>4, <3>1, <3>3
  <2>6. CASE InsertKey(i)
    <3>1. At(i, "fill") /\ server[i].keys \intersect Range(table) = {}
      BY <1>4, <2>6 DEF InsertKey, Complete
    <3>2. PICK key \in server[i].keys : Inserts(i, key)
      BY <2>6, <3>1 DEF InsertKey, Inserts
    <3>3. /\ server'[i].pc = "fill" /\ server'[i].keys = server[i].keys \ {key}
          /\ server'[i].found = server[i].found
      BY <1>0, <3>1, <3>2 DEF Inserts, TypeOK, Server, At
    <3>4. Cardinality(server'[i].keys) = Cardinality(server[i].keys) - 1
      BY <1>9, <3>3, FS_RemoveElement
    <3>5. Len(table') = Len(table) + 1 /\ Range(table') = Range(table) \union {key}
      <4>1. key \in ProposalKey /\ table \in Seq(ProposalKey) /\ table' = Append(table, key)
        BY <1>0, <3>2 DEF Inserts, TypeOK, Server
      <4>. QED
        BY ONLY <4>1, AppendedRange
    <3>6. Complete(i)'
      <4>1. server'[i].keys \intersect Range(table') = {}
        BY <3>1, <3>3, <3>5
      <4>2. Len(table) + Cardinality(server[i].keys) = server[i].found
        BY <1>4, <3>1 DEF Complete
      <4>3. Len(table') + Cardinality(server'[i].keys) = server'[i].found
        BY <1>8, <1>9, <3>3, <3>4, <3>5, <4>2
      <4>4. \A j \in Instances : server'[j].pc = "serve" => Wanted[j] <= server'[i].found
        BY <1>4, <1>5, <3>1, <3>3 DEF Complete, At
      <4>. QED
        BY <3>3, <4>1, <4>3, <4>4 DEF Complete, At
    <3>. QED
      BY <2>4, <3>3, <3>6
  <2>. QED
    BY <1>17, <2>5, <2>6
<1>18. CASE Filled(i)
  <2>1. CASE server[i].tx = 0 /\ server[i].found < Wanted[i]
    BY <1>0, <1>6, <1>18, <2>1, Goneto DEF Filled
  <2>2. CASE ~ (server[i].tx = 0 /\ server[i].found < Wanted[i])
    <3>1. server' = [server EXCEPT ![i] = [Down EXCEPT !.pc = "serve"]] /\ UNCHANGED table /\ server[i].pc = "fill"
      BY <1>18, <2>2 DEF Filled, At
    <3>2. Wanted[i] <= server[i].found
      BY <1>0, <1>7, <2>2, <3>1 DEF Honest
    <3>3. Wanted[i] <= Cardinality(Usable)
      BY <1>0, <1>1, <1>7, <3>1, <3>2 DEF Honest, Replacing
    <3>4. \A j \in Instances \ {i} : server[j].pc \notin {"delete", "fill"}
      BY <1>4, <1>10, <3>1 DEF OneReplaces
    <3>5. (OneReplaces /\ ServedUsable /\ \A j \in Instances : Complete(j))'
      BY <1>0, <1>1, <1>4, <3>1, <3>3, <3>4, CompleteServes
    <3>. QED
      BY <1>2, <3>5 DEF Goal
  <2>. QED
    BY <2>1, <2>2
<1>. QED
  BY <1>11, <1>12, <1>13, <1>14, <1>15, <1>16, <1>17, <1>18 DEF Boot

LEMMA TableCompleteStep ==
    ASSUME TableUsable, BootHonest, ThreadsHonest, TableComplete, [Next]_vars
    PROVE  TableComplete'
<1>1. TypeOK /\ UsableKept
  BY TableUsableIs, UsableStep
<1>2. TableComplete' <=> torn' \/ (OneReplaces /\ ServedUsable /\ \A j \in Instances : Complete(j))'
  BY DEF TableComplete, OneReplaces, ServedUsable, Complete
<1>3. ASSUME UNCHANGED <<server, table, torn>> PROVE TableComplete'
  BY <1>1, <1>2, <1>3, CompleteKept, TableCompleteIs
<1>4. ASSUME NEW i \in Instances, Crash(i) PROVE TableComplete'
  <2>1. server' = [server EXCEPT ![i] = Down] /\ UNCHANGED table /\ (torn => torn')
    BY <1>1, <1>4 DEF Crash, Fatal, TypeOK
  <2>2. server'[i] = Down /\ \A j \in Instances : j # i => server'[j] = server[j]
    BY <1>1, <2>1, Begun, Starts
  <2>. QED
    BY <1>1, <1>2, <2>1, <2>2, CompleteKept, TableCompleteIs, Starts
<1>. QED
  BY <1>3, <1>4, CompleteBoot, ThreadFrame, DecideFrame DEF Next, vars

\* An instance that begins to serve has found enough keys in the table, or has put them there.
LEMMA ServesStep ==
    ASSUME TableUsable, BootHonest, ThreadsHonest, TableComplete, ServesWithKeys, [Next]_vars
    PROVE  ServesWithKeys'
<1>1. TypeOK
  BY TableUsableIs
<1>2. \A i \in Instances : Wanted[i] \in Nat /\ server[i].found \in Nat
  BY <1>1, AdminOK DEF TypeOK, Server
<1>3. Len(table) \in Nat
  BY TableFits
<1>4. ASSUME UNCHANGED table, torn => torn', \A i \in Instances : server'[i].pc = "serve" => server[i].pc = "serve",
             torn' \/ \A i \in Instances : server[i].replaces => server'[i].replaces
      PROVE  ServesWithKeys'
  BY <1>4 DEF ServesWithKeys, At
<1>5. ASSUME NEW i \in Instances, Boot(i) PROVE ServesWithKeys'
  <2>. SUFFICES ASSUME ~ torn' PROVE ServesWithKeys'
    BY DEF ServesWithKeys
  <2>0. torn => torn'
    BY <1>1, <1>5 DEF TypeOK, Boot, Start, FindAdmin, InsertAdmin, CheckChain, CheckTable, GetKeys, DeleteAll, InsertKey,
       Filled, SignAdd, SendAdd, Added, NotAdded
  <2>1. OneReplaces /\ ServedUsable /\ (\A j \in Instances : Complete(j)) /\ Honest(i)
    BY <2>0, TableCompleteIs DEF BootHonest
  <2>2. \A j \in Instances : j # i => server'[j] = server[j]
    BY <1>1, <1>5, BootFrame
  <2>3. ASSUME server'[i].replaces PROVE ServesWithKeys'
    BY <2>3 DEF ServesWithKeys
  <2>4. ASSUME UNCHANGED table, server'[i].pc # "serve", ~ server[i].replaces PROVE ServesWithKeys'
    BY <1>4, <2>0, <2>2, <2>4
  <2>5. CASE Start(i) \/ FindAdmin(i) \/ InsertAdmin(i) \/ CheckChain(i)
    BY <1>1, <2>1, <2>4, <2>5, Goneto, Begun, Starts
       DEF Start, FindAdmin, InsertAdmin, CheckChain, Fatal, Honest, Replacing, At
  <2>6. CASE DeleteAll(i) \/ SendAdd(i) \/ Added(i)
    BY <1>1, <2>1, <2>3, <2>6, Goneto DEF DeleteAll, SendAdd, Added, Honest, Replacing, At
  <2>7. CASE SignAdd(i)
    <3>1. server'[i].replaces = server[i].replaces
      BY <1>1, <2>7 DEF SignAdd, TypeOK, Server
    <3>. QED
      BY <2>1, <2>3, <2>7, <3>1 DEF SignAdd, Honest, Replacing, At
  <2>8. CASE GetKeys(i)
    <3>1. server'[i].replaces
      BY <1>1, <2>8 DEF GetKeys, TypeOK, Server
    <3>. QED
      BY <2>3, <3>1
  <2>9. CASE InsertKey(i)
    <3>1. At(i, "fill") /\ server[i].keys \intersect Range(table) = {}
      BY <2>1, <2>9 DEF InsertKey, Complete
    <3>2. PICK key \in server[i].keys : Inserts(i, key)
      BY <2>9, <3>1 DEF InsertKey, Inserts
    <3>3. server'[i].replaces = server[i].replaces
      BY <1>1, <3>2 DEF Inserts, TypeOK, Server
    <3>. QED
      BY <2>1, <2>3, <3>1, <3>3 DEF Honest, Replacing, At
  <2>10. CASE NotAdded(i)
    BY <2>10 DEF NotAdded
  <2>11. CASE CheckTable(i)
    <3>1. ~ server[i].replaces /\ UNCHANGED table
      BY <2>1, <2>11 DEF CheckTable, Honest, Replacing, At
    <3>2. CASE Len(table) < Wanted[i]
      BY <1>1, <2>4, <2>11, <3>1, <3>2, Goneto DEF CheckTable
    <3>3. CASE ~ (Len(table) < Wanted[i])
      <4>1. server'[i].pc = "serve"
        BY <1>1, <2>11, <3>3, Begun, Serves DEF CheckTable
      <4>2. \A j \in Instances : j # i => server'[j].replaces = server[j].replaces
        BY <2>2
      <4>. QED
        BY <1>2, <1>3, <2>0, <2>2, <3>1, <3>3, <4>1 DEF ServesWithKeys, At
    <3>. QED
      BY <3>2, <3>3
  <2>12. CASE Filled(i)
    <3>1. server[i].pc = "fill" /\ server[i].keys = {} /\ UNCHANGED table /\ server[i].replaces
      BY <2>1, <2>12 DEF Filled, Honest, Replacing, At
    <3>2. CASE server[i].tx = 0 /\ server[i].found < Wanted[i]
      BY <1>1, <2>3, <2>12, <3>1, <3>2, Goneto DEF Filled
    <3>3. CASE ~ (server[i].tx = 0 /\ server[i].found < Wanted[i])
      <4>1. Len(table) = server[i].found
        <5>1. Cardinality(server[i].keys) = 0
          BY <3>1, FS_EmptySet
        <5>2. Len(table) + Cardinality(server[i].keys) = server[i].found
          BY <2>1, <3>1 DEF Complete, At
        <5>. QED
          BY <1>2, <1>3, <5>1, <5>2
      <4>2. Wanted[i] <= server[i].found
        BY <1>2, <2>1, <3>1, <3>3 DEF Honest
      <4>3. \A j \in Instances : server[j].pc = "serve" => Wanted[j] <= server[i].found
        BY <2>1, <3>1 DEF Complete, At
      <4>4. \A j \in Instances : server'[j].pc = "serve" => Wanted[j] <= Len(table')
        BY <2>2, <3>1, <4>1, <4>2, <4>3
      <4>. QED
        BY <1>2, <1>3, <3>1, <4>4 DEF ServesWithKeys, At
    <3>. QED
      BY <3>2, <3>3
  <2>. QED
    BY <1>5, <2>5, <2>6, <2>7, <2>8, <2>9, <2>10, <2>11, <2>12 DEF Boot
<1>6. ASSUME NEW i \in Instances, Crash(i) PROVE ServesWithKeys'
  <2>1. server'[i] = Down /\ \A j \in Instances : j # i => server'[j] = server[j]
    BY <1>1, <1>6, Begun, Starts DEF Crash, Fatal
  <2>2. UNCHANGED table /\ (torn => torn') /\ (server[i].replaces => torn')
    BY <1>1, <1>6 DEF Crash, TypeOK
  <2>. QED
    BY <1>4, <2>1, <2>2, Starts
<1>. QED
  BY <1>4, <1>5, <1>6, ThreadFrame, DecideFrame DEF Next, vars

-----------------------------------------------------------------------------
(* Keys are taken in turn.                                                 *)

\* A step by which no key is taken: a thread that still counts keeps its key and its count.
LEMMA QuietStep ==
    ASSUME TypeOK, ThreadsHonest, [Next]_vars, \A t \in Threads, kind \in Kinds : ~ Begin(t, kind), NEW t \in Threads
    PROVE  \/ thread'[t].pc = "idle" \/ thread'[t].reset
           \/ /\ UNCHANGED <<table, turn>> /\ thread[t].pc # "idle" /\ thread'[t].key = thread[t].key
              /\ thread'[t].picks = thread[t].picks /\ thread'[t].reset = thread[t].reset
<1>. DEFINE Goal == \/ thread'[t].pc = "idle" \/ thread'[t].reset
                    \/ /\ UNCHANGED <<table, turn>> /\ thread[t].pc # "idle" /\ thread'[t].key = thread[t].key
                       /\ thread'[t].picks = thread[t].picks /\ thread'[t].reset = thread[t].reset
<1>0. thread[t] \in Execution
  BY DEF TypeOK
<1>1. CASE TableChanges
  BY <1>1, Reset
<1>2. CASE UNCHANGED <<table, turn>> /\ thread'[t] = thread[t]
  BY <1>2
<1>3. CASE thread'[t] = Idle
  BY <1>3, Starts
<1>4. ASSUME NEW i \in Instances, Boot(i) PROVE Goal
  BY <1>1, <1>2, <1>4 DEF Boot, Start, FindAdmin, InsertAdmin, CheckChain, CheckTable, GetKeys, DeleteAll, InsertKey, Filled,
       SignAdd, SendAdd, Added, NotAdded
<1>5. ASSUME NEW u \in Threads, ThreadStep(u) PROVE Goal
  <2>1. CASE u # t
    <3>1. thread'[t] = thread[t] /\ UNCHANGED <<table, turn>>
      BY <1>5, <2>1, IsDone, ThreadGoneto
         DEF ThreadStep, Execute, Sign, Send, SendFails, Sealed, Failed, Save, AccountStored, CutOff, TypeOK
    <3>. QED
      BY <1>2, <3>1
  <2>2. CASE u = t
    <3>1. ASSUME Done(t) PROVE Goal
      BY <1>3, <3>1, IsDone
    <3>2. ASSUME NEW k \in DOMAIN txs, Execute(t, k) PROVE Goal
      BY <3>2 DEF Execute, Idle, TypeOK
    <3>3. CASE Sign(t)
      <4>1. CASE thread[t].kind = "raw"
        BY <3>1, <3>3, <4>1 DEF Sign
      <4>2. CASE thread[t].kind # "raw"
        <5>1. thread' = [thread EXCEPT ![t].pc = "send", ![t].tx = Len(txs) + 1] /\ UNCHANGED <<table, turn>>
          BY <3>3, <4>2 DEF Sign
        <5>2. /\ thread'[t].key = thread[t].key /\ thread'[t].picks = thread[t].picks
              /\ thread'[t].reset = thread[t].reset
          BY <1>0, <5>1 DEF TypeOK, Execution
        <5>. QED
          BY <3>3, <5>1, <5>2 DEF Sign
      <4>. QED
        BY <4>1, <4>2
    <3>4. CASE Send(t) \/ Sealed(t)
      BY <3>1, <3>4, ThreadGoneto DEF Send, Sealed
    <3>. QED
      BY <1>5, <2>2, <3>1, <3>2, <3>3, <3>4 DEF ThreadStep, SendFails, Failed, Save, AccountStored, CutOff
  <2>. QED
    BY <2>1, <2>2
<1>6. ASSUME NEW i \in Instances, Crash(i) PROVE Goal
  <2>1. thread'[t] = Idle \/ thread'[t] = thread[t]
    BY <1>6 DEF Crash
  <2>2. UNCHANGED <<table, turn>>
    BY <1>6 DEF Crash
  <2>. QED
    BY <1>2, <1>3, <2>1, <2>2
<1>7. Idle.pc = "idle" /\ InHand(t)
  BY Starts DEF ThreadsHonest
<1>. QED
  BY <1>2, <1>4, <1>5, <1>6, DecideFrame DEF Next, vars

\* A thread that takes a key counts anew, the others one more.
LEMMA PicksCounted ==
    ASSUME TypeOK, NEW t \in Threads, NEW kind \in Kinds, NEW n \in DOMAIN turn, Takes(t, kind, n)
    PROVE  /\ thread'[t].key = turn[n] /\ thread'[t].picks = 0 /\ thread'[t].pc = "sign"
           /\ \A u \in Threads : u # t /\ thread'[u].pc # "idle" =>
                /\ thread[u].pc # "idle" /\ thread'[u].key = thread[u].key
                /\ thread'[u].picks = thread[u].picks + 1 /\ thread'[u].reset = thread[u].reset
<1>1. thread'[t] = [Idle EXCEPT !.pc = "sign", !.kind = kind, !.key = turn[n]]
  BY DEF Takes
<1>2. thread'[t].key = turn[n] /\ thread'[t].picks = 0 /\ thread'[t].pc = "sign"
  BY <1>1 DEF Idle
<1>3. ASSUME NEW u \in Threads, u # t, thread'[u].pc # "idle"
      PROVE  /\ thread[u].pc # "idle" /\ thread'[u].key = thread[u].key
             /\ thread'[u].picks = thread[u].picks + 1 /\ thread'[u].reset = thread[u].reset
  <2>1. thread[u].pc # "idle" /\ thread'[u] = [thread[u] EXCEPT !.picks = @ + 1]
    BY <1>3, Starts DEF Takes
  <2>2. thread[u] \in Execution
    BY DEF TypeOK
  <2>. QED
    BY <2>1, <2>2 DEF Execution
<1>. QED
  BY <1>2, <1>3

LEMMA BehindStep ==
    ASSUME TypeOK, ThreadsHonest, BehindInTurn, [Next]_vars
    PROVE  BehindInTurn'
<1>. SUFFICES ASSUME NEW t \in Threads, thread'[t].pc # "idle", ~ thread'[t].reset
              PROVE  \E n \in DOMAIN turn' : turn'[n] = thread'[t].key /\ Len(turn') - n <= thread'[t].picks
  BY DEF BehindInTurn
<1>. PICK len \in Nat : len = Len(turn) /\ DOMAIN turn = 1..len
  BY Sequent
<1>0. len = Len(turn) /\ DOMAIN turn = 1..len
  OBVIOUS
<1>1. CASE \A u \in Threads, kind \in Kinds : ~ Begin(u, kind)
  BY <1>1, QuietStep DEF BehindInTurn
<1>2. ASSUME NEW u \in Threads, NEW kind \in Kinds, Begin(u, kind)
      PROVE  \E n \in DOMAIN turn' : turn'[n] = thread'[t].key /\ Len(turn') - n <= thread'[t].picks
  <2>1. PICK p \in DOMAIN turn : Takes(u, kind, p)
    BY <1>2, Chosen
  <2>2. /\ DOMAIN turn' = 1..len /\ Len(turn') = len /\ p \in 1..len
        /\ \A m \in 1..len : turn'[m] = IF m < p THEN turn[m] ELSE IF m < len THEN turn[m + 1] ELSE turn[p]
    BY <1>0, <2>1 DEF Takes
  <2>3. len \in 1..len /\ turn'[len] = turn[p] /\ len - len = 0
    BY ONLY <2>2, len \in Nat
  <2>4. CASE t = u
    <3>1. thread'[t].key = turn[p] /\ thread'[t].picks = 0
      BY <2>1, <2>4, PicksCounted
    <3>. QED
      BY <2>2, <2>3, <3>1
  <2>5. CASE t # u
    <3>1. /\ thread[t].pc # "idle" /\ thread'[t].key = thread[t].key
          /\ thread'[t].picks = thread[t].picks + 1 /\ ~ thread[t].reset
      BY <2>1, <2>5, PicksCounted
    <3>2. PICK n \in 1..len : turn[n] = thread[t].key /\ len - n <= thread[t].picks
      BY <1>0, <3>1 DEF BehindInTurn
    <3>3. thread[t].picks \in Nat
      BY DEF TypeOK, Execution
    <3>4. CASE n < p
      BY <2>2, <3>1, <3>2, <3>3, <3>4
    <3>5. CASE n = p
      BY <2>2, <2>3, <3>1, <3>2, <3>3, <3>5
    <3>6. CASE n > p
      <4>1. n - 1 \in 1..len /\ turn'[n - 1] = turn[n] /\ len - (n - 1) = len - n + 1
        BY ONLY <2>2, <3>6, n \in 1..len, len \in Nat
      <4>2. len - (n - 1) <= thread'[t].picks
        BY ONLY <3>1, <3>2, <3>3, <4>1, n \in 1..len, len \in Nat
      <4>. QED
        BY <2>2, <3>1, <3>2, <4>1, <4>2
    <3>. QED
      BY <2>2, <3>4, <3>5, <3>6
  <2>. QED
    BY <2>4, <2>5
<1>. QED
  BY <1>1, <1>2

LEMMA ImageFinite ==
    ASSUME NEW S, IsFiniteSet(S), NEW f
    PROVE  LET T == {f[x] : x \in S} IN IsFiniteSet(T) /\ Cardinality(T) <= Cardinality(S)
<1>. DEFINE T == {f[x] : x \in S}
            g == [x \in S |-> f[x]]
<1>1. g \in [S -> T] /\ \A y \in T : \E x \in S : g[x] = y
  OBVIOUS
<1>2. g \in Surjection(S, T)
  BY <1>1 DEF Surjection
<1>. HIDE DEF T, g
<1>3. IsFiniteSet(T) /\ Cardinality(T) <= Cardinality(S)
  BY <1>2, FS_Surjection
<1>. QED
  BY <1>3 DEF T

\* A key is taken from a place behind which are the others that could be taken.
LEMMA CandidatesBehind ==
    ASSUME TableUsable, NEW t \in Threads, NEW p \in DOMAIN turn, p \in Pick(t)
    PROVE  IsFiniteSet(Candidates(t)) /\ Cardinality(Candidates(t)) <= Len(turn) - p + 1
<1>. PICK len \in Nat : len = Len(turn) /\ DOMAIN turn = 1..len
  BY Sequent DEF TableUsable
<1>. DEFINE behind == {turn[m] : m \in p..len}
<1>1. IsFiniteSet(p..len) /\ Cardinality(p..len) = len - p + 1
  <2>1. p \in Int /\ len \in Int /\ p <= len
    OBVIOUS
  <2>. QED
    BY ONLY <2>1, FS_Interval
<1>2. IsFiniteSet(behind) /\ Cardinality(behind) <= len - p + 1
  <2>1. IsFiniteSet(behind) /\ Cardinality(behind) <= Cardinality(p..len)
    BY <1>1, ImageFinite
  <2>. QED
    BY <1>1, <2>1
<1>3. Candidates(t) \subseteq behind
  <2>1. Candidates(t) \subseteq Range(turn)
    BY DEF Candidates, Range, TableUsable
  <2>. QED
    BY <2>1 DEF Pick, Range
<1>. HIDE DEF behind
<1>. QED
  BY <1>2, <1>3, FS_Subset, FS_CardinalityType

\* Two executions and the key of both: one of them has counted the keys the other could have taken.
Apart(t, u) ==
    \/ thread[t].picks >= Cardinality(Candidates(u)) \/ thread[u].picks >= Cardinality(Candidates(t))
    \/ thread[t].reset \/ thread[u].reset

LEMMA InTurnIs ==
    InTurn <=> \A t, u \in Threads :
        t # u /\ thread[t].pc # "idle" /\ thread[u].pc # "idle" /\ thread[t].key = thread[u].key => Apart(t, u)
BY DEF InTurn, Apart

LEMMA InTurnStep ==
    ASSUME TableUsable, ThreadsHonest, TurnOnce, BehindInTurn, InTurn, [Next]_vars
    PROVE  InTurn'
<1>. SUFFICES ASSUME NEW t \in Threads, NEW u \in Threads,
                     t # u, thread'[t].pc # "idle", thread'[u].pc # "idle", thread'[t].key = thread'[u].key
              PROVE  Apart(t, u)'
  BY DEF InTurn, Apart
<1>0. TypeOK
  BY DEF TableUsable
<1>1. CASE thread'[t].reset \/ thread'[u].reset
  BY <1>1 DEF Apart
<1>2. CASE \A v \in Threads, kind \in Kinds : ~ Begin(v, kind)
  <2>1. CASE ~ thread'[t].reset /\ ~ thread'[u].reset
    <3>1. /\ UNCHANGED table
          /\ thread[t].pc # "idle" /\ thread'[t].key = thread[t].key /\ thread'[t].picks = thread[t].picks
          /\ thread[u].pc # "idle" /\ thread'[u].key = thread[u].key /\ thread'[u].picks = thread[u].picks
          /\ thread'[t].reset = thread[t].reset /\ thread'[u].reset = thread[u].reset
      BY <1>0, <1>2, <2>1, QuietStep
    <3>2. Apart(t, u)
      BY <3>1, InTurnIs
    <3>3. Candidates(t)' = Candidates(t) /\ Candidates(u)' = Candidates(u)
      BY <3>1 DEF Candidates
    <3>. QED
      BY <3>1, <3>2, <3>3 DEF Apart
  <2>. QED
    BY <1>1, <2>1
<1>3. ASSUME NEW v \in Threads, NEW kind \in Kinds, Begin(v, kind) PROVE Apart(t, u)'
  <2>1. PICK p \in DOMAIN turn : Takes(v, kind, p)
    BY <1>0, <1>3, Chosen
  <2>2. UNCHANGED table
    BY <1>3 DEF Begin
  <2>3. \A w \in Threads : Candidates(w)' = Candidates(w)
    BY <2>2 DEF Candidates
  <2>4. \A w \in Threads : thread[w].picks \in Nat
    BY <1>0 DEF TypeOK, Execution
  <2>5. p \in Pick(v)
    BY <2>1 DEF Takes
  <2>6. /\ thread'[v].key = turn[p]
        /\ \A w \in Threads : w # v /\ thread'[w].pc # "idle" =>
             /\ thread[w].pc # "idle" /\ thread'[w].key = thread[w].key
             /\ thread'[w].picks = thread[w].picks + 1 /\ thread'[w].reset = thread[w].reset
    BY <1>0, <2>1, PicksCounted
  \* A thread that has the same key in hand stands where the key was taken.
  <2>7. ASSUME NEW w \in Threads, w # v, thread'[w].pc # "idle", thread'[w].key = turn[p], ~ thread'[w].reset
        PROVE  thread'[w].picks >= Cardinality(Candidates(v)')
    <3>1. thread[w].pc # "idle" /\ thread[w].key = turn[p] /\ ~ thread[w].reset /\ thread'[w].picks = thread[w].picks + 1
      BY <2>6, <2>7
    <3>2. PICK n \in DOMAIN turn : turn[n] = turn[p] /\ Len(turn) - n <= thread[w].picks
      BY <3>1 DEF BehindInTurn
    <3>3. n = p
      BY <3>2 DEF TurnOnce
    <3>4. Len(turn) \in Nat /\ p \in Nat
      BY <1>0, Sequent
    <3>5. IsFiniteSet(Candidates(v)) /\ Cardinality(Candidates(v)) <= Len(turn) - p + 1
      BY <2>5, CandidatesBehind
    <3>6. Cardinality(Candidates(v)) \in Nat
      BY <3>5, FS_CardinalityType
    <3>7. Cardinality(Candidates(v)) <= thread[w].picks + 1
      BY <2>4, <3>2, <3>3, <3>4, <3>5, <3>6
    <3>. QED
      BY <2>3, <2>4, <3>1, <3>6, <3>7
  <2>8. CASE v = t
    BY <1>1, <2>6, <2>7, <2>8 DEF Apart
  <2>9. CASE v = u
    BY <1>1, <2>6, <2>7, <2>9 DEF Apart
  <2>10. CASE v # t /\ v # u
    <3>1. /\ thread[t].pc # "idle" /\ thread'[t].key = thread[t].key /\ thread'[t].picks = thread[t].picks + 1
          /\ thread[u].pc # "idle" /\ thread'[u].key = thread[u].key /\ thread'[u].picks = thread[u].picks + 1
          /\ thread'[t].reset = thread[t].reset /\ thread'[u].reset = thread[u].reset
      BY <2>6, <2>10
    <3>2. Apart(t, u)
      BY <3>1, InTurnIs
    <3>3. \A w \in Threads : Cardinality(Candidates(w)) \in Nat
      <4>. TAKE w \in Threads
      <4>1. Candidates(w) \subseteq Range(table) /\ table \in Seq(ProposalKey)
        BY <1>0 DEF Candidates, Range, TypeOK
      <4>2. IsFiniteSet(Range(table))
        BY <1>0, LengthOfRange DEF TableUsable, TypeOK
      <4>. QED
        BY <4>1, <4>2, FS_Subset, FS_CardinalityType
    <3>. QED
      BY <2>3, <2>4, <3>1, <3>2, <3>3 DEF Apart
  <2>. QED
    BY <2>8, <2>9, <2>10
<1>. QED
  BY <1>2, <1>3

-----------------------------------------------------------------------------
(* Accounts that nobody has a key of.                                      *)

Held(k) == \E t \in Threads : thread[t].tx = k

\* The transaction has created an account, or may do so, that is not stored.
Creates(k) == txs[k].kind = "account" /\ txs[k].state \in {"pending", "sealed"} /\ k \notin stored

LEMMA OrphansAre == Orphans = {k \in DOMAIN txs : Creates(k) /\ ~ Held(k)}
BY DEF Orphans, Creates, Held

LEMMA OrphansFinite ==
    ASSUME TypeOK
    PROVE  IsFiniteSet(Orphans) /\ Cardinality(Orphans) \in Nat
<1>1. Len(txs) \in Nat /\ Orphans \subseteq 1..Len(txs)
  BY Sequent DEF Orphans
<1>2. IsFiniteSet(1..Len(txs))
  BY ONLY <1>1, FS_Interval
<1>. QED
  BY <1>1, <1>2, FS_Subset, FS_CardinalityType

\* As many transactions become orphans as are counted.
LEMMA OrphansBound ==
    ASSUME TypeOK, TypeOK', OrphansAccounted, NEW T, IsFiniteSet(T), Orphans' \subseteq Orphans \union T,
           cut' >= cut + Cardinality(T)
    PROVE  OrphansAccounted'
<1>1. IsFiniteSet(Orphans) /\ Cardinality(Orphans) \in Nat /\ Cardinality(T) \in Nat
  BY OrphansFinite, FS_CardinalityType
<1>2. /\ IsFiniteSet(Orphans \union T)
      /\ Cardinality(Orphans \union T) = Cardinality(Orphans) + Cardinality(T) - Cardinality(Orphans \intersect T)
  BY <1>1, FS_Union
<1>3. Cardinality(Orphans \intersect T) \in Nat
  BY <1>1, FS_Subset, FS_CardinalityType
<1>4. Cardinality(Orphans \union T) \in Nat
  BY <1>2, FS_CardinalityType
<1>5. IsFiniteSet(Orphans') /\ Cardinality(Orphans') <= Cardinality(Orphans \union T)
  BY <1>2, FS_Subset
<1>6. Cardinality(Orphans') \in Nat
  BY <1>5, FS_CardinalityType
<1>7. cut \in Nat /\ cut' \in Nat /\ Cardinality(Orphans) <= cut
  BY DEF TypeOK, OrphansAccounted
<1>8. Cardinality(Orphans') <= cut'
  BY <1>1, <1>2, <1>3, <1>4, <1>5, <1>6, <1>7
<1>. QED
  BY <1>8 DEF OrphansAccounted

\* No transaction becomes an orphan.
LEMMA NoMoreOrphans ==
    ASSUME TypeOK, TypeOK', OrphansAccounted, cut' >= cut,
           \A k \in DOMAIN txs' : (Creates(k) /\ ~ Held(k))' => k \in DOMAIN txs /\ Creates(k) /\ ~ Held(k)
    PROVE  OrphansAccounted'
<1>1. Orphans' = {k \in DOMAIN txs' : (Creates(k) /\ ~ Held(k))'}
  BY DEF Orphans, Creates, Held
<1>2. Orphans' \subseteq Orphans \union {}
  BY <1>1, OrphansAre
<1>3. IsFiniteSet({}) /\ Cardinality({}) = 0
  BY FS_EmptySet
<1>4. cut' >= cut + Cardinality({})
  BY <1>3 DEF TypeOK
<1>. QED
  BY <1>2, <1>3, <1>4, OrphansBound

\* What a thread has in hand without waiting for an account has created none.
LEMMA Innocent ==
    ASSUME TypeOK, ThreadsHonest, NEW t \in Threads, ~ Sending(t), NEW k \in DOMAIN txs, thread[t].tx = k
    PROVE  ~ Creates(k)
<1>1. InHand(t) /\ thread[t] \in Execution /\ k # 0
  BY Sequent DEF ThreadsHonest, TypeOK
<1>2. thread[t].pc \in {"send", "wait", "save"}
  BY <1>1, Starts DEF InHand, Execution
<1>. QED
  BY <1>1, <1>2 DEF InHand, Sending, Creates

\* Only the thread that moves lets go of a transaction.
LEMMA OthersHold ==
    ASSUME TypeOK, ThreadsHonest, NEW t \in Threads, ThreadStep(t), NEW k, ~ (Held(k)'), Held(k)
    PROVE  thread[t].tx = k /\ thread'[t].tx # k
<1>1. PICK u \in Threads : thread[u].tx = k
  BY DEF Held
<1>2. thread'[u].tx # k
  BY DEF Held
<1>3. InHand(u)
  BY DEF ThreadsHonest
<1>. QED
  BY <1>1, <1>2, <1>3, OthersKeep

LEMMA OrphansThread ==
    ASSUME TypeOK, TypeOK', BootHonest, ThreadsHonest, OrphansAccounted, NEW t \in Threads, ThreadStep(t)
    PROVE  OrphansAccounted'
<1>0. InHand(t) /\ thread[t] \in Execution /\ cut \in Nat /\ Next /\ TxsKept
  <2>. Next
    BY DEF Next
  <2>. QED
    BY TxsStep DEF ThreadsHonest, TypeOK
\* A thread that waits for no account may let go of anything, while no transaction is sent.
<1>1. ASSUME UNCHANGED txs, stored \subseteq stored', cut' >= cut,
             \A k \in DOMAIN txs : thread[t].tx = k /\ Creates(k) /\ Creates(k)' => thread'[t].tx = k
      PROVE  OrphansAccounted'
  <2>. SUFFICES ASSUME NEW k \in DOMAIN txs', (Creates(k) /\ ~ Held(k))'
                PROVE  k \in DOMAIN txs /\ Creates(k) /\ ~ Held(k)
    BY <1>1, NoMoreOrphans
  <2>1. k \in DOMAIN txs /\ Creates(k)
    BY <1>1 DEF Creates
  <2>2. ASSUME Held(k) PROVE FALSE
    <3>1. thread[t].tx = k /\ thread'[t].tx # k
      BY <2>2, OthersHold
    <3>. QED
      BY <1>1, <2>1, <3>1
  <2>. QED
    BY <2>1, <2>2
<1>2. ASSUME UNCHANGED <<txs, stored>>, cut' >= cut, ~ Sending(t) PROVE OrphansAccounted'
  BY <1>1, <1>2, Innocent
<1>3. CASE \E kind \in Kinds : Begin(t, kind)
  BY <1>0, <1>2, <1>3 DEF Begin, Sending
<1>4. CASE \E k \in DOMAIN txs : Execute(t, k)
  BY <1>0, <1>2, <1>4 DEF Execute, Sending
<1>5. CASE Sign(t)
  <2>. SUFFICES ASSUME NEW k \in DOMAIN txs', (Creates(k) /\ ~ Held(k))'
                PROVE  k \in DOMAIN txs /\ Creates(k) /\ ~ Held(k)
    BY <1>0, <1>5, NoMoreOrphans DEF Sign
  <2>1. k \in DOMAIN txs /\ txs'[k] = txs[k]
    <3>. PICK tx : tx = [kind |-> thread[t].kind, key |-> thread[t].key, seq |-> chain[thread[t].key].seq,
                         count |-> 0, state |-> "signed"]
      OBVIOUS
    <3>1. txs' = Append(txs, tx) /\ tx.state = "signed"
      BY <1>5 DEF Sign, Signed
    <3>2. (k \in DOMAIN txs /\ txs'[k] = txs[k]) \/ txs'[k] = tx
      BY <3>1, Sequent
    <3>. QED
      BY <3>1, <3>2 DEF Creates
  <2>2. Creates(k)
    BY <1>5, <2>1 DEF Creates, Sign
  <2>3. thread[t].tx = 0 /\ k # 0
    BY <1>0, <1>5, <2>1, Sequent DEF Sign, InHand
  <2>. QED
    BY <2>1, <2>2, <2>3, OthersHold
<1>6. ASSUME Sent(thread[t].tx), thread[t].pc = "send", UNCHANGED stored PROVE
        \A k \in DOMAIN txs' : k # thread[t].tx /\ (Creates(k) /\ ~ Held(k))' => k \in DOMAIN txs /\ Creates(k) /\ ~ Held(k)
  <2>. SUFFICES ASSUME NEW k \in DOMAIN txs', k # thread[t].tx, (Creates(k) /\ ~ Held(k))'
                PROVE  k \in DOMAIN txs /\ Creates(k) /\ ~ Held(k)
    OBVIOUS
  <2>1. k \in DOMAIN txs /\ txs'[k] = txs[k]
    BY <1>0, <1>6, SentOnce DEF InHand
  <2>. QED
    BY <1>6, <2>1, OthersHold DEF Creates
<1>7. CASE Send(t)
  <2>1. thread'[t].tx = thread[t].tx
    BY <1>7, ThreadGoneto DEF Send
  <2>. QED
    BY <1>0, <1>6, <1>7, <2>1, NoMoreOrphans DEF Send, Held
<1>8. CASE SendFails(t)
  <2>1. CASE UNCHANGED <<txs, cut>>
    BY <1>0, <1>2, <1>8, <2>1 DEF SendFails, Sending
  <2>2. CASE Sent(thread[t].tx) /\ cut' = cut + (IF thread[t].kind = "account" THEN 1 ELSE 0)
    <3>. PICK j \in DOMAIN txs : j = thread[t].tx
      BY <1>0, <1>8 DEF SendFails, InHand
    <3>1. \A k \in DOMAIN txs' : k # j /\ (Creates(k) /\ ~ Held(k))' => k \in DOMAIN txs /\ Creates(k) /\ ~ Held(k)
      BY <1>6, <1>8, <2>2 DEF SendFails
    <3>2. CASE thread[t].kind = "account"
      <4>1. Orphans' \subseteq Orphans \union {j}
        <5>1. Orphans' = {k \in DOMAIN txs' : (Creates(k) /\ ~ Held(k))'}
          BY DEF Orphans, Creates, Held
        <5>. QED
          BY <3>1, <5>1, OrphansAre
      <4>2. IsFiniteSet({j}) /\ Cardinality({j}) = 1
        BY FS_Singleton
      <4>. QED
        BY <1>0, <2>2, <3>2, <4>1, <4>2, OrphansBound
    <3>3. CASE thread[t].kind # "account"
      <4>1. txs'[j].kind # "account"
        BY <1>0, <1>8, <3>3 DEF SendFails, InHand, TxsKept
      <4>2. ~ (Creates(j)')
        BY <4>1 DEF Creates
      <4>. QED
        BY <1>0, <2>2, <3>1, <3>3, <4>2, NoMoreOrphans
    <3>. QED
      BY <3>2, <3>3
  <2>. QED
    BY <1>8, <2>1, <2>2 DEF SendFails
<1>9. CASE Sealed(t)
  <2>1. CASE thread[t].kind = "raw"
    BY <1>0, <1>2, <1>9, <2>1 DEF Sealed, Sending
  <2>2. CASE thread[t].kind # "raw"
    <3>1. thread'[t].tx = thread[t].tx
      BY <1>9, <2>2, ThreadGoneto DEF Sealed
    <3>. QED
      BY <1>0, <1>1, <1>9, <3>1 DEF Sealed
  <2>. QED
    BY <2>1, <2>2
<1>10. CASE Failed(t)
  BY <1>0, <1>1, <1>10 DEF Failed, Creates
<1>11. CASE Save(t)
  BY <1>0, <1>1, <1>11 DEF Save, AccountStored, Creates
<1>12. CASE CutOff(t)
  <2>1. UNCHANGED <<txs, stored>> /\ cut' = cut + Cardinality({u \in {t} : Sending(u)}) /\ thread[t].pc \in {"wait", "save"}
    BY <1>12 DEF CutOff, Cut
  <2>2. CASE Sending(t)
    <3>. PICK j : j = thread[t].tx
      OBVIOUS
    <3>1. IsFiniteSet({j}) /\ Cardinality({j}) = 1 /\ cut' = cut + 1
      <4>1. {u \in {t} : Sending(u)} = {t}
        BY <2>2
      <4>. QED
        BY <2>1, <4>1, FS_Singleton
    <3>2. Orphans' \subseteq Orphans \union {j}
      <4>1. Orphans' = {k \in DOMAIN txs' : (Creates(k) /\ ~ Held(k))'}
        BY DEF Orphans, Creates, Held
      <4>2. ASSUME NEW k \in DOMAIN txs', (Creates(k) /\ ~ Held(k))', k # j
            PROVE  k \in DOMAIN txs /\ Creates(k) /\ ~ Held(k)
        BY <2>1, <4>2, OthersHold DEF Creates
      <4>. QED
        BY <4>1, <4>2, OrphansAre
    <3>. QED
      BY <1>0, <3>1, <3>2, OrphansBound
  <2>3. CASE ~ Sending(t)
    <3>1. {u \in {t} : Sending(u)} = {}
      BY <2>3
    <3>2. cut' = cut
      BY <1>0, <2>1, <3>1, FS_EmptySet
    <3>. QED
      BY <1>0, <1>2, <2>1, <2>3, <3>2
  <2>. QED
    BY <2>2, <2>3
<1>. QED
  BY <1>3, <1>4, <1>5, <1>7, <1>8, <1>9, <1>10, <1>11, <1>12 DEF ThreadStep

LEMMA OrphansStep ==
    ASSUME TypeOK, TypeOK', BootHonest, ThreadsHonest, OrphansAccounted, [Next]_vars
    PROVE  OrphansAccounted'
<1>0. cut \in Nat
  BY DEF TypeOK
\* A step of somebody who has no transaction of an account in hand.
<1>1. ASSUME \A k \in DOMAIN txs' : Creates(k)' => k \in DOMAIN txs /\ Creates(k),
             \A t \in Threads : thread'[t].tx = thread[t].tx, cut' = cut
      PROVE  OrphansAccounted'
  BY <1>0, <1>1, NoMoreOrphans DEF Held
<1>2. CASE UNCHANGED <<txs, stored, cut>> /\ \A t \in Threads : thread'[t].tx = thread[t].tx
  BY <1>1, <1>2 DEF Creates
<1>3. ASSUME NEW i \in Instances, Boot(i) PROVE OrphansAccounted'
  <2>1. UNCHANGED <<stored, cut>>
    BY <1>3, BootFrame
  <2>2. \A t \in Threads : thread'[t].tx = thread[t].tx
    BY <1>3, Reset DEF Boot, Start, FindAdmin, InsertAdmin, CheckChain, CheckTable, GetKeys, DeleteAll, InsertKey, Filled,
       SignAdd, SendAdd, Added, NotAdded
  <2>3. CASE UNCHANGED txs
    BY <1>2, <2>1, <2>2, <2>3
  <2>4. CASE SignAdd(i)
    <3>. PICK tx : tx = [kind |-> "keys", key |-> AdminKey, seq |-> chain[AdminKey].seq,
                         count |-> Wanted[i] - server[i].found, state |-> "signed"]
      OBVIOUS
    <3>1. txs' = Append(txs, tx) /\ tx.state = "signed"
      BY <2>4 DEF SignAdd, Signed
    <3>2. \A k \in DOMAIN txs' : (k \in DOMAIN txs /\ txs'[k] = txs[k]) \/ txs'[k] = tx
      BY <3>1, Sequent
    <3>. QED
      BY <1>1, <2>1, <2>2, <3>1, <3>2 DEF Creates
  <2>5. CASE SendAdd(i)
    <3>. PICK j \in DOMAIN txs : j = server[i].tx /\ txs[j].kind = "keys"
      BY <2>5 DEF SendAdd, At, BootHonest, Honest
    <3>1. Sent(j)
      BY <2>5 DEF SendAdd
    <3>2. /\ DOMAIN txs' = DOMAIN txs /\ txs'[j].kind = "keys"
          /\ \A k \in DOMAIN txs : k # j => txs'[k] = txs[k]
      BY <3>1, SentOnce
    <3>. QED
      BY <1>1, <2>1, <2>2, <3>2 DEF Creates
  <2>. QED
    BY <1>3, <2>3, <2>4, <2>5 DEF Boot, Start, FindAdmin, InsertAdmin, CheckChain, CheckTable, GetKeys, DeleteAll, InsertKey,
       Filled, Added, NotAdded
<1>4. ASSUME NEW j \in DOMAIN txs, Decides(j) PROVE OrphansAccounted'
  <2>1. UNCHANGED <<stored, thread, cut>>
    BY <1>4, DecideFrame
  <2>2. /\ DOMAIN txs' = DOMAIN txs /\ txs[j].state = "pending" /\ txs'[j].kind = txs[j].kind
        /\ \A k \in DOMAIN txs : k # j => txs'[k] = txs[k]
    BY <1>4, StateSet DEF Decides, Includes, Rejects
  <2>. QED
    BY <1>1, <2>1, <2>2 DEF Creates
<1>5. ASSUME NEW i \in Instances, Crash(i) PROVE OrphansAccounted'
  <2>. PICK S : S = {t \in {t \in Threads : Home[t] = i} : Sending(t)}
    OBVIOUS
  <2>. PICK f : f = [t \in Threads |-> thread[t].tx]
    OBVIOUS
  <2>. PICK T : T = {f[t] : t \in S}
    OBVIOUS
  <2>1. IsFiniteSet(S)
    BY AdminOK, FS_Subset
  <2>2. IsFiniteSet(T) /\ Cardinality(T) <= Cardinality(S)
    BY <2>1, ImageFinite
  <2>3. Cardinality(S) \in Nat /\ Cardinality(T) \in Nat
    BY <2>1, <2>2, FS_CardinalityType
  <2>4. UNCHANGED <<txs, stored>> /\ cut' = cut + Cardinality(S)
    BY <1>5 DEF Crash, Cut
  <2>5. Orphans' \subseteq Orphans \union T
    <3>1. Orphans' = {k \in DOMAIN txs' : (Creates(k) /\ ~ Held(k))'}
      BY DEF Orphans, Creates, Held
    <3>2. ASSUME NEW k \in DOMAIN txs', (Creates(k) /\ ~ Held(k))', k \notin T
          PROVE  k \in DOMAIN txs /\ Creates(k) /\ ~ Held(k)
      <4>1. k \in DOMAIN txs /\ Creates(k)
        BY <2>4, <3>2 DEF Creates
      <4>2. ASSUME NEW t \in Threads, thread[t].tx = k PROVE FALSE
        <5>1. Home[t] = i
          BY <1>5, <3>2, <4>2 DEF Crash, Held
        <5>2. ~ Sending(t)
          BY <3>2, <4>2, <5>1
        <5>. QED
          BY <4>1, <4>2, <5>2, Innocent
      <4>. QED
        BY <4>1, <4>2 DEF Held
    <3>. QED
      BY <3>1, <3>2, OrphansAre
  <2>6. cut' >= cut + Cardinality(T)
    BY <1>0, <2>2, <2>3, <2>4
  <2>. QED
    BY <2>2, <2>5, <2>6, OrphansBound
<1>. QED
  BY <1>2, <1>3, <1>4, <1>5, OrphansThread DEF Next, vars

LEMMA OrphansCounted ==
    ASSUME TypeOK, OrphansAccounted
    PROVE  AccountsAccounted
<1>. DEFINE L == {k \in Lost : \A t \in Threads : thread[t].tx # k}
<1>1. L \subseteq Orphans
  BY DEF Lost, Orphans
<1>2. IsFiniteSet(L) /\ Cardinality(L) <= Cardinality(Orphans) /\ Cardinality(L) \in Nat /\ Cardinality(Orphans) \in Nat
  BY <1>1, OrphansFinite, FS_Subset, FS_CardinalityType
<1>. QED
  BY <1>2 DEF OrphansAccounted, AccountsAccounted, TypeOK

-----------------------------------------------------------------------------
(* The theorems.                                                           *)

LEMMA AdminInitInv == Init => AdminInv
<1>. SUFFICES ASSUME Init PROVE AdminInv
  OBVIOUS
<1>1. TypeOK
  BY AdminInitType
<1>2. /\ \A i \in Instances : server[i] = Down
      /\ \A t \in Threads : thread[t] = Idle
      /\ table = <<>> /\ turn = <<>> /\ txs = <<>> /\ cut = 0 /\ stored = {}
  BY DEF Init
<1>3. DOMAIN table = {} /\ DOMAIN turn = {} /\ DOMAIN txs = {} /\ Len(table) = Len(turn) /\ Range(table) = {} /\ Range(turn) = {}
  BY <1>2 DEF Range
<1>4. TableUsable /\ TurnOnce
  BY <1>1, <1>3 DEF TableUsable, TurnOnce
<1>5. BootHonest
  BY <1>2, Starts DEF BootHonest, Honest, Replacing
<1>6. ThreadsHonest
  <2>1. AdminKey \in DOMAIN chain
    BY AdminOK DEF Init, AdminKey
  <2>. QED
    BY <1>2, <1>3, <2>1, Starts DEF ThreadsHonest, InHand, OneHand
<1>7. TableComplete /\ ServesWithKeys
  BY <1>2, Starts DEF TableComplete, ServesWithKeys, At
<1>8. OrphansAccounted
  <2>1. Orphans = {}
    BY <1>3 DEF Orphans
  <2>. QED
    BY <1>2, <2>1, FS_EmptySet DEF OrphansAccounted
<1>9. BehindInTurn /\ InTurn
  BY <1>2, Starts DEF BehindInTurn, InTurn
<1>. QED
  BY <1>4, <1>5, <1>6, <1>7, <1>8, <1>9 DEF AdminInv

LEMMA AdminStep == AdminInv /\ [Next]_vars => AdminInv'
<1>. SUFFICES ASSUME AdminInv, [Next]_vars PROVE AdminInv'
  OBVIOUS
<1>0. /\ TypeOK /\ TableUsable /\ BootHonest /\ ThreadsHonest /\ TurnOnce /\ TableComplete
      /\ ServesWithKeys /\ OrphansAccounted /\ BehindInTurn /\ InTurn
  BY DEF AdminInv, TableUsable
<1>1. TypeOK'
  BY <1>0, AdminTypeStep
<1>2. TableUsable' /\ TurnOnce'
  BY <1>0, TableUsableStep
<1>3. BootHonest'
  BY <1>0, BootHonestStep
<1>4. ThreadsHonest'
  BY <1>0, ThreadsHonestStep
<1>5. TableComplete' /\ ServesWithKeys'
  BY <1>0, TableCompleteStep, ServesStep
<1>6. OrphansAccounted'
  BY <1>0, <1>1, OrphansStep
<1>7. BehindInTurn' /\ InTurn'
  BY <1>0, BehindStep, InTurnStep
<1>. QED
  BY <1>2, <1>3, <1>4, <1>5, <1>6, <1>7 DEF AdminInv

\* The invariant holds of every behaviour of InitAdminAccount, ProposalKeyIndex and the jobs.
THEOREM AdminInductive == Spec => []AdminInv
<1>. QED
  BY AdminInitInv, AdminStep, PTL DEF Spec

\* InitAdminProposalKeys leaves no key twice in the table, none that is revoked and none that
\* the chain does not have, in whatever order the instances replace it.
THEOREM KeysUsable == Spec => []TableUsable
<1>1. AdminInv => TableUsable
  BY DEF AdminInv
<1>. QED
  BY <1>1, AdminInductive, PTL

\* An instance that has passed CheckAdminProposalKeyCount and InitAdminProposalKeys finds as many
\* keys as it is configured for, unless the table is being replaced or a replacement was disturbed.
THEOREM KeysEnough == Spec => []ServesWithKeys
<1>1. AdminInv => ServesWithKeys
  BY DEF AdminInv
<1>. QED
  BY <1>1, AdminInductive, PTL

\* createAccount loses the key of an account on chain only where an execution is cut off after
\* its transaction was sent.
THEOREM NoAccountUncounted == Spec => []AccountsAccounted
<1>1. AdminInv => AccountsAccounted
  BY OrphansCounted DEF AdminInv, TableUsable
<1>. QED
  BY <1>1, AdminInductive, PTL

\* ProposalKeyIndex gives a key out again only after all the others it could choose from.
THEOREM KeysInTurn == Spec => []InTurn
<1>1. AdminInv => InTurn
  BY DEF AdminInv
<1>. QED
  BY <1>1, AdminInductive, PTL
=============================================================================
