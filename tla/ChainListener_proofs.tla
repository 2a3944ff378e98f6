------------------------ MODULE ChainListener_proofs ------------------------
(***************************************************************************)
(* Proofs about ChainListener, for any number of listeners, blocks, types  *)
(* and faults: one listener at a time holds the status row, no block is    *)
(* passed over, the saved height never goes back, and an event that is     *)
(* triggered again was paid for with a lost save.                          *)
(***************************************************************************)
EXTENDS ChainListener, TLAPS

\* What the holder of the lock is about to save: its scan starts above the saved
\* height, and once it is about to save, every block of it has been triggered.
ScanIsAhead == \A l \in Listeners : pc[l] \in {"fetch", "save"} => height <= end[l]

ScanIsTriggered ==
    \A l \in Listeners : pc[l] = "save" =>
        \A b \in Blocks : height < b /\ b <= end[l] => triggered[b] > 0

IInv == TypeOK /\ LockedByHolder /\ NoGap /\ ScanIsAhead /\ ScanIsTriggered

\* Counting a disturbance keeps the counters natural numbers.
LEMMA DisturbType ==
    ASSUME TypeOK, NEW kind, Disturb(kind)
    PROVE  faults' \in [FaultKinds -> Nat]
BY ConstantsOK DEF TypeOK, Disturb

LEMMA InitInv == Init => IInv
<1>. SUFFICES ASSUME Init PROVE IInv
  OBVIOUS
<1>1. TypeOK
  BY ConstantsOK DEF Init, TypeOK
<1>2. LockedByHolder
  BY ConstantsOK DEF Init, LockedByHolder, Holding
<1>3. NoGap /\ ScanIsAhead /\ ScanIsTriggered
  BY DEF Init, NoGap, ScanIsAhead, ScanIsTriggered, Blocks
<1>. QED
  BY <1>1, <1>2, <1>3 DEF IInv

LEMMA TypeStep == TypeOK /\ [Next]_vars => TypeOK'
<1>. SUFFICES ASSUME TypeOK, [Next]_vars PROVE TypeOK'
  OBVIOUS
<1>1. CASE UNCHANGED vars
  BY <1>1 DEF vars, scan, events, TypeOK
<1>2. ASSUME NEW l \in Listeners, Boot(l) \/ BootLocked(l) \/ InitHeight(l) PROVE TypeOK'
  <2>1. NewHeight \in Nat
    BY ConstantsOK DEF TypeOK, NewHeight, Configured
  <2>. QED
    BY <1>2, <2>1 DEF TypeOK, Boot, BootLocked, InitHeight, Go, scan, events, Holding
<1>3. ASSUME NEW l \in Listeners, Tick(l) \/ NothingNew(l) \/ Save(l) PROVE TypeOK'
  BY <1>3 DEF TypeOK, Tick, NothingNew, Save, Go, scan, events, Holding
<1>4. ASSUME NEW l \in Listeners, Range(l) PROVE TypeOK'
  <2>1. LastOfScan \in Nat
    BY ConstantsOK DEF TypeOK, LastOfScan, Lesser
  <2>. QED
    BY <1>4, <2>1 DEF TypeOK, Range, Go, events, Holding
<1>5. ASSUME NEW l \in Listeners, NEW t \in Types, Fetch(l, t) PROVE TypeOK'
  BY <1>5 DEF TypeOK, Fetch, events
<1>6. ASSUME NEW l \in Listeners, Trigger(l) PROVE TypeOK'
  <2> DEFINE more == [b \in Blocks |-> pending[l][b] + IF b \in Scanned(l) THEN 1 ELSE 0]
  <2>1. triggered' \in [Blocks -> Nat]
    BY <1>6 DEF TypeOK, Trigger
  <2>2. pending \in [Listeners -> [Blocks -> Nat]]
    BY DEF TypeOK
  <2>3. more \in [Blocks -> Nat]
    BY <2>2
  <2>4. pending' = [pending EXCEPT ![l] = more]
    BY <1>6 DEF Trigger
  <2> HIDE DEF more
  <2>5. pending' \in [Listeners -> [Blocks -> Nat]]
    BY <2>2, <2>3, <2>4
  <2>. QED
    BY <1>6, <2>1, <2>5 DEF TypeOK, Trigger, Go, scan, Holding
<1>7. ASSUME NEW l \in Listeners,
             InitFails(l) \/ InitLost(l) \/ LoseChain(l) \/ LoseStore(l) \/ Crash(l)
      PROVE  TypeOK'
  <2>1. faults' \in [FaultKinds -> Nat]
    BY <1>7, DisturbType DEF InitFails, InitLost, LoseChain, LoseStore, Crash
  <2>2. pending' \in [Listeners -> [Blocks -> Nat]]
    <3>1. pending \in [Listeners -> [Blocks -> Nat]]
      BY DEF TypeOK
    <3>2. CASE pending' = [pending EXCEPT ![l] = [b \in Blocks |-> 0]]
      BY <3>1, <3>2
    <3>3. CASE pending' = pending
      BY <3>1, <3>3
    <3>. QED
      BY <1>7, <3>2, <3>3 DEF InitFails, InitLost, LoseChain, LoseStore, Crash, events
  <2>3. pc' \in [Listeners -> Holding \union {"down", "ready", "panicked"}]
    BY <1>7 DEF TypeOK, InitFails, InitLost, LoseChain, LoseStore, Crash, Go
  <2>. QED
    BY <1>7, <2>1, <2>2, <2>3
    DEF TypeOK, InitFails, InitLost, LoseChain, LoseStore, Crash, scan, events
<1>8. ASSUME NEW l \in Listeners, NEW b \in Blocks, Handle(l, b) \/ HandleFails(l, b)
      PROVE  TypeOK'
  <2>1. faults' \in [FaultKinds -> Nat]
    BY <1>8, DisturbType DEF TypeOK, Handle, HandleFails
  <2> DEFINE less == [pending[l] EXCEPT ![b] = @ - 1]
  <2>3. pending[l] \in [Blocks -> Nat] /\ pending[l][b] > 0
    BY <1>8 DEF TypeOK, Handle, HandleFails
  <2>4. less \in [Blocks -> Nat]
    BY <2>3
  <2>5. pending' = [pending EXCEPT ![l] = less]
    BY <1>8 DEF Handle, HandleFails
  <2> HIDE DEF less
  <2>2. pending' \in [Listeners -> [Blocks -> Nat]]
    BY <2>4, <2>5 DEF TypeOK
  <2>6. /\ UNCHANGED <<chain, height, lock, pc, scan, triggered, base, halted>>
        /\ handled' \subseteq Blocks
    BY <1>8 DEF TypeOK, Handle, HandleFails
  <2>. QED
    BY <2>1, <2>2, <2>6 DEF TypeOK, scan
<1>9. CASE Seal \/ Halt \/ Resume
  <2>1. faults' \in [FaultKinds -> Nat]
    BY <1>9, DisturbType DEF TypeOK, Seal, Halt, Resume
  <2>2. /\ UNCHANGED <<height, lock, pc, end, todo, pending, triggered, handled, base>>
    BY <1>9 DEF Seal, Halt, Resume, scan, events
  <2>3. chain' \in Nat
    BY <1>9 DEF TypeOK, Seal, Halt, Resume
  <2>4. halted' \in BOOLEAN
    BY <1>9 DEF TypeOK, Seal, Halt, Resume
  <2>. QED
    BY <2>1, <2>2, <2>3, <2>4 DEF TypeOK
<1>. QED
  BY <1>1, <1>2, <1>3, <1>4, <1>5, <1>6, <1>7, <1>8, <1>9
  DEF Next, ListenerStep, ListenerFault

\* The row lock is taken only when it is free, and kept as long as the listener
\* works on the row.
LEMMA LockStep == TypeOK /\ LockedByHolder /\ [Next]_vars => LockedByHolder'
<1>. SUFFICES ASSUME TypeOK, LockedByHolder, [Next]_vars PROVE LockedByHolder'
  OBVIOUS
<1>. USE DEF LockedByHolder, TypeOK, Holding, Go
<1>1. CASE UNCHANGED vars
  BY <1>1 DEF vars
<1>2. ASSUME NEW l \in Listeners, ListenerStep(l) PROVE LockedByHolder'
  BY <1>2, ConstantsOK
  DEF ListenerStep, Boot, InitHeight, Tick, Range, NothingNew, Fetch, Trigger, Save
<1>3. ASSUME NEW l \in Listeners, ListenerFault(l) PROVE LockedByHolder'
  <2>1. CASE BootLocked(l)
    BY <2>1, ConstantsOK DEF BootLocked
  <2>2. CASE InitFails(l) \/ InitLost(l) \/ LoseChain(l) \/ LoseStore(l)
    BY <2>2, ConstantsOK DEF InitFails, InitLost, LoseChain, LoseStore
  <2>3. CASE Crash(l)
    BY <2>3, ConstantsOK DEF Crash
  <2>. QED
    BY <1>3, <2>1, <2>2, <2>3 DEF ListenerFault
<1>4. ASSUME NEW l \in Listeners, NEW b \in Blocks, Handle(l, b) \/ HandleFails(l, b)
      PROVE  LockedByHolder'
  BY <1>4 DEF Handle, HandleFails
<1>5. CASE Seal \/ Halt \/ Resume
  BY <1>5 DEF Seal, Halt, Resume
<1>. QED
  BY <1>1, <1>2, <1>3, <1>4, <1>5 DEF Next

\* Only the holder of the lock is between reading the row and saving it.
LEMMA OneScan ==
    ASSUME LockedByHolder, NEW l \in Listeners, pc[l] \in Holding,
           NEW m \in Listeners, pc[m] \in {"fetch", "save"}
    PROVE  m = l
BY DEF LockedByHolder, Holding

LEMMA GapStep == IInv /\ TypeOK' /\ [Next]_vars => NoGap' /\ ScanIsAhead' /\ ScanIsTriggered'
<1>. SUFFICES ASSUME IInv, TypeOK', [Next]_vars
              PROVE  NoGap' /\ ScanIsAhead' /\ ScanIsTriggered'
  OBVIOUS
<1>. USE DEF IInv
<1>a. /\ \A b \in Blocks : b \in Nat
      /\ height \in Nat /\ chain \in Nat /\ base \in Nat
      /\ end \in [Listeners -> Nat] /\ triggered \in [Blocks -> Nat]
      /\ pc \in [Listeners -> Holding \union {"down", "ready", "panicked"}]
  BY DEF TypeOK, Blocks
<1>b. ASSUME UNCHANGED <<height, base, triggered, end>>,
             \A m \in Listeners : pc'[m] \in {"fetch", "save"} => pc'[m] = pc[m]
      PROVE  NoGap' /\ ScanIsAhead' /\ ScanIsTriggered'
  BY <1>b DEF NoGap, ScanIsAhead, ScanIsTriggered
<1>1. CASE UNCHANGED vars
  BY <1>1, <1>b DEF vars, scan, events
<1>2. ASSUME NEW l \in Listeners,
             Boot(l) \/ BootLocked(l) \/ InitFails(l) \/ InitLost(l) \/ Tick(l) \/ NothingNew(l)
             \/ LoseChain(l) \/ LoseStore(l) \/ Crash(l)
             \/ \E t \in Types : Fetch(l, t)
      PROVE  NoGap' /\ ScanIsAhead' /\ ScanIsTriggered'
  BY <1>2, <1>a, <1>b DEF Boot, BootLocked, InitFails, InitLost, Tick, NothingNew, LoseChain,
     LoseStore, Crash, Fetch, Go, scan, events
<1>3. ASSUME NEW l \in Listeners, InitHeight(l)
      PROVE  NoGap' /\ ScanIsAhead' /\ ScanIsTriggered'
  <2>1. \A m \in Listeners : pc'[m] \notin {"fetch", "save"}
    BY <1>3, <1>a, OneScan DEF InitHeight, Go, Holding
  <2>2. CASE height' = height
    BY <1>3, <2>1, <2>2 DEF InitHeight, NoGap, ScanIsAhead, ScanIsTriggered, events
  <2>3. CASE height' # height
    <3>1. base' = height'
      BY <1>3, <2>3 DEF InitHeight
    <3>2. height' \in Nat
      BY DEF TypeOK
    <3>. QED
      BY <1>a, <2>1, <3>1, <3>2 DEF NoGap, ScanIsAhead, ScanIsTriggered
  <2>. QED
    BY <2>2, <2>3
<1>4. ASSUME NEW l \in Listeners, Range(l)
      PROVE  NoGap' /\ ScanIsAhead' /\ ScanIsTriggered'
  <2>1. height <= LastOfScan
    BY <1>4, <1>a, ConstantsOK DEF Range, LastOfScan, Lesser
  <2>2. \A m \in Listeners : pc'[m] \in {"fetch", "save"} => m = l
    BY <1>4, <1>a, OneScan DEF Range, Go, Holding
  <2>. QED
    BY <1>4, <1>a, <2>1, <2>2 DEF Range, Go, NoGap, ScanIsAhead, ScanIsTriggered, events
<1>5. ASSUME NEW l \in Listeners, Trigger(l)
      PROVE  NoGap' /\ ScanIsAhead' /\ ScanIsTriggered'
  <2>1. \A b \in Blocks : /\ triggered[b] > 0 => triggered'[b] > 0
                          /\ b \in Scanned(l) => triggered'[b] > 0
    BY <1>5, <1>a DEF Trigger
  <2>2. UNCHANGED <<height, base, end>>
    BY <1>5 DEF Trigger, scan
  <2>3. \A m \in Listeners : pc'[m] \in {"fetch", "save"} => m = l
    BY <1>5, <1>a, OneScan DEF Trigger, Go, Holding
  <2>4. NoGap'
    BY <2>1, <2>2 DEF NoGap
  <2>5. ScanIsAhead'
    BY <1>5, <2>2, <2>3 DEF Trigger, ScanIsAhead
  <2>6. ScanIsTriggered'
    BY <2>1, <2>2, <2>3 DEF ScanIsTriggered, Scanned
  <2>. QED
    BY <2>4, <2>5, <2>6
<1>6. ASSUME NEW l \in Listeners, Save(l)
      PROVE  NoGap' /\ ScanIsAhead' /\ ScanIsTriggered'
  <2>1. height' = end[l] /\ height <= end[l] /\ UNCHANGED <<base, triggered, end>>
    BY <1>6 DEF Save, ScanIsAhead, scan, events
  <2>2. \A m \in Listeners : pc'[m] \notin {"fetch", "save"}
    BY <1>6, <1>a, OneScan DEF Save, Go, Holding
  <2>3. \A b \in Blocks : height < b /\ b <= end[l] => triggered[b] > 0
    BY <1>6 DEF Save, ScanIsTriggered
  <2>4. NoGap'
    BY <1>a, <2>1, <2>3 DEF NoGap
  <2>. QED
    BY <2>2, <2>4 DEF ScanIsAhead, ScanIsTriggered
<1>7. ASSUME NEW l \in Listeners, NEW b \in Blocks, Handle(l, b) \/ HandleFails(l, b)
      PROVE  NoGap' /\ ScanIsAhead' /\ ScanIsTriggered'
  BY <1>7, <1>b DEF Handle, HandleFails, scan
<1>8. CASE Seal \/ Halt \/ Resume
  BY <1>8, <1>b DEF Seal, Halt, Resume, scan, events
<1>. QED
  BY <1>1, <1>2, <1>3, <1>4, <1>5, <1>6, <1>7, <1>8 DEF Next, ListenerStep, ListenerFault

\* The inductive invariant of the listeners.
THEOREM Inductive == Spec => []IInv
<1>1. IInv /\ [Next]_vars => IInv'
  BY TypeStep, LockStep, GapStep DEF IInv
<1>. QED
  BY <1>1, InitInv, PTL DEF Spec

\* Every reachable state of the listeners is well typed.
THEOREM TypeCorrect == Spec => []TypeOK
<1>1. IInv => TypeOK
  BY DEF IInv
<1>. QED
  BY <1>1, Inductive, PTL

\* No block after base is passed over: the saved height never exceeds what has
\* been triggered, for any number of listeners and any crashes.
THEOREM NoBlockSkipped == Spec => []NoGap
<1>1. IInv => NoGap
  BY DEF IInv
<1>. QED
  BY <1>1, Inductive, PTL

\* The saved height never goes back.
THEOREM HeightNeverBack == Spec => HeightGrows
<1>1. IInv /\ [Next]_vars => [height <= height']_height
  <2>. SUFFICES ASSUME IInv, [Next]_vars, height' # height PROVE height <= height'
    OBVIOUS
  <2>1. \E l \in Listeners : InitHeight(l) \/ Save(l)
    BY DEF Next, ListenerStep, ListenerFault, vars, Boot, BootLocked, InitFails, InitLost, Tick,
       Range, NothingNew, Fetch, Trigger, LoseChain, LoseStore, Crash, Handle,
       HandleFails, Seal, Halt, Resume
  <2>2. PICK l \in Listeners : InitHeight(l) \/ Save(l)
    BY <2>1
  <2>3. height \in Nat /\ chain \in Nat
    BY DEF IInv, TypeOK
  <2>4. CASE InitHeight(l)
    BY <2>3, <2>4, ConstantsOK DEF InitHeight, NewHeight, Configured
  <2>5. CASE Save(l)
    BY <2>5 DEF Save, IInv, ScanIsAhead
  <2>. QED
    BY <2>2, <2>4, <2>5
<1>. QED
  BY <1>1, Inductive, PTL DEF Spec, HeightGrows

-----------------------------------------------------------------------------
(* How often the event of a block is triggered.                            *)

\* The saves that may not have been: failed saves and commits, and crashes.
LostSaves == faults["store"] + faults["crash"]

AboutToSave(b) == \E l \in Listeners : pc[l] = "save" /\ b <= end[l]

\* An event that is neither saved nor about to be was triggered for lost saves only.
UnsavedIsOwed ==
    \A b \in Blocks : height < b /\ ~ AboutToSave(b) => triggered[b] <= LostSaves

OnceInv == UnsavedIsOwed /\ OnceUnlessLost

\* A step that triggers nothing and gives up no save.
LEMMA NothingTriggered ==
    ASSUME IInv, IInv', OnceInv, [Next]_vars, UNCHANGED triggered,
           height <= height', LostSaves <= LostSaves',
           \A b \in Blocks : height' < b /\ AboutToSave(b) =>
               AboutToSave(b)' \/ LostSaves < LostSaves'
    PROVE  OnceInv'
<1>1. /\ \A b \in Blocks : b \in Nat
      /\ height \in Nat /\ height' \in Nat /\ triggered \in [Blocks -> Nat]
      /\ LostSaves \in Nat /\ LostSaves' \in Nat
  <2>1. faults \in [FaultKinds -> Nat] /\ faults' \in [FaultKinds -> Nat]
    BY DEF IInv, TypeOK
  <2>2. LostSaves \in Nat /\ LostSaves' \in Nat
    BY <2>1 DEF LostSaves, FaultKinds
  <2>. QED
    BY <2>2 DEF IInv, TypeOK, Blocks
<1>2. OnceUnlessLost <=> \A b \in Blocks : triggered[b] <= 1 + LostSaves
  BY <1>1 DEF OnceUnlessLost, LostSaves, IInv, TypeOK, FaultKinds
<1>3. OnceUnlessLost' <=> \A b \in Blocks : triggered'[b] <= 1 + LostSaves'
  BY <1>1 DEF OnceUnlessLost, LostSaves, IInv, TypeOK, FaultKinds
<1>4. OnceUnlessLost'
  BY <1>1, <1>2, <1>3 DEF OnceInv
<1>5. ASSUME NEW b \in Blocks, height' < b, ~ AboutToSave(b)'
      PROVE  triggered'[b] <= LostSaves'
  <2>1. CASE AboutToSave(b)
    <3>1. LostSaves < LostSaves'
      BY <1>5, <2>1
    <3>2. triggered[b] <= 1 + LostSaves
      BY <1>2 DEF OnceInv
    <3>. QED
      BY <1>1, <3>1, <3>2
  <2>2. CASE ~ AboutToSave(b)
    <3>1. height < b
      BY <1>1, <1>5
    <3>2. triggered[b] <= LostSaves
      BY <2>2, <3>1 DEF OnceInv, UnsavedIsOwed
    <3>. QED
      BY <1>1, <3>2
  <2>. QED
    BY <2>1, <2>2
<1>6. UnsavedIsOwed'
  BY <1>5 DEF UnsavedIsOwed
<1>. QED
  BY <1>4, <1>6 DEF OnceInv

\* Counting a disturbance never makes fewer lost saves.
LEMMA DisturbGrows ==
    ASSUME TypeOK, NEW kind, Disturb(kind)
    PROVE  /\ LostSaves <= LostSaves'
           /\ kind \in {"store", "crash"} => LostSaves < LostSaves'
BY ConstantsOK DEF TypeOK, Disturb, LostSaves, FaultKinds

LEMMA OnceStep == IInv /\ IInv' /\ OnceInv /\ [Next]_vars => OnceInv'
<1>. SUFFICES ASSUME IInv, IInv', OnceInv, [Next]_vars PROVE OnceInv'
  OBVIOUS
<1>a. TypeOK /\ LockedByHolder /\ LockedByHolder'
  BY DEF IInv
<1>b. /\ \A b \in Blocks : b \in Nat
      /\ height \in Nat /\ chain \in Nat /\ LostSaves \in Nat
      /\ end \in [Listeners -> Nat] /\ triggered \in [Blocks -> Nat]
      /\ pc \in [Listeners -> Holding \union {"down", "ready", "panicked"}]
  BY <1>a DEF TypeOK, Blocks, LostSaves, FaultKinds
<1>c. ASSUME UNCHANGED <<height, triggered>>, LostSaves <= LostSaves',
             \A m \in Listeners : pc[m] = "save" =>
                 (pc'[m] = "save" /\ end'[m] = end[m]) \/ LostSaves < LostSaves'
      PROVE  OnceInv'
  <2>1. \A b \in Blocks : AboutToSave(b) => AboutToSave(b)' \/ LostSaves < LostSaves'
    BY <1>c DEF AboutToSave
  <2>. QED
    BY <1>b, <1>c, <2>1, NothingTriggered
<1>1. CASE UNCHANGED vars
  BY <1>1, <1>b, <1>c DEF vars, scan, events, LostSaves
<1>2. ASSUME NEW l \in Listeners,
             Boot(l) \/ BootLocked(l) \/ Tick(l) \/ NothingNew(l) \/ Range(l)
             \/ \E t \in Types : Fetch(l, t)
      PROVE  OnceInv'
  <2>1. UNCHANGED <<height, triggered, faults>>
    BY <1>2 DEF Boot, BootLocked, Tick, NothingNew, Range, Fetch, scan, events
  <2>2. \A m \in Listeners : pc[m] = "save" => pc'[m] = "save" /\ end'[m] = end[m]
    BY <1>2, <1>b DEF Boot, BootLocked, Tick, NothingNew, Range, Fetch, scan, events, Go
  <2>. QED
    BY <1>b, <1>c, <2>1, <2>2 DEF LostSaves
<1>3. ASSUME NEW l \in Listeners, InitFails(l) \/ InitLost(l) \/ LoseChain(l) \/ LoseStore(l) \/ Crash(l)
      PROVE  OnceInv'
  <2>1. UNCHANGED <<height, triggered, end>>
    BY <1>3 DEF InitFails, InitLost, LoseChain, LoseStore, Crash, scan, events
  <2>2. LostSaves <= LostSaves'
    BY <1>3, <1>a, DisturbGrows DEF InitFails, InitLost, LoseChain, LoseStore, Crash
  <2>3. CASE InitFails(l) \/ InitLost(l) \/ LoseChain(l)
    <3>1. \A m \in Listeners : pc[m] = "save" => pc'[m] = "save"
      BY <1>b, <2>3 DEF InitFails, InitLost, LoseChain, Go
    <3>. QED
      BY <1>c, <2>1, <2>2, <3>1
  <2>4. CASE LoseStore(l) \/ Crash(l)
    <3>1. LostSaves < LostSaves'
      BY <1>a, <2>4, DisturbGrows DEF LoseStore, Crash
    <3>. QED
      BY <1>c, <2>1, <2>2, <3>1
  <2>. QED
    BY <1>3, <2>3, <2>4
<1>4. ASSUME NEW l \in Listeners, InitHeight(l) PROVE OnceInv'
  <2>1. \A b \in Blocks : ~ AboutToSave(b)
    BY <1>4, <1>a, OneScan DEF InitHeight, Holding, AboutToSave
  <2>2. height <= height'
    BY <1>4, <1>b, ConstantsOK DEF InitHeight, NewHeight, Configured
  <2>3. UNCHANGED <<triggered, faults>>
    BY <1>4 DEF InitHeight, events
  <2>. QED
    BY <1>b, <2>1, <2>2, <2>3, NothingTriggered DEF LostSaves
<1>5. ASSUME NEW l \in Listeners, Save(l) PROVE OnceInv'
  <2>1. height' = end[l] /\ height <= end[l] /\ UNCHANGED <<triggered, faults, end>>
    BY <1>5 DEF Save, IInv, ScanIsAhead, scan, events
  <2>2. \A m \in Listeners : pc[m] = "save" => m = l
    BY <1>5, <1>a, OneScan DEF Save, Holding
  <2>3. \A b \in Blocks : height' < b => ~ AboutToSave(b)
    BY <1>b, <2>1, <2>2 DEF AboutToSave
  <2>. QED
    BY <1>b, <2>1, <2>3, NothingTriggered DEF LostSaves
<1>6. ASSUME NEW l \in Listeners, Trigger(l) PROVE OnceInv'
  <2>1. pc[l] = "fetch" /\ pc'[l] = "save" /\ UNCHANGED <<height, end, faults>>
    BY <1>6, <1>b DEF Trigger, Go, scan
  <2>2. \A b \in Blocks : ~ AboutToSave(b)
    BY <1>a, <2>1, OneScan DEF Holding, AboutToSave
  <2>3. \A b \in Blocks :
            triggered'[b] = triggered[b] + IF height < b /\ b <= end[l] THEN 1 ELSE 0
    BY <1>6, <1>b DEF Trigger, Scanned
  <2>4. \A b \in Blocks : height < b => triggered[b] <= LostSaves
    BY <2>2 DEF OnceInv, UnsavedIsOwed
  <2>5. \A b \in Blocks : triggered[b] <= 1 + LostSaves
    BY <1>a DEF OnceInv, OnceUnlessLost, LostSaves, TypeOK, FaultKinds
  <2>6. \A b \in Blocks : triggered'[b] <= 1 + LostSaves
    BY <1>b, <2>3, <2>4, <2>5
  <2>7. LostSaves' = LostSaves
    BY <2>1 DEF LostSaves
  <2>8. OnceUnlessLost'
    BY <1>a, <2>1, <2>6 DEF OnceUnlessLost, LostSaves, TypeOK, FaultKinds
  <2>9. \A b \in Blocks : ~ AboutToSave(b)' => end[l] < b
    BY <1>b, <2>1 DEF AboutToSave
  <2>10. UnsavedIsOwed'
    BY <1>b, <2>1, <2>3, <2>4, <2>7, <2>9 DEF UnsavedIsOwed
  <2>. QED
    BY <2>8, <2>10 DEF OnceInv
<1>7. ASSUME NEW l \in Listeners, NEW b \in Blocks, Handle(l, b) \/ HandleFails(l, b)
      PROVE  OnceInv'
  <2>1. UNCHANGED <<height, triggered, pc, end>>
    BY <1>7 DEF Handle, HandleFails, scan
  <2>2. LostSaves <= LostSaves'
    BY <1>7, <1>a, <1>b, DisturbGrows DEF Handle, HandleFails, LostSaves
  <2>. QED
    BY <1>c, <2>1, <2>2
<1>8. CASE Seal \/ Halt \/ Resume
  <2>1. UNCHANGED <<height, triggered, pc, end>>
    BY <1>8 DEF Seal, Halt, Resume, scan, events
  <2>2. LostSaves <= LostSaves'
    BY <1>8, <1>a, <1>b, DisturbGrows DEF Seal, Halt, Resume, LostSaves
  <2>. QED
    BY <1>c, <2>1, <2>2
<1>. QED
  BY <1>1, <1>2, <1>3, <1>4, <1>5, <1>6, <1>7, <1>8 DEF Next, ListenerStep, ListenerFault

\* Each event is triggered once, and once more at most for every save that was lost and
\* every crash, for any number of listeners: neither two listeners nor a failed query
\* trigger it twice.
THEOREM TriggeredOnce == Spec => []OnceUnlessLost
<1>1. Init => OnceInv
  BY DEF Init, OnceInv, UnsavedIsOwed, OnceUnlessLost, LostSaves, AboutToSave, FaultKinds
<1>2. OnceInv => OnceUnlessLost
  BY DEF OnceInv
<1>. QED
  BY <1>1, <1>2, OnceStep, Inductive, PTL DEF Spec
=============================================================================
