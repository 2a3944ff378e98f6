--------------------------- MODULE ChainListener ----------------------------
(***************************************************************************)
(* The Flow event listener: package chain_events.                          *)
(*                                                                         *)
(* Every instance of the wallet runs a listener.  On each tick it takes    *)
(* the row lock of the one status row, asks the chain for its latest       *)
(* sealed height, fetches the events of the blocks it has not checked, one *)
(* query per event type, starts a goroutine per event and handler, and     *)
(* saves the height it has reached.  Blocks stand for their events: one    *)
(* deposit event per block.                                                *)
(***************************************************************************)
EXTENDS Integers

CONSTANTS
    Listeners,       \* instances of the wallet
    Types,           \* event types getTypes returns
    MaxBlocks,       \* ChainListenerMaxBlocks
    StartingHeight,  \* ChainListenerStartingHeight, 0 for none
    Faults,          \* which disturbances the environment may inject
    FirstHeight,     \* height of the chain when the system is installed
    MaxHeight, MaxFaults  \* bounds of the instance

FaultKinds == {"chain", "store", "crash", "halt", "handler"}
Blocks == 1..MaxHeight
NoOne == "noone"

ASSUME ConstantsOK ==
    /\ MaxBlocks \in Nat /\ StartingHeight \in Nat /\ FirstHeight \in Nat
    /\ MaxHeight \in Nat /\ MaxFaults \in Nat /\ Faults \subseteq FaultKinds
    /\ NoOne \notin Listeners

VARIABLES
    chain,      \* height of the latest sealed block
    height,     \* LatestHeight of the status row, 0 when it is fresh
    lock,       \* who holds the row lock, or NoOne
    pc,         \* of each listener
    end,        \* of each listener: the last block of its scan
    todo,       \* of each listener: the types it has still to query
    pending,    \* of each listener: handler goroutines not yet run, per block
    triggered,  \* history: how often the event of each block was triggered
    handled,    \* history: the blocks whose event some handler has handled
    base,       \* history: the height initHeight chose
    halted,     \* system settings
    faults      \* history: disturbances injected so far, per kind

vars == <<chain, height, lock, pc, end, todo, pending, triggered, handled, base,
          halted, faults>>
scan == <<end, todo>>
events == <<pending, triggered, handled>>

-----------------------------------------------------------------------------
Lesser(x, y) == IF x > y THEN y ELSE x

Injected == faults["chain"] + faults["store"] + faults["crash"] + faults["halt"]
            + faults["handler"]

Disturb(kind) ==
    /\ kind \in Faults
    /\ Injected < MaxFaults
    /\ faults' = [faults EXCEPT ![kind] = @ + 1]

Go(l, to) == pc' = [pc EXCEPT ![l] = to]

Init ==
    /\ chain = FirstHeight
    /\ height = 0
    /\ lock = NoOne
    /\ pc = [l \in Listeners |-> "down"]
    /\ end = [l \in Listeners |-> 0]
    /\ todo = [l \in Listeners |-> {}]
    /\ pending = [l \in Listeners |-> [b \in Blocks |-> 0]]
    /\ triggered = [b \in Blocks |-> 0]
    /\ handled = {}
    /\ base = 0
    /\ halted = FALSE
    /\ faults = [kind \in FaultKinds |-> 0]

-----------------------------------------------------------------------------
(* Start: initHeight under the row lock.                                   *)

\* Faulty variants for mutation testing: BootUnlocked, AlwaysConfigured,
\* ScannedLate and SaveOneLess each break a property of some run when they take
\* the place of the definition below them.
BootUnlocked(l) ==
    /\ pc[l] = "down"
    /\ lock' = l
    /\ Go(l, "init")
    /\ UNCHANGED <<chain, height, scan, events, base, halted, faults>>

Boot(l) ==
    /\ pc[l] = "down"
    /\ lock = NoOne
    /\ lock' = l
    /\ Go(l, "init")
    /\ UNCHANGED <<chain, height, scan, events, base, halted, faults>>

\* NOWAIT: the driver's error is not a LockError, so Start panics.  A fresh row
\* is created by its first holder; nobody else starts until it is committed.
BootLocked(l) ==
    /\ pc[l] = "down"
    /\ lock # NoOne /\ height # 0
    /\ Go(l, "panicked")
    /\ UNCHANGED <<chain, height, lock, scan, events, base, halted, faults>>

AlwaysConfigured == StartingHeight - 1

\* initHeight: the configured height if it is ahead of the row, the latest
\* block if that leaves nothing to start from.
Configured ==
    IF StartingHeight > 0 /\ height < StartingHeight - 1 THEN StartingHeight - 1
                                                         ELSE height

NewHeight == IF Configured = 0 THEN chain ELSE Configured

InitHeight(l) ==
    /\ pc[l] = "init"
    /\ height' = NewHeight
    /\ base' = IF NewHeight = height THEN base ELSE NewHeight
    /\ lock' = NoOne
    /\ Go(l, "ready")
    /\ UNCHANGED <<chain, scan, events, halted, faults>>

\* The chain does not answer, or a statement fails in the store: Start panics.
InitFails(l) ==
    /\ pc[l] = "init"
    /\ \/ Configured = 0 /\ Disturb("chain")
       \/ Disturb("store")
    /\ lock' = NoOne
    /\ Go(l, "panicked")
    /\ UNCHANGED <<chain, height, scan, events, base, halted>>

\* The commit fails: its error is dropped, and Start goes on with nothing saved.
InitLost(l) ==
    /\ pc[l] = "init"
    /\ Disturb("store")
    /\ lock' = NoOne
    /\ Go(l, "ready")
    /\ UNCHANGED <<chain, height, scan, events, base, halted>>

-----------------------------------------------------------------------------
(* The goroutine of Start: one tick.                                       *)

\* A tick that finds the system halted, or the row locked, does nothing.
Tick(l) ==
    /\ pc[l] = "ready"
    /\ ~ halted
    /\ lock = NoOne
    /\ lock' = l
    /\ Go(l, "locked")
    /\ UNCHANGED <<chain, height, scan, events, base, halted, faults>>

LastOfScan == Lesser(chain, height + 1 + MaxBlocks)

Range(l) ==
    /\ pc[l] = "locked"
    /\ chain > height
    /\ end' = [end EXCEPT ![l] = LastOfScan]
    /\ todo' = [todo EXCEPT ![l] = Types]
    /\ Go(l, "fetch")
    /\ UNCHANGED <<chain, height, lock, events, base, halted, faults>>

NothingNew(l) ==
    /\ pc[l] = "locked"
    /\ chain <= height
    /\ lock' = NoOne
    /\ Go(l, "ready")
    /\ UNCHANGED <<chain, height, scan, events, base, halted, faults>>

Fetch(l, t) ==
    /\ pc[l] = "fetch"
    /\ t \in todo[l]
    /\ todo' = [todo EXCEPT ![l] = @ \ {t}]
    /\ UNCHANGED <<chain, height, lock, pc, end, events, base, halted, faults>>

ScannedLate(l) == {b \in Blocks : height + 1 < b /\ b <= end[l]}
Scanned(l) == {b \in Blocks : height < b /\ b <= end[l]}

\* All the queries have been answered: a goroutine per event.
Trigger(l) ==
    /\ pc[l] = "fetch"
    /\ todo[l] = {}
    /\ triggered' = [b \in Blocks |-> triggered[b] + IF b \in Scanned(l) THEN 1 ELSE 0]
    /\ pending' = [pending EXCEPT ![l] = [b \in Blocks |->
                      pending[l][b] + IF b \in Scanned(l) THEN 1 ELSE 0]]
    /\ Go(l, "save")
    /\ UNCHANGED <<chain, height, lock, scan, handled, base, halted, faults>>

SaveOneLess(l) ==
    /\ pc[l] = "save"
    /\ height' = end[l] - 1
    /\ lock' = NoOne
    /\ Go(l, "ready")
    /\ UNCHANGED <<chain, scan, events, base, halted, faults>>

Save(l) ==
    /\ pc[l] = "save"
    /\ height' = end[l]
    /\ lock' = NoOne
    /\ Go(l, "ready")
    /\ UNCHANGED <<chain, scan, events, base, halted, faults>>

\* A query fails: the transaction is rolled back.  A connection error also
\* pauses the system.
LoseChain(l) ==
    /\ pc[l] \in {"locked", "fetch"}
    /\ Disturb("chain")
    /\ lock' = NoOne
    /\ Go(l, "ready")
    /\ halted' \in {halted, TRUE}
    /\ UNCHANGED <<chain, height, scan, events, base>>

\* getTypes or the save fails, or the commit does: its error is dropped.
LoseStore(l) ==
    /\ pc[l] \in {"fetch", "save"}
    /\ Disturb("store")
    /\ lock' = NoOne
    /\ Go(l, "ready")
    /\ UNCHANGED <<chain, height, scan, events, base, halted>>

-----------------------------------------------------------------------------
(* The handler goroutines, the chain and the rest of the environment.      *)

Handle(l, b) ==
    /\ pending[l][b] > 0
    /\ pending' = [pending EXCEPT ![l][b] = @ - 1]
    /\ handled' = handled \union {b}
    /\ UNCHANGED <<chain, height, lock, pc, scan, triggered, base, halted, faults>>

\* handleDeposit logs an error and drops the event.
HandleFails(l, b) ==
    /\ pending[l][b] > 0
    /\ Disturb("handler")
    /\ pending' = [pending EXCEPT ![l][b] = @ - 1]
    /\ UNCHANGED <<chain, height, lock, pc, scan, triggered, handled, base, halted>>

Seal ==
    /\ chain < MaxHeight
    /\ chain' = chain + 1
    /\ UNCHANGED <<height, lock, pc, scan, events, base, halted, faults>>

Halt ==
    /\ ~ halted
    /\ Disturb("halt")
    /\ halted' = TRUE
    /\ UNCHANGED <<chain, height, lock, pc, scan, events, base>>

Resume ==
    /\ halted
    /\ halted' = FALSE
    /\ UNCHANGED <<chain, height, lock, pc, scan, events, base, faults>>

\* The process dies: its transaction is rolled back, its goroutines are gone.
Crash(l) ==
    /\ pc[l] # "down"
    /\ Disturb("crash")
    /\ lock' = IF lock = l THEN NoOne ELSE lock
    /\ Go(l, "down")
    /\ pending' = [pending EXCEPT ![l] = [b \in Blocks |-> 0]]
    /\ UNCHANGED <<chain, height, scan, triggered, handled, base, halted>>

-----------------------------------------------------------------------------
ListenerStep(l) ==
    \/ Boot(l) \/ InitHeight(l) \/ Tick(l) \/ Range(l) \/ NothingNew(l)
    \/ (\E t \in Types : Fetch(l, t)) \/ Trigger(l) \/ Save(l)

ListenerFault(l) ==
    \/ BootLocked(l) \/ InitFails(l) \/ InitLost(l)
    \/ LoseChain(l) \/ LoseStore(l) \/ Crash(l)

Next ==
    \/ \E l \in Listeners :
          \/ ListenerStep(l) \/ ListenerFault(l)
          \/ \E b \in Blocks : Handle(l, b) \/ HandleFails(l, b)
    \/ Seal \/ Halt \/ Resume

Spec == Init /\ [][Next]_vars

\* The ticker of every listener fires again and again; it may find the row
\* locked each time it does, so a tick is only strongly fair.
Fairness ==
    /\ \A l \in Listeners :
          /\ WF_vars(ListenerStep(l)) /\ SF_vars(Tick(l))
          /\ \A b \in Blocks : WF_vars(Handle(l, b))
    /\ WF_vars(Resume)

FairSpec == Spec /\ Fairness

-----------------------------------------------------------------------------
(* Properties.                                                             *)

Holding == {"init", "locked", "fetch", "save"}

TypeOK ==
    /\ chain \in Nat /\ height \in Nat /\ base \in Nat
    /\ lock \in Listeners \union {NoOne}
    /\ pc \in [Listeners -> Holding \union {"down", "ready", "panicked"}]
    /\ end \in [Listeners -> Nat]
    /\ todo \in [Listeners -> SUBSET Types]
    /\ pending \in [Listeners -> [Blocks -> Nat]]
    /\ triggered \in [Blocks -> Nat]
    /\ handled \subseteq Blocks
    /\ halted \in BOOLEAN
    /\ faults \in [FaultKinds -> Nat]

\* One listener at a time works on the status row, the one the lock names.
LockedByHolder == \A l \in Listeners : pc[l] \in Holding <=> lock = l

\* No gap: once listening has begun at base, the event of every block up to the
\* saved height has been triggered, across failed scans, other listeners and crashes.
NoGap == \A b \in Blocks : base < b /\ b <= height => triggered[b] > 0

\* The saved height never goes back, whoever saves it.
HeightGrows == [][height <= height']_height

\* An event is triggered again only for a save or a commit that failed or a
\* crash: two listeners, or a failed query, never trigger it twice.
OnceUnlessLost ==
    \A b \in Blocks : triggered[b] <= 1 + faults["store"] + faults["crash"]

\* While nothing crashes and no handler fails, every event after base is handled,
\* through failed queries, failed saves and halts, unless another listener that starts
\* moves base past it, as the configured height is ahead of what was saved.
EveryEventHandled ==
    \A b \in Blocks :
        (0 < height /\ base < b /\ b <= chain) ~> (b \in handled \/ b <= base)
=============================================================================
