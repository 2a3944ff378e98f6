--------------------------- MODULE SystemSettings ---------------------------
(***************************************************************************)
(* The system settings: package system and the /system/settings handler.   *)
(*                                                                         *)
(* One row holds the maintenance mode, which operators set, and the time   *)
(* of the last pause, which workers and the event listener set when the    *)
(* chain cannot be reached.  Everyone changes it in the same way: read the *)
(* whole row, change one field, save the whole row, with no lock and no    *)
(* transaction around the two calls of the store.                          *)
(***************************************************************************)
EXTENDS Integers

CONSTANTS
    Callers,     \* requests to SetSettings and goroutines that pause or resume
    Changes,     \* what they do
    PauseTicks,  \* PauseDuration, in ticks of the clock
    MaxOps       \* bound of the instance: operations started

ChangeKinds == {"pause", "resume", "on", "off", "keep"}

ASSUME ConstantsOK ==
    /\ Changes \subseteq ChangeKinds
    /\ PauseTicks \in Nat \ {0} /\ MaxOps \in Nat

VARIABLES
    row,    \* the settings row: maintenance mode, ticks its pause has left
    copy,   \* of each caller: the Settings in its hands
    doing,  \* of each caller: its change, or "idle"
    stale,  \* history, of each caller: someone has saved since it read the row
    ops     \* history: operations started

vars == <<row, copy, doing, stale, ops>>

\* PausedSince counts only for the pause duration, so it is kept as what is left.
Settings == [maintenance : BOOLEAN, paused : 0..PauseTicks]

Init ==
    /\ row = [maintenance |-> FALSE, paused |-> 0]
    /\ copy = [c \in Callers |-> row]
    /\ doing = [c \in Callers |-> "idle"]
    /\ stale = [c \in Callers |-> FALSE]
    /\ ops = 0

IsPaused(s) == s.paused > 0
IsHalted == row.maintenance \/ IsPaused(row)

-----------------------------------------------------------------------------
\* Faulty variants for mutation testing: EditedFresh, LeftUnchecked and ClockStopped
\* each break a property of the run in the place of the definition below them.
EditedFresh(change, s) ==
    CASE change = "pause"  -> [s EXCEPT !.paused = PauseTicks]
      [] change = "resume" -> [s EXCEPT !.paused = 0]
      [] change = "on"     -> [maintenance |-> TRUE, paused |-> 0]
      [] change = "off"    -> [maintenance |-> FALSE, paused |-> 0]
      [] change = "keep"   -> s

\* Pause, Resume, and SetSettings with the field on, off or absent.
Edited(change, s) ==
    CASE change = "pause"  -> [s EXCEPT !.paused = PauseTicks]
      [] change = "resume" -> [s EXCEPT !.paused = 0]
      [] change = "on"     -> [s EXCEPT !.maintenance = TRUE]
      [] change = "off"    -> [s EXCEPT !.maintenance = FALSE]
      [] change = "keep"   -> s

\* GetSettings, and the change of the object it returned.
Read(c, change) ==
    /\ doing[c] = "idle"
    /\ ops < MaxOps
    /\ copy' = [copy EXCEPT ![c] = Edited(change, row)]
    /\ doing' = [doing EXCEPT ![c] = change]
    /\ stale' = [stale EXCEPT ![c] = FALSE]
    /\ ops' = ops + 1
    /\ UNCHANGED row

Save(c) ==
    /\ doing[c] # "idle"
    /\ row' = copy[c]
    /\ doing' = [doing EXCEPT ![c] = "idle"]
    /\ stale' = [d \in Callers |-> d # c]
    /\ UNCHANGED <<copy, ops>>

\* The body is invalid, the store fails or the process dies: nothing is saved.
GiveUp(c) ==
    /\ doing[c] # "idle"
    /\ doing' = [doing EXCEPT ![c] = "idle"]
    /\ UNCHANGED <<row, copy, stale, ops>>

LeftUnchecked(s) == [s EXCEPT !.paused = @ - 1]

Left(s) == [s EXCEPT !.paused = IF IsPaused(s) THEN @ - 1 ELSE 0]

ClockStopped ==
    /\ row' = row
    /\ copy' = [c \in Callers |-> Left(copy[c])]
    /\ UNCHANGED <<doing, stale, ops>>

\* The clock: it runs for the row and for the objects read from it.
Tick ==
    /\ row' = Left(row)
    /\ copy' = [c \in Callers |-> Left(copy[c])]
    /\ UNCHANGED <<doing, stale, ops>>

Next ==
    \/ \E c \in Callers :
          (\E change \in Changes : Read(c, change)) \/ Save(c) \/ GiveUp(c)
    \/ Tick

Spec == Init /\ [][Next]_vars

\* Time passes, and a call of the store returns.
FairSpec ==
    Spec /\ WF_vars(Tick) /\ \A c \in Callers : WF_vars(Save(c) \/ GiveUp(c))

-----------------------------------------------------------------------------
(* Properties.                                                             *)

TypeOK ==
    /\ row \in Settings
    /\ copy \in [Callers -> Settings]
    /\ doing \in [Callers -> Changes \union {"idle"}]
    /\ stale \in [Callers -> BOOLEAN]
    /\ ops \in Nat

\* A save nobody else's save came before, since its caller read the row, changes
\* only the caller's own field: a pause never touches the maintenance mode, and
\* SetSettings never touches a pause, however long ago the row was read.
SavesOwnField ==
    [][\A c \in Callers : doing[c] # "idle" /\ doing'[c] = "idle" /\ ~ stale[c] =>
          /\ doing[c] \in {"pause", "resume", "keep"} =>
                row'.maintenance = row.maintenance
          /\ doing[c] \in {"on", "off", "keep"} => row'.paused = row.paused]_vars

\* A pause ends by itself: once nobody starts another, the system runs again
\* unless an operator has turned the maintenance mode on, whatever stale copy of
\* an old pause is saved late.
PauseEnds == <>[](IsHalted => row.maintenance)
=============================================================================
