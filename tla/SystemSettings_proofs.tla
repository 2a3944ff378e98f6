----------------------- MODULE SystemSettings_proofs ------------------------
(***************************************************************************)
(* Proofs about SystemSettings, for any callers and any pause duration: a  *)
(* save that no other save has overtaken changes only its caller's field.  *)
(***************************************************************************)
EXTENDS SystemSettings, TLAPS

\* What an up-to-date copy still shares with the row.
FreshCopies ==
    \A c \in Callers : doing[c] # "idle" /\ ~ stale[c] =>
        /\ doing[c] \in {"pause", "resume", "keep"} =>
              copy[c].maintenance = row.maintenance
        /\ doing[c] \in {"on", "off", "keep"} => copy[c].paused = row.paused

IInv == TypeOK /\ FreshCopies

\* A change of settings gives settings, and keeps the field it is not about.
LEMMA EditedSettings ==
    ASSUME NEW change \in Changes, NEW s \in Settings
    PROVE  /\ Edited(change, s) \in Settings
           /\ change \in {"pause", "resume", "keep"} =>
                 Edited(change, s).maintenance = s.maintenance
           /\ change \in {"on", "off", "keep"} => Edited(change, s).paused = s.paused
<1>1. change \in ChangeKinds /\ PauseTicks \in Nat \ {0}
  BY ConstantsOK
<1>2. CASE change = "pause"
  BY <1>1, <1>2 DEF Edited, Settings
<1>3. CASE change = "resume"
  BY <1>1, <1>3 DEF Edited, Settings
<1>5. CASE change \in {"on", "off"}
  BY <1>5 DEF Edited, Settings
<1>4. CASE change = "keep"
  BY <1>4 DEF Edited, Settings
<1>. QED
  BY <1>1, <1>2, <1>3, <1>4, <1>5 DEF ChangeKinds

\* The clock leaves the maintenance mode alone and never goes below zero.
LEMMA LeftSettings ==
    ASSUME NEW s \in Settings
    PROVE  /\ Left(s) \in Settings
           /\ Left(s).maintenance = s.maintenance
           /\ Left(s).paused = IF s.paused > 0 THEN s.paused - 1 ELSE 0
BY ConstantsOK DEF Left, IsPaused, Settings

LEMMA InitInv == Init => IInv
<1>. SUFFICES ASSUME Init PROVE IInv
  OBVIOUS
<1>1. row \in Settings
  BY ConstantsOK DEF Init, Settings
<1>. QED
  BY <1>1 DEF Init, IInv, TypeOK, FreshCopies

LEMMA TypeStep == TypeOK /\ [Next]_vars => TypeOK'
<1>. SUFFICES ASSUME TypeOK, [Next]_vars PROVE TypeOK'
  OBVIOUS
<1>. USE DEF TypeOK
<1>1. ASSUME NEW c \in Callers, NEW change \in Changes, Read(c, change) PROVE TypeOK'
  <2>1. Edited(change, row) \in Settings
    BY EditedSettings
  <2>. QED
    BY <1>1, <2>1 DEF Read
<1>2. ASSUME NEW c \in Callers, Save(c) \/ GiveUp(c) PROVE TypeOK'
  BY <1>2 DEF Save, GiveUp
<1>3. CASE Tick
  BY <1>3, LeftSettings DEF Tick
<1>4. CASE UNCHANGED vars
  BY <1>4 DEF vars
<1>. QED
  BY <1>1, <1>2, <1>3, <1>4 DEF Next

LEMMA FreshStep == IInv /\ [Next]_vars => FreshCopies'
<1>. SUFFICES ASSUME TypeOK, FreshCopies, [Next]_vars PROVE FreshCopies'
  BY DEF IInv
<1>. USE DEF TypeOK, FreshCopies
<1>1. ASSUME NEW c \in Callers, NEW change \in Changes, Read(c, change)
      PROVE  FreshCopies'
  <2>1. /\ change \in {"pause", "resume", "keep"} =>
              Edited(change, row).maintenance = row.maintenance
        /\ change \in {"on", "off", "keep"} => Edited(change, row).paused = row.paused
    BY EditedSettings
  <2>. HIDE DEF Edited
  <2>. QED
    BY <1>1, <2>1 DEF Read
<1>2. ASSUME NEW c \in Callers, Save(c) PROVE FreshCopies'
  BY <1>2 DEF Save
<1>3. ASSUME NEW c \in Callers, GiveUp(c) PROVE FreshCopies'
  BY <1>3 DEF GiveUp
<1>4. CASE Tick
  <2>. SUFFICES ASSUME NEW c \in Callers, doing[c] # "idle", ~ stale[c]
                PROVE  /\ doing[c] \in {"pause", "resume", "keep"} =>
                             copy'[c].maintenance = row'.maintenance
                       /\ doing[c] \in {"on", "off", "keep"} =>
                             copy'[c].paused = row'.paused
    BY <1>4 DEF Tick
  <2>1. copy'[c] = Left(copy[c]) /\ row' = Left(row)
    BY <1>4 DEF Tick
  <2>2. /\ Left(copy[c]).maintenance = copy[c].maintenance
        /\ Left(copy[c]).paused = IF copy[c].paused > 0 THEN copy[c].paused - 1 ELSE 0
        /\ Left(row).maintenance = row.maintenance
        /\ Left(row).paused = IF row.paused > 0 THEN row.paused - 1 ELSE 0
    BY LeftSettings
  <2>. QED
    BY <2>1, <2>2
<1>5. CASE UNCHANGED vars
  BY <1>5 DEF vars
<1>. QED
  BY <1>1, <1>2, <1>3, <1>4, <1>5 DEF Next

\* Every reachable state of the settings is well typed, and every copy that is
\* not stale agrees with the row on the field its caller does not change.
THEOREM Inductive == Spec => []IInv
<1>1. IInv /\ [Next]_vars => IInv'
  BY TypeStep, FreshStep DEF IInv
<1>. QED
  BY <1>1, InitInv, PTL DEF Spec

\* What a save may change when no other save has overtaken it.
OwnField ==
    \A c \in Callers : doing[c] # "idle" /\ doing'[c] = "idle" /\ ~ stale[c] =>
        /\ doing[c] \in {"pause", "resume", "keep"} => row'.maintenance = row.maintenance
        /\ doing[c] \in {"on", "off", "keep"} => row'.paused = row.paused

LEMMA OwnFieldStep == IInv /\ [Next]_vars => [OwnField]_vars
<1>. SUFFICES ASSUME TypeOK, FreshCopies, Next, NEW c \in Callers,
                     doing[c] # "idle", doing'[c] = "idle", ~ stale[c]
              PROVE  /\ doing[c] \in {"pause", "resume", "keep"} =>
                           row'.maintenance = row.maintenance
                     /\ doing[c] \in {"on", "off", "keep"} => row'.paused = row.paused
  BY DEF IInv, OwnField
<1>1. Save(c) \/ GiveUp(c)
  BY ConstantsOK DEF Next, Read, Save, GiveUp, Tick, TypeOK, ChangeKinds
<1>. QED
  BY <1>1 DEF Save, GiveUp, FreshCopies

\* A save that no other save has overtaken changes only its caller's field.
THEOREM FieldsApart == Spec => SavesOwnField
BY Inductive, OwnFieldStep, PTL DEF Spec, SavesOwnField, OwnField
=============================================================================
