--------------------------- MODULE Requests_proofs ---------------------------
(***************************************************************************)
(* Proofs about Requests, for any requests, keys and kinds of store: a key *)
(* is good for one request, a refused request can rely on another one, and *)
(* requests change only their own field of the settings.                   *)
(***************************************************************************)
EXTENDS Requests, SystemSettings_proofs

\* A key that a request holds is in use for at least as long.
HeldIsMarked ==
    \A r \in Requests : held[r] > 0 => held[r] <= keys[KeyOf[r]]

\* A request whose handler runs, or whose client has an answer.
Taken(q) == pc[q] \in {"serve", "save"} \/ answer[q] # "none"

\* A key in use that no fault has spoiled was marked by a request that is taken,
\* and is in use exactly as long as that request holds it.
MarkIsHeld ==
    \A k \in Keys : keys[k] > 0 /\ k \notin spoiled =>
        \E q \in Requests : KeyOf[q] = k /\ held[q] = keys[k] /\ Taken(q)

\* A save goes on for a caller of package system; a refused request is over; what
\* a request was held up by has its key.
InOrder ==
    \A r \in Requests :
        /\ pc[r] = "save" => r \in Callers
        /\ answer[r] = "conflict" => pc[r] = "done"
        /\ \A q \in holders[r] : KeyOf[q] = KeyOf[r]

RequestsInv ==
    /\ RequestsTypeOK /\ FreshCopies
    /\ HeldIsMarked /\ MarkIsHeld /\ InOrder
    /\ OncePerKey /\ RefusedIsServed

LEMMA RequestsInitInv == RequestsInit => RequestsInv
<1>. SUFFICES ASSUME RequestsInit PROVE RequestsInv
  OBVIOUS
<1>1. TypeOK /\ FreshCopies
  BY InitInv DEF RequestsInit, IInv
<1>2. KeyTicks \in Nat /\ MaxFaults \in Nat
  BY RequestsOK
<1>3. /\ keys \in [Keys -> Absent..KeyTicks] /\ held \in [Requests -> 0..KeyTicks]
      /\ faults \in 0..MaxFaults
  BY <1>2 DEF RequestsInit, Absent
<1>5. RequestsTypeOK
  BY <1>1, <1>3 DEF RequestsInit, RequestsTypeOK, Statuses
<1>4. \A k \in Keys : keys[k] = -1
  BY DEF RequestsInit, Absent
<1>. QED
  BY <1>1, <1>5, <1>4 DEF RequestsInit, RequestsInv, HeldIsMarked, MarkIsHeld, InOrder,
     OncePerKey, RefusedIsServed

-----------------------------------------------------------------------------
(* The steps.                                                              *)

\* Of the settings, a request does what any caller does; the end of the process
\* only takes the copies out of its callers' hands.
LEMMA SettingsMoves ==
    ASSUME RequestsTypeOK, InOrder, [RequestsNext]_allVars
    PROVE  [Next]_vars \/ (Restart /\ UNCHANGED <<row, copy, stale, ops>>)
<1>1. ASSUME NEW r \in Requests, ReadSettings(r) PROVE Next
  BY <1>1, RequestsOK DEF ReadSettings, Next
<1>2. ASSUME NEW r \in Requests, SaveSettings(r) PROVE Next
  BY <1>2 DEF SaveSettings, Next, InOrder
<1>3. ASSUME NEW c \in Callers, Background(c) PROVE Next
  BY <1>3 DEF Background, Next
<1>4. CASE Time
  BY <1>4 DEF Time, Next
<1>5. CASE Restart
  BY <1>5 DEF Restart
<1>6. ASSUME NEW r \in Requests, NEW q \in Requests,
             Get(r) \/ Set(r) \/ StoreFails(r) \/ ServeJob(r) \/ TimesOut(r)
                \/ GetsCrossed(r, q) \/ BothFail(r, q)
      PROVE  UNCHANGED vars
  BY <1>6 DEF Get, Set, StoreFails, ServeJob, TimesOut, GetsCrossed, BothFail
<1>7. CASE UNCHANGED allVars
  BY <1>7 DEF allVars
<1>. QED
  BY <1>1, <1>2, <1>3, <1>4, <1>5, <1>6, <1>7 DEF RequestsNext

\* The copies that are up to date stay so.
LEMMA SettingsStep ==
    ASSUME RequestsTypeOK, FreshCopies, InOrder, [RequestsNext]_allVars
    PROVE  TypeOK' /\ FreshCopies'
<1>1. CASE [Next]_vars
  BY <1>1, TypeStep, FreshStep DEF RequestsTypeOK, IInv
<1>2. CASE Restart /\ UNCHANGED <<row, copy, stale, ops>>
  BY <1>2 DEF Restart, RequestsTypeOK, TypeOK, FreshCopies
<1>. QED
  BY <1>1, <1>2, SettingsMoves

\* What the store's operations do to the keys.
LEMMA StoreKeys ==
    ASSUME RequestsTypeOK
    PROVE  /\ \A k \in Keys :
                /\ AfterGet(k) \in [Keys -> Absent..KeyTicks]
                /\ \A j \in Keys : (keys[j] > 0 \/ AfterGet(k)[j] > 0) => AfterGet(k)[j] = keys[j]
           /\ \A ks : /\ Marked(ks) \in [Keys -> Absent..KeyTicks]
                      /\ \A j \in Keys : Marked(ks)[j] = IF j \in ks THEN KeyTicks ELSE keys[j]
           /\ \A r \in Requests : KeyOf[r] \in Keys
BY RequestsOK DEF RequestsTypeOK, AfterGet, Marked, InUse, Absent, Keys

LEMMA RequestsTypeStep ==
    ASSUME RequestsTypeOK, FreshCopies, InOrder, [RequestsNext]_allVars
    PROVE  RequestsTypeOK'
<1>. DEFINE Middle ==
       /\ store \in Stores
       /\ keys \in [Keys -> Absent..KeyTicks]
       /\ broken \in BOOLEAN
       /\ pc \in [Requests -> {"get", "set", "serve", "save", "done"}]
       /\ answer \in [Requests -> Statuses]
       /\ held \in [Requests -> 0..KeyTicks]
       /\ holders \in [Requests -> SUBSET Requests]
       /\ crossed \subseteq Requests /\ spoiled \subseteq Keys
       /\ faults \in 0..MaxFaults
<1>. DEFINE Busy == \A r \in Requests : pc[r] = "save" => r \in Callers /\ doing[r] # "idle"
<1>0. Middle /\ Busy /\ TypeOK /\ KeyTicks \in Nat \ {0} /\ MaxFaults \in Nat
  BY RequestsOK DEF RequestsTypeOK, InOrder
<1>. SUFFICES Middle' /\ Busy'
  BY SettingsStep DEF RequestsTypeOK
<1>1. ASSUME NEW r \in Requests, Get(r) PROVE Middle' /\ Busy'
  <2>1. Middle'
    BY <1>0, <1>1, StoreKeys DEF Get, HoldersOf, Answered, Statuses
  <2>. QED
    BY <2>1, <1>0, <1>1 DEF Get, Answered, vars
<1>2. ASSUME NEW r \in Requests, Set(r) PROVE Middle' /\ Busy'
  BY <1>0, <1>2, StoreKeys DEF Set, vars
<1>3. ASSUME NEW r \in Requests, StoreFails(r) PROVE Middle' /\ Busy'
  <2>1. keys' \in [Keys -> Absent..KeyTicks] /\ spoiled' \subseteq Keys
    BY <1>0, <1>3, StoreKeys DEF StoreFails
  <2>2. broken' \in BOOLEAN
    BY <1>0, <1>3 DEF StoreFails
  <2>3. faults' \in 0..MaxFaults
    BY <1>0, <1>3 DEF StoreFails, Fault
  <2>4. Answered(r, "error") /\ UNCHANGED <<vars, store, held, holders, crossed>>
    BY <1>3 DEF StoreFails
  <2>5. pc' \in [Requests -> {"get", "set", "serve", "save", "done"}]
        /\ answer' \in [Requests -> Statuses]
    BY <1>0, <2>4 DEF Answered, Statuses
  <2>. QED
    BY <2>1, <2>2, <2>3, <2>4, <2>5, <1>0 DEF Answered, vars
<1>4. ASSUME NEW r \in Requests, ServeJob(r) PROVE Middle' /\ Busy'
  <2>1. PICK status \in {"ok", "error"} : Answered(r, status)
    BY <1>4 DEF ServeJob
  <2>2. faults' \in 0..MaxFaults
    BY <1>0, <1>4 DEF ServeJob, Fault
  <2>3. answer' \in [Requests -> Statuses]
    BY <1>0, <2>1 DEF Answered, Statuses
  <2>. QED
    BY <2>1, <2>2, <2>3, <1>0, <1>4 DEF ServeJob, Answered, vars
<1>5. ASSUME NEW r \in Requests, ReadSettings(r) PROVE Middle' /\ Busy'
  <2>1. r \in Callers
    BY <1>5, RequestsOK DEF ReadSettings
  <2>2. PICK change \in {"on", "off", "keep"} : Read(r, change)
    BY <1>5 DEF ReadSettings
  <2>. QED
    BY <2>1, <2>2, <1>0, <1>5 DEF ReadSettings, Read, TypeOK
<1>6. ASSUME NEW r \in Requests, SaveSettings(r) PROVE Middle' /\ Busy'
  <2>1. PICK status \in {"ok", "error"} : Answered(r, status)
    BY <1>6 DEF SaveSettings
  <2>2. answer' \in [Requests -> Statuses]
    BY <1>0, <2>1 DEF Answered, Statuses
  <2>3. doing' = [doing EXCEPT ![r] = "idle"]
    BY <1>6 DEF SaveSettings, Save, GiveUp
  <2>. QED
    BY <2>1, <2>2, <2>3, <1>0, <1>6 DEF SaveSettings, Answered, TypeOK
<1>7. ASSUME NEW r \in Requests, TimesOut(r) PROVE Middle' /\ Busy'
  BY <1>0, <1>7 DEF TimesOut, Statuses, vars
<1>8. ASSUME NEW r \in Requests, NEW q \in Requests, GetsCrossed(r, q) PROVE Middle' /\ Busy'
  BY <1>0, <1>8 DEF GetsCrossed, Together, HoldersOf, Statuses, vars
<1>9. ASSUME NEW r \in Requests, NEW q \in Requests, BothFail(r, q) PROVE Middle' /\ Busy'
  <2>1. PICK done \in SUBSET {KeyOf[x] : x \in {y \in {r, q} : pc[y] = "set"}} :
          /\ keys' = Marked(done) /\ spoiled' = spoiled \union done
          /\ broken' = TRUE \/ UNCHANGED broken
    BY <1>9 DEF BothFail
  <2>2. keys' \in [Keys -> Absent..KeyTicks] /\ spoiled' \subseteq Keys /\ broken' \in BOOLEAN
    <3>1. done \subseteq Keys
      BY StoreKeys
    <3>2. keys' \in [Keys -> Absent..KeyTicks]
      BY <2>1, StoreKeys
    <3>. QED
      BY <1>0, <2>1, <3>1, <3>2
  <2>3. answer' \in [Requests -> Statuses]
    BY <1>0, <1>9 DEF BothFail, Statuses
  <2>4. UNCHANGED <<doing, store, held, holders, faults>> /\ crossed' = crossed \union {r, q}
        /\ pc' = [x \in Requests |-> IF x \in {r, q} THEN "done" ELSE pc[x]]
    BY <1>9 DEF BothFail, Together, vars
  <2>. QED
    BY <1>0, <2>2, <2>3, <2>4
<1>10. ASSUME NEW c \in Callers, Background(c) PROVE Middle' /\ Busy'
  <2>1. UNCHANGED middle /\ c \notin Requests
    BY <1>10 DEF Background
  <2>2. \E what \in Changes \union {"idle"} : doing' = [doing EXCEPT ![c] = what]
    BY <1>10 DEF Background, Read, Save, GiveUp
  <2>. QED
    BY <1>0, <2>1, <2>2 DEF middle, TypeOK
<1>11. CASE Time
  BY <1>0, <1>11 DEF Time, Tick, InUse, Absent
<1>12. CASE Restart
  <2>1. /\ keys' \in [Keys -> Absent..KeyTicks]
        /\ held' \in [Requests -> 0..KeyTicks]
    BY <1>0, <1>12 DEF Restart, Absent
  <2>2. faults' \in 0..MaxFaults
    BY <1>0, <1>12 DEF Restart, Fault
  <2>3. spoiled' \subseteq Keys
    BY <1>0, <1>12 DEF Restart, Keys
  <2>. QED
    BY <1>0, <1>12, <2>1, <2>2, <2>3 DEF Restart
<1>13. CASE UNCHANGED allVars
  BY <1>0, <1>13 DEF allVars, middle, vars
<1>. QED
  BY <1>1, <1>2, <1>3, <1>4, <1>5, <1>6, <1>7, <1>8, <1>9, <1>10, <1>11, <1>12, <1>13
     DEF RequestsNext

\* Keys: what is held stays marked.
LEMMA HeldStep ==
    ASSUME RequestsTypeOK, HeldIsMarked, [RequestsNext]_allVars
    PROVE  HeldIsMarked'
<1>0. /\ keys \in [Keys -> Absent..KeyTicks] /\ held \in [Requests -> 0..KeyTicks]
      /\ KeyTicks \in Nat /\ \A r \in Requests : KeyOf[r] \in Keys
  BY RequestsOK, StoreKeys DEF RequestsTypeOK
<1>1. ASSUME NEW ks, keys' = Marked(ks), UNCHANGED held PROVE HeldIsMarked'
  BY <1>0, <1>1, StoreKeys DEF HeldIsMarked
<1>2. ASSUME NEW k \in Keys, keys' = AfterGet(k), UNCHANGED held PROVE HeldIsMarked'
  <2>1. \A r \in Requests : held[r] > 0 => keys[KeyOf[r]] > 0
    BY <1>0 DEF HeldIsMarked
  <2>. QED
    BY <1>0, <1>2, <2>1, StoreKeys DEF HeldIsMarked
<1>3. ASSUME NEW r \in Requests, Set(r) PROVE HeldIsMarked'
  BY <1>0, <1>3, StoreKeys DEF Set, HeldIsMarked
<1>4. CASE Time
  BY <1>0, <1>4 DEF Time, InUse, HeldIsMarked
<1>5. CASE Restart
  BY <1>0, <1>5 DEF Restart, HeldIsMarked
<1>6. CASE UNCHANGED <<keys, held>>
  BY <1>6 DEF HeldIsMarked
<1>7. ASSUME NEW r \in Requests, Get(r) PROVE HeldIsMarked'
  BY <1>0, <1>2, <1>7 DEF Get
<1>8. ASSUME NEW r \in Requests, StoreFails(r) PROVE HeldIsMarked'
  BY <1>1, <1>6, <1>8 DEF StoreFails
<1>9. ASSUME NEW r \in Requests, NEW q \in Requests, BothFail(r, q) PROVE HeldIsMarked'
  BY <1>1, <1>9 DEF BothFail
<1>10. ASSUME NEW r \in Requests, NEW q \in Requests,
              ServeJob(r) \/ ReadSettings(r) \/ SaveSettings(r) \/ TimesOut(r) \/ GetsCrossed(r, q)
       PROVE  UNCHANGED <<keys, held>>
  BY <1>10 DEF ServeJob, ReadSettings, SaveSettings, TimesOut, GetsCrossed
<1>11. ASSUME NEW c \in Callers, Background(c) PROVE UNCHANGED <<keys, held>>
  BY <1>11 DEF Background, middle
<1>12. CASE UNCHANGED allVars
  BY <1>12, <1>6 DEF allVars, middle
<1>. QED
  BY <1>3, <1>4, <1>5, <1>6, <1>7, <1>8, <1>9, <1>10, <1>11, <1>12 DEF RequestsNext

\* A taken request stays taken; only the end of the process can undo that, and it
\* spoils the key.
LEMMA TakenStays ==
    ASSUME RequestsTypeOK, [RequestsNext]_allVars, NEW q \in Requests, Taken(q)
    PROVE  Taken(q)' \/ (Restart /\ KeyOf[q] \in spoiled')
<1>0. pc \in [Requests -> {"get", "set", "serve", "save", "done"}]
      /\ answer \in [Requests -> Statuses]
  BY DEF RequestsTypeOK
<1>1. ASSUME NEW r \in Requests, NEW status \in Statuses \ {"none"}, Answered(r, status)
      PROVE  Taken(q)'
  BY <1>0, <1>1 DEF Answered, Taken
<1>2. ASSUME NEW r \in Requests, Get(r) PROVE Taken(q)'
  <2>1. CASE Answered(r, "conflict")
    BY <2>1, <1>1 DEF Statuses
  <2>2. CASE pc' = [pc EXCEPT ![r] = "set"] /\ UNCHANGED answer
    BY <1>0, <1>2, <2>2 DEF Get, Taken
  <2>. QED
    BY <1>2, <2>1, <2>2 DEF Get
<1>3. ASSUME NEW r \in Requests, Set(r) PROVE Taken(q)'
  BY <1>0, <1>3 DEF Set, Taken
<1>4. ASSUME NEW r \in Requests, StoreFails(r) \/ ServeJob(r) \/ SaveSettings(r)
      PROVE  Taken(q)'
  <2>1. PICK status \in {"ok", "error"} : Answered(r, status)
    BY <1>4 DEF StoreFails, ServeJob, SaveSettings
  <2>. QED
    BY <2>1, <1>1 DEF Statuses
<1>5. ASSUME NEW r \in Requests, ReadSettings(r) PROVE Taken(q)'
  BY <1>0, <1>5 DEF ReadSettings, Taken
<1>6. ASSUME NEW r \in Requests, TimesOut(r) PROVE Taken(q)'
  BY <1>0, <1>6 DEF TimesOut, Taken
<1>7. ASSUME NEW r \in Requests, NEW p \in Requests, GetsCrossed(r, p) PROVE Taken(q)'
  BY <1>0, <1>7 DEF GetsCrossed, Taken
<1>8. ASSUME NEW r \in Requests, NEW p \in Requests, BothFail(r, p) PROVE Taken(q)'
  BY <1>0, <1>8 DEF BothFail, Taken
<1>9. CASE Restart
  <2>1. CASE answer[q] # "none"
    BY <1>9, <2>1 DEF Restart, Taken
  <2>2. CASE pc[q] \in {"serve", "save"}
    BY <1>9, <2>2 DEF Restart
  <2>. QED
    BY <2>1, <2>2 DEF Taken
<1>10. CASE UNCHANGED <<pc, answer>>
  BY <1>10 DEF Taken
<1>11. ASSUME NEW c \in Callers, Background(c) PROVE UNCHANGED <<pc, answer>>
  BY <1>11 DEF Background, middle
<1>12. CASE Time
  BY <1>10, <1>12 DEF Time
<1>13. CASE UNCHANGED allVars
  BY <1>10, <1>13 DEF allVars, middle
<1>. QED
  BY <1>2, <1>3, <1>4, <1>5, <1>6, <1>7, <1>8, <1>9, <1>10, <1>11, <1>12, <1>13
     DEF RequestsNext

\* Keys: what is in use stays held by a taken request, or has been spoiled.
LEMMA MarkStep ==
    ASSUME RequestsTypeOK, MarkIsHeld, [RequestsNext]_allVars
    PROVE  MarkIsHeld'
<1>0. /\ keys \in [Keys -> Absent..KeyTicks] /\ held \in [Requests -> 0..KeyTicks]
      /\ KeyTicks \in Nat \ {0} /\ \A r \in Requests : KeyOf[r] \in Keys
  BY RequestsOK, StoreKeys DEF RequestsTypeOK
<1>1. SUFFICES ASSUME NEW k \in Keys, keys'[k] > 0, k \notin spoiled'
               PROVE  \E q \in Requests : KeyOf[q] = k /\ held'[q] = keys'[k] /\ Taken(q)'
  BY DEF MarkIsHeld
<1>. DEFINE Holder(q) == KeyOf[q] = k /\ held[q] = keys[k] /\ Taken(q)
<1>2. ASSUME keys[k] > 0, k \notin spoiled PROVE \E q \in Requests : Holder(q)
  BY <1>2 DEF MarkIsHeld
<1>3. ASSUME NEW q \in Requests, Holder(q) PROVE Taken(q)'
  BY <1>1, <1>3, TakenStays
<1>4. ASSUME spoiled \subseteq spoiled', keys'[k] = keys[k], UNCHANGED held
      PROVE  \E q \in Requests : KeyOf[q] = k /\ held'[q] = keys'[k] /\ Taken(q)'
  <2>1. PICK q \in Requests : Holder(q)
    BY <1>1, <1>2, <1>4
  <2>. QED
    BY <1>3, <1>4, <2>1
<1>5. ASSUME NEW r \in Requests, Set(r)
      PROVE  \E q \in Requests : KeyOf[q] = k /\ held'[q] = keys'[k] /\ Taken(q)'
  <2>1. CASE k = KeyOf[r]
    <3>1. keys'[k] = KeyTicks /\ held'[r] = KeyTicks
      BY <1>0, <1>5, <2>1, StoreKeys DEF Set
    <3>2. pc'[r] = "serve"
      BY <1>5 DEF Set, RequestsTypeOK
    <3>. QED
      BY <2>1, <3>1, <3>2 DEF Taken
  <2>2. CASE k # KeyOf[r]
    <3>1. keys'[k] = keys[k] /\ UNCHANGED spoiled
      BY <1>5, <2>2, StoreKeys DEF Set
    <3>2. PICK q \in Requests : Holder(q)
      BY <1>1, <1>2, <3>1
    <3>3. held'[q] = held[q]
      BY <1>0, <1>5, <2>2, <3>2 DEF Set
    <3>. QED
      BY <1>3, <3>1, <3>2, <3>3
  <2>. QED
    BY <2>1, <2>2
<1>6. ASSUME NEW ks, keys' = Marked(ks), spoiled' = spoiled \union ks
      PROVE  keys'[k] = keys[k] /\ spoiled \subseteq spoiled'
  BY <1>1, <1>6, StoreKeys
<1>7. ASSUME NEW r \in Requests, StoreFails(r)
      PROVE  keys'[k] = keys[k] /\ spoiled \subseteq spoiled' /\ UNCHANGED held
  BY <1>6, <1>7 DEF StoreFails
<1>8. ASSUME NEW r \in Requests, NEW q \in Requests, BothFail(r, q)
      PROVE  keys'[k] = keys[k] /\ spoiled \subseteq spoiled' /\ UNCHANGED held
  BY <1>6, <1>8 DEF BothFail
<1>9. ASSUME NEW r \in Requests, Get(r)
      PROVE  keys'[k] = keys[k] /\ spoiled \subseteq spoiled' /\ UNCHANGED held
  BY <1>0, <1>1, <1>9, StoreKeys DEF Get
<1>10. CASE Time
  <2>1. keys[k] > 0 /\ keys'[k] = keys[k] - 1 /\ UNCHANGED spoiled
    BY <1>0, <1>1, <1>10 DEF Time, InUse, Absent
  <2>2. PICK q \in Requests : Holder(q)
    BY <1>1, <1>2, <2>1
  <2>3. held'[q] = held[q] - 1
    BY <1>0, <1>10, <2>1, <2>2 DEF Time
  <2>. QED
    BY <1>3, <2>1, <2>2, <2>3
<1>11. CASE Restart
  <2>1. store # "local" /\ UNCHANGED <<keys, held>> /\ spoiled \subseteq spoiled'
    BY <1>0, <1>1, <1>11 DEF Restart, Absent
  <2>. QED
    BY <1>4, <2>1
<1>12. ASSUME NEW r \in Requests, NEW q \in Requests,
              ServeJob(r) \/ ReadSettings(r) \/ SaveSettings(r) \/ TimesOut(r) \/ GetsCrossed(r, q)
       PROVE  UNCHANGED <<keys, spoiled, held>>
  BY <1>12 DEF ServeJob, ReadSettings, SaveSettings, TimesOut, GetsCrossed
<1>13. ASSUME NEW c \in Callers, Background(c) PROVE UNCHANGED <<keys, spoiled, held>>
  BY <1>13 DEF Background, middle
<1>14. CASE UNCHANGED allVars
  BY <1>14, <1>4 DEF allVars, middle
<1>. QED
  BY <1>4, <1>5, <1>7, <1>8, <1>9, <1>10, <1>11, <1>12, <1>13, <1>14 DEF RequestsNext

\* A request that has asked keeps what it was told: its holders, and a refusal.
LEMMA AskedStays ==
    ASSUME RequestsTypeOK, [RequestsNext]_allVars, NEW r \in Requests, pc[r] # "get"
    PROVE  /\ holders'[r] = holders[r] /\ pc'[r] # "get"
           /\ pc[r] = "done" => pc'[r] = "done" /\ answer'[r] = answer[r]
           /\ answer'[r] = "conflict" => answer[r] = "conflict"
           /\ pc'[r] = "set" => pc[r] = "set"
<1>. DEFINE Stays ==
       /\ holders'[r] = holders[r] /\ pc'[r] # "get"
       /\ pc[r] = "done" => pc'[r] = "done" /\ answer'[r] = answer[r]
       /\ answer'[r] = "conflict" => answer[r] = "conflict"
       /\ pc'[r] = "set" => pc[r] = "set"
<1>0. /\ pc \in [Requests -> {"get", "set", "serve", "save", "done"}]
      /\ answer \in [Requests -> Statuses] /\ holders \in [Requests -> SUBSET Requests]
  BY DEF RequestsTypeOK
<1>1. ASSUME NEW q \in Requests, NEW status \in {"ok", "error"}, Answered(q, status),
             UNCHANGED holders, pc[q] # "done"
      PROVE  Stays
  BY <1>0, <1>1 DEF Answered
<1>2. ASSUME NEW q \in Requests, Get(q) PROVE Stays
  <2>1. q # r /\ holders'[r] = holders[r]
    BY <1>0, <1>2 DEF Get
  <2>. QED
    BY <1>0, <1>2, <2>1 DEF Get, Answered
<1>3. ASSUME NEW q \in Requests, Set(q) \/ ReadSettings(q) \/ TimesOut(q) PROVE Stays
  BY <1>0, <1>3 DEF Set, ReadSettings, TimesOut
<1>4. ASSUME NEW q \in Requests, StoreFails(q) \/ ServeJob(q) \/ SaveSettings(q)
      PROVE  Stays
  <2>1. /\ \E status \in {"ok", "error"} : Answered(q, status)
        /\ UNCHANGED holders /\ pc[q] # "done"
    BY <1>4 DEF StoreFails, ServeJob, SaveSettings
  <2>. QED
    BY <2>1, <1>1
<1>5. ASSUME NEW q \in Requests, NEW p \in Requests, GetsCrossed(q, p) PROVE Stays
  BY <1>0, <1>5 DEF GetsCrossed
<1>6. ASSUME NEW q \in Requests, NEW p \in Requests, BothFail(q, p) PROVE Stays
  <2>1. r \in {q, p} => pc[r] # "done"
    BY <1>6 DEF BothFail, Together
  <2>. QED
    BY <1>0, <1>6, <2>1 DEF BothFail
<1>7. CASE Restart
  BY <1>0, <1>7 DEF Restart
<1>8. CASE UNCHANGED <<pc, answer, holders>>
  BY <1>8
<1>9. ASSUME NEW c \in Callers, Background(c) PROVE UNCHANGED <<pc, answer, holders>>
  BY <1>9 DEF Background, middle
<1>10. CASE Time
  BY <1>8, <1>10 DEF Time
<1>11. CASE UNCHANGED allVars
  BY <1>8, <1>11 DEF allVars, middle
<1>. QED
  BY <1>2, <1>3, <1>4, <1>5, <1>6, <1>7, <1>8, <1>9, <1>10, <1>11 DEF RequestsNext

\* How a request that has not asked yet gets past it.
LEMMA AsksOnce ==
    ASSUME RequestsTypeOK, [RequestsNext]_allVars, NEW r \in Requests, pc[r] = "get"
    PROVE  \/ Get(r)
           \/ r \in crossed' /\ holders'[r] \in {holders[r], HoldersOf(KeyOf[r])}
              /\ pc'[r] \in {"set", "done"} /\ answer'[r] \in {answer[r], "conflict", "error"}
              /\ (answer'[r] = "conflict" /\ answer[r] # "conflict" => pc'[r] = "done")
           \/ holders'[r] = holders[r] /\ pc'[r] \in {"get", "done"}
              /\ answer'[r] \in {answer[r], "error"}
<1>. DEFINE Crossed ==
       /\ r \in crossed' /\ holders'[r] \in {holders[r], HoldersOf(KeyOf[r])}
       /\ pc'[r] \in {"set", "done"} /\ answer'[r] \in {answer[r], "conflict", "error"}
       /\ answer'[r] = "conflict" /\ answer[r] # "conflict" => pc'[r] = "done"
<1>. DEFINE Unasked ==
       /\ holders'[r] = holders[r] /\ pc'[r] \in {"get", "done"}
       /\ answer'[r] \in {answer[r], "error"}
<1>0. /\ pc \in [Requests -> {"get", "set", "serve", "save", "done"}]
      /\ answer \in [Requests -> Statuses] /\ holders \in [Requests -> SUBSET Requests]
  BY DEF RequestsTypeOK
<1>1. ASSUME NEW q \in Requests, NEW status \in {"ok", "error"}, Answered(q, status),
             UNCHANGED holders, q # r \/ status = "error"
      PROVE  Unasked
  BY <1>0, <1>1 DEF Answered
<1>2. ASSUME NEW q \in Requests, Get(q) PROVE Get(r) \/ Unasked
  BY <1>0, <1>2 DEF Get, Answered
<1>3. ASSUME NEW q \in Requests, Set(q) \/ ReadSettings(q) \/ TimesOut(q) PROVE Unasked
  BY <1>0, <1>3 DEF Set, ReadSettings, TimesOut
<1>4. ASSUME NEW q \in Requests, StoreFails(q) PROVE Unasked
  BY <1>1, <1>4 DEF StoreFails
<1>5. ASSUME NEW q \in Requests, ServeJob(q) \/ SaveSettings(q) PROVE Unasked
  <2>1. \E status \in {"ok", "error"} : Answered(q, status)
    BY <1>5 DEF ServeJob, SaveSettings
  <2>2. q # r /\ UNCHANGED holders
    BY <1>5 DEF ServeJob, SaveSettings
  <2>. QED
    BY <2>1, <2>2, <1>1
<1>6. ASSUME NEW q \in Requests, NEW p \in Requests, GetsCrossed(q, p)
      PROVE  Crossed \/ Unasked
  <2>1. CASE r \in {q, p}
    <3>1. r \in crossed' /\ holders'[r] = HoldersOf(KeyOf[r])
      BY <1>6, <2>1 DEF GetsCrossed, Together
    <3>2. pc'[r] \in {"set", "done"} /\ answer'[r] \in {answer[r], "conflict"}
          /\ (answer'[r] = "conflict" /\ answer[r] # "conflict" => pc'[r] = "done")
      BY <1>6, <2>1 DEF GetsCrossed
    <3>. QED
      BY <3>1, <3>2
  <2>2. CASE r \notin {q, p}
    BY <1>0, <1>6, <2>2 DEF GetsCrossed
  <2>. QED
    BY <2>1, <2>2
<1>7. ASSUME NEW q \in Requests, NEW p \in Requests, BothFail(q, p) PROVE Unasked
  BY <1>0, <1>7 DEF BothFail
<1>8. CASE Restart
  BY <1>0, <1>8 DEF Restart
<1>9. CASE UNCHANGED <<pc, answer, holders>>
  BY <1>0, <1>9
<1>10. ASSUME NEW c \in Callers, Background(c) PROVE UNCHANGED <<pc, answer, holders>>
  BY <1>10 DEF Background, middle
<1>11. CASE Time
  BY <1>9, <1>11 DEF Time
<1>12. CASE UNCHANGED allVars
  BY <1>9, <1>12 DEF allVars, middle
<1>. QED
  BY <1>2, <1>3, <1>4, <1>5, <1>6, <1>7, <1>8, <1>9, <1>10, <1>11, <1>12 DEF RequestsNext

LEMMA CrossedGrows ==
    ASSUME [RequestsNext]_allVars
    PROVE  crossed \subseteq crossed' /\ spoiled \subseteq spoiled'
<1>1. ASSUME NEW r \in Requests, NEW q \in Requests,
             \/ Get(r) \/ Set(r) \/ StoreFails(r) \/ ServeJob(r) \/ ReadSettings(r)
             \/ SaveSettings(r) \/ TimesOut(r)
      PROVE  crossed \subseteq crossed' /\ spoiled \subseteq spoiled'
  BY <1>1 DEF Get, Set, StoreFails, ServeJob, ReadSettings, SaveSettings, TimesOut
<1>2. ASSUME NEW r \in Requests, NEW q \in Requests, GetsCrossed(r, q) \/ BothFail(r, q)
      PROVE  crossed \subseteq crossed' /\ spoiled \subseteq spoiled'
  BY <1>2 DEF GetsCrossed, BothFail, Together
<1>3. ASSUME NEW c \in Callers, Background(c) PROVE UNCHANGED <<crossed, spoiled>>
  BY <1>3 DEF Background, middle
<1>4. CASE Time \/ Restart
  BY <1>4 DEF Time, Restart
<1>5. CASE UNCHANGED allVars
  BY <1>5 DEF allVars, middle
<1>. QED
  BY <1>1, <1>2, <1>3, <1>4, <1>5 DEF RequestsNext

\* Only a settings request comes to save.
LEMMA SaversAreCallers ==
    ASSUME RequestsTypeOK, InOrder, [RequestsNext]_allVars, NEW r \in Requests,
           pc'[r] = "save"
    PROVE  r \in Callers
<1>0. pc \in [Requests -> {"get", "set", "serve", "save", "done"}]
  BY DEF RequestsTypeOK
<1>1. pc[r] = "save" => r \in Callers
  BY DEF InOrder
<1>2. ASSUME NEW q \in Requests, ReadSettings(q) PROVE r \in Callers
  BY <1>0, <1>1, <1>2, RequestsOK DEF ReadSettings
<1>3. ASSUME NEW q \in Requests,
             \/ Get(q) \/ Set(q) \/ StoreFails(q) \/ ServeJob(q) \/ SaveSettings(q) \/ TimesOut(q)
      PROVE  r \in Callers
  BY <1>0, <1>1, <1>3 DEF Get, Set, StoreFails, ServeJob, SaveSettings, TimesOut, Answered
<1>4. ASSUME NEW q \in Requests, NEW p \in Requests, GetsCrossed(q, p) PROVE r \in Callers
  BY <1>0, <1>1, <1>4 DEF GetsCrossed
<1>5. ASSUME NEW q \in Requests, NEW p \in Requests, BothFail(q, p) PROVE r \in Callers
  BY <1>0, <1>1, <1>5 DEF BothFail
<1>6. CASE Restart
  BY <1>0, <1>1, <1>6 DEF Restart
<1>7. ASSUME NEW c \in Callers, Background(c) PROVE r \in Callers
  BY <1>1, <1>7 DEF Background, middle
<1>8. CASE Time \/ UNCHANGED allVars
  BY <1>1, <1>8 DEF Time, allVars, middle
<1>. QED
  BY <1>2, <1>3, <1>4, <1>5, <1>6, <1>7, <1>8 DEF RequestsNext

LEMMA OrderStep ==
    ASSUME RequestsTypeOK, InOrder, [RequestsNext]_allVars
    PROVE  InOrder'
<1>. SUFFICES ASSUME NEW r \in Requests
              PROVE  /\ answer'[r] = "conflict" => pc'[r] = "done"
                     /\ \A q \in holders'[r] : KeyOf[q] = KeyOf[r]
  BY SaversAreCallers DEF InOrder
<1>1. /\ answer[r] = "conflict" => pc[r] = "done"
      /\ \A q \in holders[r] \union HoldersOf(KeyOf[r]) : KeyOf[q] = KeyOf[r]
  BY DEF InOrder, HoldersOf
<1>2. CASE pc[r] # "get"
  BY <1>1, <1>2, AskedStays
<1>3. CASE Get(r)
  BY <1>1, <1>3 DEF Get, Answered, RequestsTypeOK
<1>4. CASE pc[r] = "get" /\ ~ Get(r)
  BY <1>1, <1>4, AsksOnce
<1>. QED
  BY <1>2, <1>3, <1>4

\* A key is good for one request: who passes with it found nobody holding it.
LEMMA OnceStep ==
    ASSUME RequestsTypeOK, HeldIsMarked, OncePerKey, [RequestsNext]_allVars
    PROVE  OncePerKey'
<1>. SUFFICES ASSUME NEW r \in Requests, pc'[r] \in {"set", "serve", "save"}, r \notin crossed'
              PROVE  holders'[r] = {}
  BY DEF OncePerKey
<1>0. r \notin crossed /\ pc[r] \in {"get", "set", "serve", "save", "done"}
  BY CrossedGrows DEF RequestsTypeOK
<1>1. CASE pc[r] # "get"
  BY <1>0, <1>1, AskedStays DEF OncePerKey
<1>2. CASE Get(r)
  <2>1. ~ InUse(KeyOf[r]) /\ holders'[r] = HoldersOf(KeyOf[r])
    BY <1>2 DEF Get, Answered, RequestsTypeOK
  <2>2. keys[KeyOf[r]] \in Absent..KeyTicks
    BY StoreKeys DEF RequestsTypeOK
  <2>3. HoldersOf(KeyOf[r]) = {}
    BY <2>1, <2>2, RequestsOK DEF InUse, HoldersOf, HeldIsMarked, RequestsTypeOK, Absent
  <2>. QED
    BY <2>1, <2>3
<1>3. CASE pc[r] = "get" /\ ~ Get(r)
  BY <1>3, AsksOnce
<1>. QED
  BY <1>1, <1>2, <1>3

\* A refused request has a taken one to rely on, and keeps it.
LEMMA RefusedStep ==
    ASSUME RequestsTypeOK, MarkIsHeld, InOrder, RefusedIsServed, [RequestsNext]_allVars
    PROVE  RefusedIsServed'
<1>. SUFFICES ASSUME NEW r \in Requests, answer'[r] = "conflict", r \notin crossed',
                     KeyOf[r] \notin spoiled'
              PROVE  \E q \in holders'[r] : Taken(q)'
  BY DEF RefusedIsServed, Taken
<1>0. r \notin crossed /\ KeyOf[r] \notin spoiled /\ KeyOf[r] \in Keys
  BY CrossedGrows, StoreKeys
<1>1. ASSUME NEW q \in Requests, KeyOf[q] = KeyOf[r], Taken(q) PROVE Taken(q)'
  BY <1>1, TakenStays
<1>2. CASE pc[r] # "get"
  <2>1. holders'[r] = holders[r] /\ answer[r] = "conflict"
    BY <1>2, AskedStays
  <2>2. PICK q \in holders[r] : Taken(q)
    BY <1>0, <2>1 DEF RefusedIsServed, Taken
  <2>3. q \in Requests /\ KeyOf[q] = KeyOf[r]
    BY DEF RequestsTypeOK, InOrder
  <2>. QED
    BY <1>1, <2>1, <2>2, <2>3
<1>3. CASE Get(r)
  <2>1. pc[r] = "get" /\ answer[r] # "conflict"
    BY <1>3 DEF Get, InOrder
  <2>2. InUse(KeyOf[r]) /\ holders'[r] = HoldersOf(KeyOf[r])
    BY <1>3, <2>1 DEF Get, Answered, RequestsTypeOK
  <2>3. PICK q \in Requests :
          KeyOf[q] = KeyOf[r] /\ held[q] = keys[KeyOf[r]] /\ Taken(q)
    BY <1>0, <2>2 DEF MarkIsHeld, InUse
  <2>4. q \in HoldersOf(KeyOf[r])
    BY <2>2, <2>3 DEF HoldersOf, InUse
  <2>. QED
    BY <1>1, <2>2, <2>3, <2>4
<1>4. CASE pc[r] = "get" /\ ~ Get(r)
  BY <1>4, AsksOnce DEF InOrder
<1>. QED
  BY <1>2, <1>3, <1>4

-----------------------------------------------------------------------------
(* The theorems.                                                           *)

\* Every reachable state of the requests keeps the invariant: keys are in use as
\* long as they are held, and what no fault has spoiled is held by a taken request.
THEOREM RequestsInductive == RequestsSpec => []RequestsInv
<1>1. RequestsInv /\ [RequestsNext]_allVars => RequestsInv'
  BY RequestsTypeStep, SettingsStep, HeldStep, MarkStep, OrderStep, OnceStep, RefusedStep
     DEF RequestsInv
<1>. QED
  BY <1>1, RequestsInitInv, PTL DEF RequestsSpec

\* The requests, their keys and the settings are well typed in every state.
THEOREM RequestsTypeCorrect == RequestsSpec => []RequestsTypeOK
BY RequestsInductive, PTL DEF RequestsInv

\* Nobody passes the middleware with a key that another request holds, whatever
\* the store, the interleaving, the faults and the restarts.
THEOREM KeyIsGoodForOne == RequestsSpec => []OncePerKey
BY RequestsInductive, PTL DEF RequestsInv

\* Who is refused with a conflict can rely on another request with the key.
THEOREM ConflictIsServed == RequestsSpec => []RefusedIsServed
BY RequestsInductive, PTL DEF RequestsInv

\* Behind the middleware, and across the end of the process, a save that no other
\* save has overtaken changes only its caller's field.
THEOREM RequestsFieldsApart == RequestsSpec => SavesOwnField
<1>1. RequestsInv /\ [RequestsNext]_allVars => [OwnField]_vars
  <2>. SUFFICES ASSUME RequestsInv, [RequestsNext]_allVars PROVE [OwnField]_vars
    OBVIOUS
  <2>1. CASE [Next]_vars
    <3>1. TypeOK /\ FreshCopies
      BY DEF RequestsInv, RequestsTypeOK
    <3>. QED
      BY <2>1, <3>1, OwnFieldStep DEF IInv
  <2>2. CASE UNCHANGED row
    BY <2>2 DEF OwnField
  <2>. QED
    BY <2>1, <2>2, SettingsMoves DEF RequestsInv
<1>. QED
  BY <1>1, RequestsInductive, PTL DEF RequestsSpec, SavesOwnField, OwnField
=============================================================================
