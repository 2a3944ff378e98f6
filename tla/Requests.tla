------------------------------ MODULE Requests ------------------------------
(***************************************************************************)
(* POST requests and the idempotency middleware, package handlers, with    *)
(* the system settings the requests change.                                *)
(*                                                                         *)
(* The middleware asks its store whether the key of a request is in use,   *)
(* and marks it used before the handler runs.  The store is a map of the   *)
(* process, a table of the database, or a redis server that all requests   *)
(* talk to over one connection.  Nothing joins the question, the mark and  *)
(* the handler: other requests, faults and the end of the process come     *)
(* between them.                                                           *)
(*                                                                         *)
(* Requests the middleware lets through or refuses without its store have  *)
(* no part here: those that are not POST, for scripts, or without a key.   *)
(***************************************************************************)
EXTENDS SystemSettings

CONSTANTS
    Requests,   \* POST requests; a repeated one is a request of its own
    KeyOf,      \* of each request, its Idempotency-Key
    Kinds,      \* of each request: "job" or "settings"
    Stores,     \* IdempotencyMiddlewareDatabaseType: what it may be
    KeyTicks,   \* Expiry, in ticks of the clock
    MaxFaults   \* bound of the instance: faults and restarts

Keys == {KeyOf[r] : r \in Requests}

\* A settings request is itself a caller of package system, free to ask for the
\* maintenance mode on, off or as it is.
ASSUME RequestsOK ==
    /\ {"on", "off", "keep"} \subseteq Changes
    /\ Kinds \in [Requests -> {"job", "settings"}]
    /\ \A r \in Requests : Kinds[r] = "settings" <=> r \in Callers
    /\ Stores \subseteq {"local", "shared", "redis"}
    /\ KeyTicks \in Nat \ {0} /\ MaxFaults \in Nat

VARIABLES
    store,    \* the type of the store
    keys,     \* of each key: the ticks it stays in use, 0 expired, Absent when gone
    broken,   \* the redis connection has seen an error it does not recover from
    pc,       \* of each request: what it does next
    answer,   \* of each request: the status its client was given
    held,     \* history, of each request: the ticks its key is to be refused
    holders,  \* history, of each request: those its key was held for when it asked
    crossed,  \* history: requests that used the redis connection at one time
    spoiled,  \* history: keys that may be marked for a request that was not served
    faults    \* history: faults so far

middle == <<store, keys, broken, pc, answer, held, holders, crossed, spoiled, faults>>
allVars == <<vars, middle>>

Absent == -1
Statuses == {"none", "ok", "error", "conflict", "timeout"}

RequestsInit ==
    /\ Init
    /\ store \in Stores
    /\ keys = [k \in Keys |-> Absent]
    /\ broken = FALSE
    /\ pc = [r \in Requests |-> "get"]
    /\ answer = [r \in Requests |-> "none"]
    /\ held = [r \in Requests |-> 0]
    /\ holders = [r \in Requests |-> {}]
    /\ crossed = {} /\ spoiled = {}
    /\ faults = 0

-----------------------------------------------------------------------------
(* The stores.                                                             *)

Fault == faults < MaxFaults /\ faults' = faults + 1

\* The redis connection is made once; the store calls fail once it is broken.
Reachable == store = "redis" => ~ broken

\* Faulty variants for mutation testing: InUseOnceStored, MarkedShort.
InUseOnceStored(k) == keys[k] # Absent

InUse(k) == keys[k] > 0

MarkedShort(ks) == [k \in Keys |-> IF k \in ks THEN KeyTicks - 1 ELSE keys[k]]

Marked(ks) == [k \in Keys |-> IF k \in ks THEN KeyTicks ELSE keys[k]]

\* The local store drops an expired key when it is asked for, the others do not.
AfterGet(k) ==
    [keys EXCEPT ![k] = IF store = "local" /\ ~ InUse(k) THEN Absent ELSE @]

HoldersOf(k) == {q \in Requests : KeyOf[q] = k /\ held[q] > 0}

-----------------------------------------------------------------------------
(* The middleware.                                                         *)

\* What a client has been told before, that the request timed out, stands.
Answered(r, status) ==
    /\ pc' = [pc EXCEPT ![r] = "done"]
    /\ answer' = [answer EXCEPT ![r] = IF @ = "none" THEN status ELSE @]

Get(r) ==
    LET k == KeyOf[r] IN
    /\ pc[r] = "get" /\ Reachable
    /\ holders' = [holders EXCEPT ![r] = HoldersOf(k)]
    /\ keys' = AfterGet(k)
    /\ \/ InUse(k) /\ Answered(r, "conflict")
       \/ ~ InUse(k) /\ pc' = [pc EXCEPT ![r] = "set"] /\ UNCHANGED answer
    /\ UNCHANGED <<vars, store, broken, held, crossed, spoiled, faults>>

\* From here on the handler serves the request.
Set(r) ==
    /\ pc[r] = "set" /\ Reachable
    /\ keys' = Marked({KeyOf[r]})
    /\ held' = [held EXCEPT ![r] = KeyTicks]
    /\ pc' = [pc EXCEPT ![r] = "serve"]
    /\ UNCHANGED <<vars, store, broken, answer, holders, crossed, spoiled, faults>>

\* A call of the database or of redis fails.  An error redis replies has done nothing,
\* and leaves the connection good; one of the connection breaks it.  A Set whose reply
\* is lost may have taken effect.
StoreFails(r) ==
    /\ pc[r] \in {"get", "set"} /\ store # "local"
    /\ \/ ~ Reachable /\ UNCHANGED <<keys, spoiled, broken, faults>>
       \/ Reachable /\ Fault
          /\ \/ UNCHANGED <<keys, spoiled>> /\ broken' \in {broken, store = "redis"}
             \/ /\ pc[r] = "set" /\ broken' = (store = "redis")
                /\ keys' = Marked({KeyOf[r]}) /\ spoiled' = spoiled \union {KeyOf[r]}
    /\ Answered(r, "error")
    /\ UNCHANGED <<vars, store, held, holders, crossed>>

-----------------------------------------------------------------------------
(* Two requests are in calls of the one redis connection at a time, which  *)
(* allows that to nobody.  Each may read the reply to the other's command; *)
(* bytes that mix break the connection.                                    *)

Together(r, q) ==
    /\ store = "redis" /\ Reachable /\ r # q
    /\ {pc[r], pc[q]} \subseteq {"get", "set"}
    /\ crossed' = crossed \union {r, q}

\* Two questions, each answered with the reply to the other.
GetsCrossed(r, q) ==
    /\ Together(r, q) /\ pc[r] = "get" /\ pc[q] = "get"
    /\ LET refused(x) == InUse(KeyOf[IF x = r THEN q ELSE r])
       IN  /\ pc' = [x \in Requests |->
                 IF x \in {r, q} THEN IF refused(x) THEN "done" ELSE "set" ELSE pc[x]]
           /\ answer' = [x \in Requests |->
                 IF x \in {r, q} /\ refused(x) THEN "conflict" ELSE answer[x]]
    /\ holders' = [x \in Requests |->
          IF x \in {r, q} THEN HoldersOf(KeyOf[x]) ELSE holders[x]]
    /\ UNCHANGED <<vars, store, keys, broken, held, spoiled, faults>>

\* Neither a Get nor a Set understands the reply to the other, or both fail with
\* the connection; of the Sets some have taken effect, the only one has if the
\* connection is still good.
BothFail(r, q) ==
    LET setting == {x \in {r, q} : pc[x] = "set"} IN
    /\ Together(r, q)
    /\ \E done \in SUBSET {KeyOf[x] : x \in setting} :
          /\ keys' = Marked(done)
          /\ spoiled' = spoiled \union done
          /\ \/ broken' = TRUE
             \/ /\ \E s \in setting : setting = {s} /\ done = {KeyOf[s]}
                /\ UNCHANGED broken
    /\ pc' = [x \in Requests |-> IF x \in {r, q} THEN "done" ELSE pc[x]]
    /\ answer' = [x \in Requests |-> IF x \in {r, q} THEN "error" ELSE answer[x]]
    /\ UNCHANGED <<vars, store, held, holders, faults>>

-----------------------------------------------------------------------------
(* The handlers.                                                           *)

\* CreateJob and Schedule of the job engine, or one of them fails: the client may
\* see an error although the job is there.
ServeJob(r) ==
    /\ pc[r] = "serve" /\ Kinds[r] = "job"
    /\ \/ Answered(r, "ok") /\ UNCHANGED faults
       \/ Answered(r, "error") /\ Fault
    /\ UNCHANGED <<vars, store, keys, broken, held, holders, crossed, spoiled>>

ReadSettings(r) ==
    /\ pc[r] = "serve" /\ Kinds[r] = "settings"
    /\ \E change \in {"on", "off", "keep"} : Read(r, change)
    /\ pc' = [pc EXCEPT ![r] = "save"]
    /\ UNCHANGED <<store, keys, broken, answer, held, holders, crossed, spoiled, faults>>

SaveSettings(r) ==
    /\ pc[r] = "save"
    /\ \/ Save(r) /\ Answered(r, "ok")
       \/ GiveUp(r) /\ Answered(r, "error")
    /\ UNCHANGED <<store, keys, broken, held, holders, crossed, spoiled, faults>>

\* TimeoutHandler answers the client; the handler goes on.
TimesOut(r) ==
    /\ pc[r] \in {"serve", "save"} /\ answer[r] = "none"
    /\ answer' = [answer EXCEPT ![r] = "timeout"]
    /\ UNCHANGED <<vars, store, keys, broken, pc, held, holders, crossed, spoiled, faults>>

-----------------------------------------------------------------------------
\* Workers and the event listener pause and resume by themselves.
Background(c) ==
    /\ c \notin Requests
    /\ (\E change \in Changes \intersect {"pause", "resume"} : Read(c, change))
          \/ Save(c) \/ GiveUp(c)
    /\ UNCHANGED middle

\* Tick for the keys, in every store.
Time ==
    /\ Tick
    /\ keys' = [k \in Keys |-> IF InUse(k) THEN keys[k] - 1 ELSE keys[k]]
    /\ held' = [r \in Requests |-> IF held[r] > 0 THEN held[r] - 1 ELSE 0]
    /\ UNCHANGED <<store, broken, pc, answer, holders, crossed, spoiled, faults>>

\* The process ends, with the requests it has, and is started again.  This is also
\* how two requests end that meet in the map of the local store, which the Go
\* runtime does not survive.  The map is lost.
Restart ==
    /\ Fault
    /\ doing' = [c \in Callers |-> "idle"]
    /\ pc' = [r \in Requests |-> IF pc[r] = "get" THEN "get" ELSE "done"]
    /\ broken' = FALSE
    /\ IF store = "local"
       THEN keys' = [k \in Keys |-> Absent] /\ held' = [r \in Requests |-> 0]
       ELSE UNCHANGED <<keys, held>>
    /\ spoiled' = spoiled \union {KeyOf[r] : r \in {q \in Requests : pc[q] \in {"serve", "save"}}}
    /\ UNCHANGED <<row, copy, stale, ops, store, answer, holders, crossed>>

RequestsNext ==
    \/ \E r \in Requests :
          \/ Get(r) \/ Set(r) \/ StoreFails(r)
          \/ ServeJob(r) \/ ReadSettings(r) \/ SaveSettings(r) \/ TimesOut(r)
          \/ \E q \in Requests : GetsCrossed(r, q) \/ BothFail(r, q)
    \/ \E c \in Callers : Background(c)
    \/ Time
    \/ Restart

RequestsSpec ==
    /\ RequestsInit /\ [][RequestsNext]_allVars
    /\ WF_allVars(Time)
    /\ \A r \in Requests \intersect Callers : WF_allVars(SaveSettings(r))
    /\ \A c \in Callers \ Requests :
          WF_allVars((Save(c) \/ GiveUp(c)) /\ UNCHANGED middle)

-----------------------------------------------------------------------------
(* Properties.                                                             *)

RequestsTypeOK ==
    /\ TypeOK
    /\ store \in Stores
    /\ keys \in [Keys -> Absent..KeyTicks]
    /\ broken \in BOOLEAN
    /\ pc \in [Requests -> {"get", "set", "serve", "save", "done"}]
    /\ answer \in [Requests -> Statuses]
    /\ held \in [Requests -> 0..KeyTicks]
    /\ holders \in [Requests -> SUBSET Requests]
    /\ crossed \subseteq Requests /\ spoiled \subseteq Keys
    /\ faults \in 0..MaxFaults
    /\ \A r \in Requests : pc[r] = "save" => doing[r] # "idle"

\* A key is good for one request: who asks while another request that has passed
\* with the key is within its expiry is not served.  Two are served only if both
\* asked before either had marked the key, or the process has lost its map, or the
\* connection gave one the reply to the other.
OncePerKey ==
    \A r \in Requests :
        pc[r] \in {"set", "serve", "save"} /\ r \notin crossed => holders[r] = {}

\* A conflict is never the only answer a key gets: the client that reads 409 can
\* rely on another request with its key, not expired, whose handler runs or has
\* answered, unless the process or the store failed between mark and answer.
RefusedIsServed ==
    \A r \in Requests :
        answer[r] = "conflict" /\ r \notin crossed /\ KeyOf[r] \notin spoiled =>
            \E q \in holders[r] : pc[q] \in {"serve", "save"} \/ answer[q] # "none"
=============================================================================
