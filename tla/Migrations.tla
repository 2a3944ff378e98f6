----------------------------- MODULE Migrations -----------------------------
(***************************************************************************)
(* The schema of the database and its migrations: packages migrations and  *)
(* datastore/gorm, and gormigrate as they use it.                          *)
(*                                                                         *)
(* A server migrates when it starts, up to the version it is configured    *)
(* for and then back down to it.  A migration is a list of statements, and *)
(* then the insertion of its ID, or its deletion after a rollback, with no *)
(* transaction around them: the process can end between any two, and what  *)
(* is not recorded is done again at the next start.                        *)
(*                                                                         *)
(* One server migrates at a time, as MIGRATIONS.md demands.  A version is  *)
(* the number of the migration in the list.  The columns named are those   *)
(* migrations add or drop, and the id of every table.                      *)
(***************************************************************************)
EXTENDS Integers, Sequences, FiniteSets, SequencesExt

CONSTANTS
    Dialects,    \* DatabaseType: what it may be
    Versions,    \* DatabaseVersion: what operators set it to
    Jobs,        \* job ids
    OldStatus,   \* the status a job of the first schema may have
    MaxConfigs,  \* bound of the instance: changes of DatabaseVersion
    MaxFaults    \* bound of the instance: statements that fail, and crashes

Null == -1
Statuses == 0..7
Schedulable == {"INIT", "ACCEPTED", "NO_AVAILABLE_WORKERS", "ERROR"}
EndStates == {"FAILED", "COMPLETE"}

-----------------------------------------------------------------------------
(* The list of migrations.                                                 *)

Cells(table, names) == {<<table, name>> : name \in names}

\* AutoMigrate of one or more models: creates what is missing.
Add(cells) == [op |-> "add", cells |-> cells]
DropColumn(table, column) == [op |-> "dropColumn", cells |-> {<<table, column>>}]
DropTable(table) == [op |-> "dropTable", cells |-> {<<table, "id">>}]
JobIndex == <<"jobs", "idx_jobs_state_updated_at">>
CreateIndex == [op |-> "createIndex", cells |-> {JobIndex}]
DropIndex == [op |-> "dropIndex", cells |-> {JobIndex}]
SetStates == [op |-> "states", cells |-> {<<"jobs", "status">>, <<"jobs", "state">>}]
SetStatuses == [op |-> "statuses", cells |-> {<<"jobs", "status">>, <<"jobs", "state">>}]

\* The models of the first schema.
ListenerStatus == Cells("chain_events_status", {"id"})
Job == Cells("jobs", {"id", "status"})
Storable == Cells("storable_keys", {"id"})
ProposalKey == Cells("proposal_keys", {"id"})
Account == Cells("accounts", {"id"})
Token == Cells("tokens", {"id"})
AccountToken == Cells("account_tokens", {"id"})
TokenTransfer == Cells("token_transfers", {"id", "sender_address"})
Transaction == Cells("transactions", {"id", "proposer_address"})

\* Of an older database than the first schema, which has other names, nothing is
\* modelled: on a new one there is nothing to rename or to fill in.
M20210922 == <<
    Add(ListenerStatus), Add(Job), Add(ProposalKey \union Storable), Add(AccountToken \union TokenTransfer),
    Add(Transaction), Add(Account), Add(Token) >>

JobColumns == {"id", "state", "type", "exec_count"}

M20211005DropsFirst == <<
    Add(Cells("jobs", JobColumns \union {"status"})),
    DropColumn("jobs", "status"),
    SetStates >>

M20211005 == <<
    Add(Cells("jobs", JobColumns \union {"status"})),
    SetStates,
    DropColumn("jobs", "status") >>
M20211015 == <<Add(Transaction \union Cells("transactions", {"flow_transaction"}))>>
M20211118 == <<Add(Cells("storable_keys", {"id", "public_key"}))>>
M20211130 == <<Add(Cells("system_settings", {"id", "maintenance_mode"}))>>
M20211202 == <<Add(Cells("idempotency_keys", {"id"}))>>
M20211220 == <<Add(Cells("jobs", JobColumns \union {"attributes"}))>>
M20211221_1 == <<Add(Cells("jobs", JobColumns \union {"attributes", "errors"}))>>
M20211221_2 ==
    <<Add(Cells("system_settings", {"id", "maintenance_mode", "paused_since"}))>>
M20220212 == <<CreateIndex>>

R20211005 == <<
    Add(Cells("jobs", JobColumns \union {"status"})),
    SetStatuses,
    DropColumn("jobs", "status"),
    DropColumn("jobs", "type"),
    DropColumn("jobs", "exec_count") >>

Up == << M20210922, M20211005, M20211015, M20211118, M20211130,
         M20211202, M20211220, M20211221_1, M20211221_2, M20220212 >>

\* RollbackTo stops above the version it is given: the first is never rolled back.
Down == << <<>>, R20211005,
           <<DropColumn("transactions", "flow_transaction")>>,
           <<DropColumn("storable_keys", "public_key")>>,
           <<DropTable("system_settings")>>,
           <<DropTable("idempotency_keys")>>,
           <<DropColumn("jobs", "attributes")>>,
           <<DropColumn("jobs", "errors")>>,
           <<DropColumn("system_settings", "paused_since")>>,
           <<DropIndex>> >>

List == DOMAIN Up
First == 1
Latest == Len(Up)

\* Faulty variants for mutation testing: M20211005DropsFirst, UncheckedAll, ToStateSpelt and
\* ToStateEverywhere each break a property in the place of the definition below them.
UncheckedAll(n) == n \in List

\* The first migration looks at no error.
Unchecked(n) == n = First

ASSUME MigrationsOK ==
    /\ Dialects \subseteq {"psql", "sqlite"}
    /\ Versions \subseteq List \union {Null} /\ Null \in Versions
    /\ OldStatus \subseteq Statuses
    /\ MaxConfigs \in Nat /\ MaxFaults \in Nat

VARIABLES
    dialect,   \* DatabaseType
    version,   \* DatabaseVersion; Null: not set
    columns,   \* the columns, and the index, the database has
    jobs,      \* the rows of table jobs, by id
    recorded,  \* table migrations
    server,    \* what the server does: its phase, the migration and the next statement
    ended,     \* history: jobs that have ended
    cut,       \* history: migrations up and down that were left half done
    skipped,   \* history: a statement of the first migration has failed
    undone,    \* history: migrations that were rolled back to the end
    configs,   \* history: changes of DatabaseVersion
    faults     \* history: faults so far

db == <<columns, jobs, recorded>>
vars == <<dialect, version, db, server, ended, cut, skipped, undone, configs, faults>>

Row == [status : Statuses \union {Null}, state : Schedulable \union EndStates \union {"null"}]
Stopped == [phase |-> "stopped", n |-> 0, at |-> 0]

\* A new database, or one a server left at the first schema with a job in it.
Init ==
    /\ dialect \in Dialects
    /\ version = Null
    /\ \/ recorded = {} /\ columns = {} /\ jobs = <<>> /\ ended = {}
       \/ \E s \in OldStatus, j \in Jobs :
             /\ recorded = {First}
             /\ columns = UNION {M20210922[i].cells : i \in DOMAIN M20210922}
             /\ jobs = [x \in {j} |-> [status |-> s, state |-> "null"]]
             /\ ended = IF s \in {5, 6} THEN {j} ELSE {}
    /\ server = Stopped
    /\ cut = {} /\ skipped = FALSE /\ undone = {}
    /\ configs = 0 /\ faults = 0

-----------------------------------------------------------------------------
(* Statements.                                                             *)

Has(cells) == cells \subseteq columns

\* Dropping a column sqlite does not miss; it misses an index, and minds one that
\* is there, which PostgreSQL is told not to.
Possible(s) ==
    CASE s.op = "add" -> TRUE
      [] s.op = "dropTable" -> TRUE
      [] s.op = "dropColumn" -> dialect = "sqlite" \/ Has(s.cells)
      [] s.op = "createIndex" -> dialect = "psql" \/ ~ Has(s.cells)
      [] s.op = "dropIndex" -> Has(s.cells)
      [] s.op \in {"states", "statuses"} -> Has(s.cells)

\* Where and Update in turn on one statement: each Where adds to those before it,
\* so an update finds only what all of them are true of.
Chained(value, chain, old) ==
    LET hits == {i \in DOMAIN chain : \A j \in 1..i : value \in chain[j].where}
    IN  IF hits = {} THEN old ELSE chain[Max(hits)].set

Step(where, set) == [where |-> where, set |-> set]

ToStateSpelt(status) == Chained(status, << Step({0}, "Init") >>, "null")

ToStateEverywhere(status) == Chained(status, << Step(Statuses, "INIT") >>, "null")

ToState(status) == Chained(status,
    << Step({0}, "INIT"), Step({1}, "INIT"), Step({2}, "ACCEPTED"),
       Step({3}, "NO_AVAILABLE_WORKERS"), Step({4}, "NO_AVAILABLE_WORKERS"),
       Step({5}, "FAILED"), Step({6}, "COMPLETE"), Step({7}, "FAILED") >>, "null")

ToStatus(state) == Chained(state,
    << Step({"INIT"}, 0), Step({"INIT"}, 1), Step({"ACCEPTED"}, 2),
       Step({"NO_AVAILABLE_WORKERS"}, 3), Step({"FAILED"}, 5), Step({"COMPLETE"}, 6) >>, Null)

\* A column that is added is null in the rows that are there.
RowAfter(s, row) ==
    CASE s.op = "states" ->
            [row EXCEPT !.state = IF ToState(row.status) = "null" THEN @ ELSE ToState(row.status)]
      [] s.op = "statuses" ->
            [row EXCEPT !.status = IF ToStatus(row.state) = Null THEN @ ELSE ToStatus(row.state)]
      [] s.op = "dropColumn" /\ <<"jobs", "status">> \in s.cells -> [row EXCEPT !.status = Null]
      [] OTHER -> row

ColumnsAfter(s) ==
    CASE s.op \in {"add", "createIndex"} -> columns \union s.cells
      [] s.op \in {"dropColumn", "dropIndex"} -> columns \ s.cells
      [] s.op = "dropTable" -> {c \in columns : \A d \in s.cells : c[1] # d[1]}
      [] OTHER -> columns

Apply(s) ==
    /\ columns' = ColumnsAfter(s)
    /\ jobs' = [j \in DOMAIN jobs |-> RowAfter(s, jobs[j])]

-----------------------------------------------------------------------------
(* New: the migrations of a start.                                         *)

Target == IF version = Null THEN Latest ELSE version

Start ==
    /\ server.phase = "stopped"
    /\ server' = [phase |-> "up", n |-> 0, at |-> 0]
    /\ UNCHANGED <<dialect, version, db, ended, cut, skipped, undone, configs, faults>>

\* The next one, up from the first that is not recorded, then down from the last
\* that is: what Migrate and MigrateTo, and after it RollbackTo, go through.
ToDo == {n \in 1..Target : n \notin recorded}
ToUndo == {n \in recorded : n > Target}

Choose ==
    /\ server.phase \in {"up", "down"} /\ server.n = 0
    /\ server' =
          IF server.phase = "up" /\ ToDo # {}
          THEN [server EXCEPT !.n = Min(ToDo), !.at = 1]
          ELSE IF ToUndo # {} THEN [phase |-> "down", n |-> Max(ToUndo), at |-> 1]
          ELSE [phase |-> "serve", n |-> 0, at |-> 0]
    /\ UNCHANGED <<dialect, version, db, ended, cut, skipped, undone, configs, faults>>

Statements == IF server.phase = "up" THEN Up[server.n] ELSE Down[server.n]
InStatement == server.n # 0 /\ server.at <= Len(Statements)

Execute ==
    /\ InStatement
    /\ Possible(Statements[server.at])
    /\ Apply(Statements[server.at])
    /\ server' = [server EXCEPT !.at = @ + 1]
    /\ UNCHANGED <<dialect, version, recorded, ended, cut, skipped, undone, configs, faults>>

\* The process ends, and with it the server's start.
Exit ==
    /\ server' = Stopped
    /\ cut' = cut \union {<<server.phase, server.n>> : i \in {server.n} \ {0}}

\* An error of a migration is fatal.
Impossible ==
    /\ InStatement
    /\ ~ Possible(Statements[server.at])
    /\ Exit
    /\ UNCHANGED <<dialect, version, db, ended, skipped, undone, configs, faults>>

\* A statement fails for another reason, what it adds is there in part; in the
\* first migration nobody notices.
Fails ==
    /\ InStatement
    /\ faults < MaxFaults /\ faults' = faults + 1
    /\ LET s == Statements[server.at] IN
          \E done \in IF s.op = "add" THEN SUBSET s.cells ELSE {{}} :
             columns' = columns \union done
    /\ IF server.phase = "up" /\ Unchecked(server.n)
       THEN /\ server' = [server EXCEPT !.at = @ + 1] /\ skipped' = TRUE
            /\ UNCHANGED cut
       ELSE Exit /\ UNCHANGED skipped
    /\ UNCHANGED <<dialect, version, jobs, recorded, ended, undone, configs>>

\* The ID is inserted, or deleted.
Record ==
    /\ server.n # 0 /\ server.at > Len(Statements)
    /\ recorded' = IF server.phase = "up" THEN recorded \union {server.n}
                   ELSE recorded \ {server.n}
    /\ server' = [server EXCEPT !.n = 0, !.at = 0]
    /\ cut' = cut \ {<<"up", server.n>>, <<"down", server.n>>}
    /\ undone' = undone \union {n \in {server.n} : server.phase = "down"}
    /\ UNCHANGED <<dialect, version, columns, jobs, ended, skipped, configs, faults>>

\* Between two statements, or before the ID is recorded.
Crash ==
    /\ server.phase \in {"up", "down"}
    /\ faults < MaxFaults /\ faults' = faults + 1
    /\ Exit
    /\ UNCHANGED <<dialect, version, db, ended, skipped, undone, configs>>

-----------------------------------------------------------------------------
(* The server and its operator.                                            *)

\* The server reads and writes whole rows of jobs.
CanWork ==
    /\ server.phase = "serve"
    /\ Has(Cells("jobs", JobColumns \union {"attributes", "errors"}))

CreateJob(j) ==
    /\ CanWork /\ j \notin DOMAIN jobs
    /\ jobs' = [x \in DOMAIN jobs \union {j} |->
          IF x = j THEN [status |-> Null, state |-> "INIT"] ELSE jobs[x]]
    /\ UNCHANGED <<dialect, version, columns, recorded, server, ended, cut, skipped, undone, configs, faults>>

ExecuteJob(j) ==
    /\ CanWork /\ j \in DOMAIN jobs /\ jobs[j].state \in Schedulable
    /\ \E state \in {"COMPLETE", "FAILED", "ERROR"} :
          /\ jobs' = [jobs EXCEPT ![j].state = state]
          /\ ended' = IF state = "ERROR" THEN ended ELSE ended \union {j}
    /\ UNCHANGED <<dialect, version, columns, recorded, server, cut, skipped, undone, configs, faults>>

\* The server is stopped and configured for another version.
Configure(v) ==
    /\ server.phase \in {"serve", "stopped"} /\ v # version
    /\ configs < MaxConfigs /\ configs' = configs + 1
    /\ version' = v
    /\ server' = Stopped
    /\ UNCHANGED <<dialect, db, ended, cut, skipped, undone, faults>>

Migrating == Start \/ Choose \/ Execute \/ Impossible \/ Record

Next ==
    \/ Migrating \/ Fails \/ Crash
    \/ \E j \in Jobs : CreateJob(j) \/ ExecuteJob(j)
    \/ \E v \in Versions : Configure(v)

\* A supervisor starts the server again, and the database answers.
Spec == Init /\ [][Next]_vars /\ WF_vars(Migrating)

-----------------------------------------------------------------------------
(* Properties.                                                             *)

\* What a migration drops again on its own way up, and what it leaves behind.
CellsOf(n, ops) == UNION {Up[n][i].cells : i \in {k \in DOMAIN Up[n] : Up[n][k].op \in ops}}

Drops == [n \in List |-> CellsOf(n, {"dropColumn"})]
Gives == [n \in List |-> CellsOf(n, {"add", "createIndex"}) \ Drops[n]]

AllColumns == UNION {CellsOf(n, {"add", "createIndex"}) : n \in List}

\* What was begun and not recorded yet, or left like that.
HalfDone == cut \union {<<server.phase, server.n>>}

TypeOK ==
    /\ dialect \in Dialects /\ version \in Versions
    /\ columns \subseteq AllColumns
    /\ DOMAIN jobs \subseteq Jobs /\ \A j \in DOMAIN jobs : jobs[j] \in Row
    /\ recorded \subseteq List
    /\ server.phase \in {"stopped", "up", "down", "serve"}
    /\ server.n \in 0..Latest /\ (server.n # 0 => server.at \in 1..Len(Statements) + 1)
    /\ ended \subseteq Jobs /\ skipped \in BOOLEAN /\ undone \subseteq List
    /\ cut \subseteq {"up", "down"} \X List
    /\ configs \in 0..MaxConfigs /\ faults \in 0..MaxFaults

\* Every column a recorded migration gives is in the schema, wherever starts were cut
\* off and whichever versions were visited, but for four kinds of hole: what a later
\* migration has begun to drop, as it should; what such a migration has not given back
\* when it was rolled back (the second rollback adds the status of jobs, fills it in,
\* and drops it); a rollback that was left half done; and, of the first migration, what
\* the errors it drops have cost.
InEffect ==
    \A n \in recorded : \A c \in Gives[n] \ columns :
        \/ \E m \in n + 1..Latest :
              c \in Drops[m] /\ (m \in recorded \union undone \/ <<"up", m>> \in HalfDone)
        \/ <<"down", n>> \in HalfDone
        \/ n = First /\ skipped

\* Migrations up and down, cut off anywhere, never wake a job that has ended, and
\* never lose one that a server with states created, or took over, and has not
\* finished.  Of the first schema's jobs only those of status 0 are taken over.
JobsKept ==
    \A j \in DOMAIN jobs :
        /\ j \in ended => jobs[j].state \notin Schedulable
        /\ j \notin ended /\ jobs[j].state # "null" => jobs[j].state \in Schedulable

\* Statements that fail when they are done a second time: to drop a column or the
\* index with PostgreSQL, to create or to drop the index with sqlite.
NotRepeatable ==
    IF dialect = "psql" THEN {"down"} \X {3, 4, 7, 8, 9, 10}
    ELSE {"up", "down"} \X {10}

\* However often its starts are cut off, a server that is started again serves in
\* the end, unless a cut-off migration is one of those that cannot be repeated.
ServesAtLast == <>[](server.phase = "serve" \/ cut \intersect NotRepeatable # {})
=============================================================================
