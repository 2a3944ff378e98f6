-------------------------- MODULE Migrations_proofs --------------------------
(***************************************************************************)
(* Proofs about Migrations, for any versions, jobs and old databases: what *)
(* is recorded as migrated is in the schema, and jobs survive migrations.  *)
(***************************************************************************)
EXTENDS Migrations, TLAPS

JobStatus == <<"jobs", "status">>
Attributes == <<"jobs", "attributes">>

\* What a migration leaves behind and no migration drops on the way up, which is all
\* but the status of jobs.
Keeps == [n \in List |-> CellsOf(n, {"add", "createIndex"}) \ {JobStatus}]

-----------------------------------------------------------------------------
(* The list of migrations.                                                 *)

LEMMA ListIs ==
    /\ List = 1..10 /\ Latest = 10 /\ First = 1
    /\ Up[1] = M20210922 /\ Up[2] = M20211005 /\ Up[3] = M20211015 /\ Up[4] = M20211118
    /\ Up[5] = M20211130 /\ Up[6] = M20211202 /\ Up[7] = M20211220
    /\ Up[8] = M20211221_1 /\ Up[9] = M20211221_2 /\ Up[10] = M20220212
BY DEF List, Latest, First, Up

\* All cells the first migration names, and those a job has after the second.
FirstCells == ListenerStatus \union Job \union Storable \union ProposalKey \union Account
                 \union Token \union AccountToken \union TokenTransfer \union Transaction
JobCells == Cells("jobs", JobColumns \union {"status"})

\* What the statements of each migration are, and the cells they name.
LEMMA FirstIs ==
    /\ M20210922 \in Seq({Add(c) : c \in SUBSET FirstCells})
    /\ FirstCells = UNION {M20210922[i].cells : i \in DOMAIN M20210922}
<1>. DEFINE cells == <<ListenerStatus, Job, ProposalKey \union Storable,
                       AccountToken \union TokenTransfer, Transaction, Account, Token>>
<1>1. M20210922 = [i \in 1..7 |-> Add(cells[i])]
  BY DEF M20210922
<1>2. \A i \in 1..7 : cells[i] \subseteq FirstCells
  BY DEF FirstCells
<1>3. M20210922 \in Seq({Add(c) : c \in SUBSET FirstCells})
  BY <1>1, <1>2
<1>4. UNION {M20210922[i].cells : i \in DOMAIN M20210922} = UNION {cells[i] : i \in 1..7}
  BY <1>1 DEF Add
<1>5. UNION {cells[i] : i \in 1..7} = FirstCells
  <2>1. \A i \in 1..7 : cells[i] \subseteq FirstCells
    BY <1>2
  <2>2. \A c \in FirstCells : \E i \in 1..7 : c \in cells[i]
    BY DEF FirstCells
  <2>. QED
    BY <2>1, <2>2
<1>. QED
  BY <1>3, <1>4, <1>5

\* Short lists of statements.
LEMMA Lists ==
    /\ \A a : Len(<<a>>) = 1 /\ DOMAIN <<a>> = 1..1 /\ <<a>>[1] = a
    /\ \A a, b, c :
          /\ Len(<<a, b, c>>) = 3 /\ DOMAIN <<a, b, c>> = 1..3
          /\ <<a, b, c>>[1] = a /\ <<a, b, c>>[2] = b /\ <<a, b, c>>[3] = c
OBVIOUS

\* The kinds of statements.
LEMMA StatementKinds ==
    /\ \A c : Add(c).op = "add" /\ Add(c).cells = c
    /\ \A t, c : DropColumn(t, c).op = "dropColumn" /\ DropColumn(t, c).cells = {<<t, c>>}
    /\ \A t : DropTable(t).op = "dropTable" /\ DropTable(t).cells = {<<t, "id">>}
    /\ CreateIndex.op = "createIndex" /\ CreateIndex.cells = {JobIndex}
    /\ DropIndex.op = "dropIndex" /\ DropIndex.cells = {JobIndex}
    /\ SetStates.op = "states" /\ SetStatuses.op = "statuses"
BY DEF Add, DropColumn, DropTable, CreateIndex, DropIndex, SetStates, SetStatuses

\* A migration adds and creates, fills in states, and drops only the status of jobs.
LEMMA UpIs ==
    ASSUME NEW n \in List
    PROVE  /\ Len(Up[n]) \in Nat \ {0} /\ DOMAIN Up[n] = 1..Len(Up[n])
           /\ \A i \in DOMAIN Up[n] :
                 \/ Up[n][i].op \in {"add", "createIndex", "states"}
                 \/ Up[n][i] = DropColumn("jobs", "status")
<1>1. CASE n = 1
  <2>1. Len(M20210922) = 7 /\ \A i \in 1..7 : M20210922[i].op = "add"
    BY DEF M20210922, Add
  <2>2. DOMAIN M20210922 = 1..7 /\ Up[n] = M20210922
    BY <1>1, ListIs DEF M20210922
  <2>3. Len(Up[n]) = 7 /\ DOMAIN Up[n] = 1..7
    BY <2>1, <2>2
  <2>4. \A i \in 1..7 : Up[n][i].op = "add"
    BY <2>1, <2>2
  <2>. QED
    BY <2>3, <2>4
<1>2. CASE n = 2
  <2>1. PICK cells : M20211005 = <<Add(cells), SetStates, DropColumn("jobs", "status")>>
    BY DEF M20211005
  <2>. QED
    BY <1>2, <2>1, ListIs, Lists, StatementKinds
<1>3. CASE n \in 3..9
  <2>1. PICK cells : Up[n] = <<Add(cells)>>
    BY <1>3, ListIs DEF M20211015, M20211118, M20211130, M20211202, M20211220, M20211221_1,
       M20211221_2
  <2>. QED
    BY <2>1, Lists, StatementKinds
<1>4. CASE n = 10
  BY <1>4, ListIs, Lists, StatementKinds DEF M20220212
<1>. QED
  BY <1>1, <1>2, <1>3, <1>4, ListIs

\* What a migration leaves behind, its statements name; never the status of jobs.
LEMMA KeepsBelow ==
    ASSUME NEW n \in List
    PROVE  /\ \A cells : (\A i \in DOMAIN Up[n] : Up[n][i].op \in {"add", "createIndex"} =>
                             Up[n][i].cells \subseteq cells) => Keeps[n] \subseteq cells
           /\ \A cells : Up[n] = <<Add(cells)>> => Keeps[n] \subseteq cells
           /\ JobStatus \notin Keeps[n]
<1>1. Keeps[n] = (UNION {Up[n][i].cells : i \in {k \in DOMAIN Up[n] :
                    Up[n][k].op \in {"add", "createIndex"}}}) \ {JobStatus}
  BY DEF Keeps, CellsOf
<1>2. ASSUME NEW cells, \A i \in DOMAIN Up[n] : Up[n][i].op \in {"add", "createIndex"} =>
                           Up[n][i].cells \subseteq cells
      PROVE  Keeps[n] \subseteq cells
  BY <1>1, <1>2
<1>3. ASSUME NEW cells, Up[n] = <<Add(cells)>> PROVE Keeps[n] \subseteq cells
  <2>1. \A i \in DOMAIN Up[n] : Up[n][i].cells = cells
    BY <1>3, Lists, StatementKinds
  <2>. QED
    BY <1>2, <2>1
<1>4. JobStatus \notin Keeps[n]
  BY <1>1 DEF JobStatus
<1>. QED
  BY <1>2, <1>3, <1>4

\* The cells each migration leaves behind are among these.
LEMMA KeepsIs ==
    /\ Keeps[1] \subseteq FirstCells /\ Keeps[2] \subseteq JobCells
    /\ Keeps[3] \subseteq Transaction \union Cells("transactions", {"flow_transaction"})
    /\ Keeps[4] \subseteq Cells("storable_keys", {"id", "public_key"})
    /\ Keeps[5] \subseteq Cells("system_settings", {"id", "maintenance_mode"})
    /\ Keeps[6] \subseteq Cells("idempotency_keys", {"id"})
    /\ Keeps[7] \subseteq Cells("jobs", JobColumns \union {"attributes"})
    /\ Keeps[8] \subseteq Cells("jobs", JobColumns \union {"attributes", "errors"})
    /\ Keeps[9] \subseteq Cells("system_settings", {"id", "maintenance_mode", "paused_since"})
    /\ Keeps[10] \subseteq {JobIndex}
<1>1. 1..10 = List
  BY ListIs
<1>2. Keeps[1] \subseteq FirstCells
  <2>1. \A i \in DOMAIN Up[1] : Up[1][i].cells \subseteq FirstCells
    BY FirstIs, ListIs
  <2>. QED
    BY <1>1, <2>1, KeepsBelow
<1>3. Keeps[2] \subseteq JobCells
  <2>1. Up[2] = <<Add(JobCells), SetStates, DropColumn("jobs", "status")>>
    BY ListIs DEF M20211005, JobCells
  <2>2. \A i \in DOMAIN Up[2] : Up[2][i].op \in {"add", "createIndex"} => i = 1
    BY <2>1, Lists, StatementKinds
  <2>3. Up[2][1].cells = JobCells
    BY <2>1, Lists, StatementKinds
  <2>4. \A i \in DOMAIN Up[2] : Up[2][i].op \in {"add", "createIndex"} =>
           Up[2][i].cells \subseteq JobCells
    BY <2>2, <2>3
  <2>. QED
    BY <1>1, <2>4, KeepsBelow
<1>4. Up[3] = <<Add(Transaction \union Cells("transactions", {"flow_transaction"}))>>
  BY ListIs DEF M20211015
<1>5. Up[4] = <<Add(Cells("storable_keys", {"id", "public_key"}))>>
  BY ListIs DEF M20211118
<1>6. Up[5] = <<Add(Cells("system_settings", {"id", "maintenance_mode"}))>>
  BY ListIs DEF M20211130
<1>7. Up[6] = <<Add(Cells("idempotency_keys", {"id"}))>>
  BY ListIs DEF M20211202
<1>8. Up[7] = <<Add(Cells("jobs", JobColumns \union {"attributes"}))>>
  BY ListIs DEF M20211220
<1>9. Up[8] = <<Add(Cells("jobs", JobColumns \union {"attributes", "errors"}))>>
  BY ListIs DEF M20211221_1
<1>10. Up[9] = <<Add(Cells("system_settings", {"id", "maintenance_mode", "paused_since"}))>>
  BY ListIs DEF M20211221_2
<1>11. Keeps[10] \subseteq {JobIndex}
  <2>1. Up[10] = <<CreateIndex>>
    BY ListIs DEF M20220212
  <2>2. \A i \in DOMAIN Up[10] : Up[10][i].cells = {JobIndex}
    BY <2>1, Lists, StatementKinds
  <2>3. 10 \in List
    BY <1>1
  <2>4. \A i \in DOMAIN Up[10] : Up[10][i].op \in {"add", "createIndex"} =>
           Up[10][i].cells \subseteq {JobIndex}
    BY <2>2
  <2>. QED
    BY <2>3, <2>4, KeepsBelow
<1>12. \A n \in 3..9 : n \in List
  BY <1>1
<1>13. \A n \in 3..9 : \A cells : Up[n] = <<Add(cells)>> => Keeps[n] \subseteq cells
  BY <1>12, KeepsBelow
<1>. QED
  BY <1>2, <1>3, <1>4, <1>5, <1>6, <1>7, <1>8, <1>9, <1>10, <1>11, <1>13

LEMMA DownIs ==
    /\ DOMAIN Down = 1..10 /\ Down[1] = <<>> /\ Down[2] = R20211005
    /\ Down[3] = <<DropColumn("transactions", "flow_transaction")>>
    /\ Down[4] = <<DropColumn("storable_keys", "public_key")>>
    /\ Down[5] = <<DropTable("system_settings")>>
    /\ Down[6] = <<DropTable("idempotency_keys")>>
    /\ Down[7] = <<DropColumn("jobs", "attributes")>>
    /\ Down[8] = <<DropColumn("jobs", "errors")>>
    /\ Down[9] = <<DropColumn("system_settings", "paused_since")>>
    /\ Down[10] = <<DropIndex>>
BY DEF Down

\* A rollback drops, except that the second one adds and fills in the old columns.
LEMMA DownOps ==
    ASSUME NEW n \in List
    PROVE  /\ Len(Down[n]) \in Nat /\ DOMAIN Down[n] = 1..Len(Down[n])
           /\ \A i \in DOMAIN Down[n] :
                 \/ Down[n][i].op \in {"dropColumn", "dropTable", "dropIndex"}
                    /\ Down[n][i].cells # {}
                 \/ Down[n][i] \in {Add(JobCells), SetStatuses} /\ n = 2
<1>1. CASE n = 1
  BY <1>1, DownIs
<1>2. CASE n = 2
  <2>1. Len(R20211005) = 5 /\ DOMAIN R20211005 = 1..5
    BY DEF R20211005
  <2>2. R20211005[1] = Add(JobCells) /\ R20211005[2] = SetStatuses
    BY DEF R20211005, JobCells
  <2>3. /\ R20211005[3] = DropColumn("jobs", "status")
        /\ R20211005[4] = DropColumn("jobs", "type")
        /\ R20211005[5] = DropColumn("jobs", "exec_count")
    BY DEF R20211005
  <2>4. \A i \in 3..5 : R20211005[i].op = "dropColumn" /\ R20211005[i].cells # {}
    <3>1. \A t, c : DropColumn(t, c).cells # {}
      BY DEF DropColumn
    <3>. QED
      BY <2>3, <3>1, StatementKinds
  <2>5. Down[n] = R20211005
    BY <1>2, DownIs
  <2>6. \A i \in 1..5 : \/ R20211005[i].op = "dropColumn" /\ R20211005[i].cells # {}
                        \/ R20211005[i] \in {Add(JobCells), SetStatuses}
    BY <2>2, <2>4
  <2>7. Len(Down[n]) = 5 /\ DOMAIN Down[n] = 1..5
    BY <2>1, <2>5
  <2>8. \A i \in 1..5 : \/ Down[n][i].op = "dropColumn" /\ Down[n][i].cells # {}
                        \/ Down[n][i] \in {Add(JobCells), SetStatuses}
    BY <2>5, <2>6
  <2>. QED
    BY <1>2, <2>7, <2>8
<1>3. CASE n \in 3..10
  <2>. DEFINE Drop(s) == s.op \in {"dropColumn", "dropTable", "dropIndex"} /\ s.cells # {}
  <2>1. (\A t, c : Drop(DropColumn(t, c))) /\ (\A t : Drop(DropTable(t))) /\ Drop(DropIndex)
    BY DEF DropColumn, DropTable, DropIndex
  <2>2. \E s : Down[n] = <<s>> /\ Drop(s)
    <3>. HIDE DEF Drop
    <3>. QED
      BY <1>3, <2>1, DownIs
  <2>. QED
    BY <2>2, Lists
<1>. QED
  BY <1>1, <1>2, <1>3, ListIs

\* The cells a statement takes away.
TakenBy(s) ==
    {c \in AllColumns :
        \/ s.op \in {"dropColumn", "dropIndex"} /\ c \in s.cells
        \/ s.op = "dropTable" /\ \E d \in s.cells : c[1] = d[1]}

\* A rollback takes nothing an earlier migration has left behind.
LEMMA RollbackIsApart ==
    ASSUME NEW n \in List, NEW i \in DOMAIN Down[n], NEW m \in 1..n - 1
    PROVE  TakenBy(Down[n][i]) \intersect Keeps[m] = {}
<1>0. m \in 1..9 /\ n \in 2..10
  BY ListIs
<1>1. CASE n = 2
  <2>1. m = 1
    BY <1>1
  <2>2. FirstCells \intersect JobCells \subseteq {<<"jobs", "id">>, JobStatus}
    BY DEF FirstCells, JobCells, Cells, ListenerStatus, Job, Storable, ProposalKey, Account,
           Token, AccountToken, TokenTransfer, Transaction, JobColumns, JobStatus
  <2>3. JobStatus \notin Keeps[1]
    BY KeepsBelow, ListIs
  <2>4. TakenBy(R20211005[i]) \subseteq {JobStatus, <<"jobs", "type">>, <<"jobs", "exec_count">>}
    BY <1>1, DownIs DEF R20211005, TakenBy, Add, SetStatuses, DropColumn, JobStatus
  <2>. QED
    BY <1>1, <2>1, <2>2, <2>3, <2>4, KeepsIs, DownIs DEF JobCells, Cells, JobColumns, JobStatus
<1>. DEFINE flow == <<"transactions", "flow_transaction">>
<1>. DEFINE public == <<"storable_keys", "public_key">>
<1>. DEFINE errors == <<"jobs", "errors">>
<1>. DEFINE since == <<"system_settings", "paused_since">>
<1>2. /\ {flow, public, Attributes, errors, since, JobIndex} \intersect FirstCells = {}
      /\ \A c \in FirstCells : c[1] \notin {"system_settings", "idempotency_keys"}
  BY DEF FirstCells, Cells, ListenerStatus, Job, Storable, ProposalKey, Account, Attributes,
         Token, AccountToken, TokenTransfer, Transaction, JobIndex
<1>3. /\ TakenBy(DropColumn("transactions", "flow_transaction")) \subseteq {flow}
      /\ TakenBy(DropColumn("storable_keys", "public_key")) \subseteq {public}
      /\ \A c \in TakenBy(DropTable("system_settings")) : c[1] = "system_settings"
      /\ \A c \in TakenBy(DropTable("idempotency_keys")) : c[1] = "idempotency_keys"
      /\ TakenBy(DropColumn("jobs", "attributes")) \subseteq {Attributes}
      /\ TakenBy(DropColumn("jobs", "errors")) \subseteq {errors}
      /\ TakenBy(DropColumn("system_settings", "paused_since")) \subseteq {since}
      /\ TakenBy(DropIndex) \subseteq {JobIndex}
  BY StatementKinds DEF TakenBy, Attributes
<1>4. \A k \in 3..10 : \A s : Down[k] = <<s>> =>
         \A j \in DOMAIN Down[k] : TakenBy(Down[k][j]) = TakenBy(s)
  BY Lists
<1>5. \A t, columnsOf : \A c \in Cells(t, columnsOf) : c[1] = t /\ c[2] \in columnsOf
  BY DEF Cells
<1>6. \A c \in Keeps[2] : c[1] = "jobs" /\ c[2] \in JobColumns \union {"status"}
  BY <1>5, KeepsIs DEF JobCells
<1>7. \A c \in Keeps[3] : c[1] = "transactions"
  BY <1>5, KeepsIs DEF Transaction
<1>8. \A c \in Keeps[4] : c[1] = "storable_keys"
  BY <1>5, KeepsIs
<1>9. \A c \in Keeps[5] : c[1] = "system_settings" /\ c[2] \in {"id", "maintenance_mode"}
  BY <1>5, KeepsIs
<1>10. \A c \in Keeps[6] : c[1] = "idempotency_keys"
  BY <1>5, KeepsIs
<1>11. \A c \in Keeps[7] : c[1] = "jobs" /\ c[2] \in JobColumns \union {"attributes"}
  BY <1>5, KeepsIs
<1>12. \A c \in Keeps[8] : c[1] = "jobs" /\ c[2] \in JobColumns \union {"attributes", "errors"}
  BY <1>5, KeepsIs
<1>13. \A c \in Keeps[9] : c[1] = "system_settings"
  BY <1>5, KeepsIs
<1>. DEFINE Apart(cells) == cells \intersect Keeps[m] = {}
<1>14. CASE n = 3
  <2>1. Apart({flow})
    BY <1>2, <1>6, <1>14, KeepsIs
  <2>. QED
    BY <1>3, <1>4, <1>14, <2>1, DownIs
<1>15. CASE n = 4
  <2>1. Apart({public})
    BY <1>2, <1>6, <1>7, <1>15, KeepsIs
  <2>. QED
    BY <1>3, <1>4, <1>15, <2>1, DownIs
<1>16. CASE n = 5
  <2>1. \A c \in Keeps[m] : c[1] # "system_settings"
    BY <1>2, <1>6, <1>7, <1>8, <1>16, KeepsIs
  <2>. QED
    BY <1>3, <1>4, <1>16, <2>1, DownIs
<1>17. CASE n = 6
  <2>1. \A c \in Keeps[m] : c[1] # "idempotency_keys"
    BY <1>2, <1>6, <1>7, <1>8, <1>9, <1>17, KeepsIs
  <2>. QED
    BY <1>3, <1>4, <1>17, <2>1, DownIs
<1>18. CASE n = 7
  <2>1. Apart({Attributes})
    BY <1>2, <1>6, <1>7, <1>8, <1>9, <1>10, <1>18, KeepsIs DEF Attributes, JobColumns
  <2>. QED
    BY <1>3, <1>4, <1>18, <2>1, DownIs
<1>19. CASE n = 8
  <2>1. Apart({errors})
    BY <1>2, <1>6, <1>7, <1>8, <1>9, <1>10, <1>11, <1>19, KeepsIs DEF JobColumns
  <2>. QED
    BY <1>3, <1>4, <1>19, <2>1, DownIs
<1>20. CASE n = 9
  <2>1. Apart({since})
    BY <1>2, <1>6, <1>7, <1>8, <1>9, <1>10, <1>11, <1>12, <1>20, KeepsIs
  <2>. QED
    BY <1>3, <1>4, <1>20, <2>1, DownIs
<1>21. CASE n = 10
  <2>1. Apart({JobIndex})
    BY <1>2, <1>6, <1>7, <1>8, <1>9, <1>10, <1>11, <1>12, <1>13, <1>21, KeepsIs
       DEF JobIndex, JobColumns
  <2>. QED
    BY <1>3, <1>4, <1>21, <2>1, DownIs
<1>. QED
  BY <1>0, <1>1, <1>14, <1>15, <1>16, <1>17, <1>18, <1>19, <1>20, <1>21

-----------------------------------------------------------------------------
(* Statements.                                                             *)

\* The smallest and the largest of some migrations.
LEMMA ChooseIs ==
    ASSUME NEW some \in SUBSET List, some # {}
    PROVE  /\ Min(some) \in some /\ \A n \in some : Min(some) <= n
           /\ Max(some) \in some /\ \A n \in some : Max(some) >= n
<1>0. some \subseteq 1..10
  BY ListIs
<1>1. \E x \in some : \A y \in some : x <= y
  <2>. SUFFICES ASSUME \A x \in some : \E y \in some : y < x PROVE FALSE
    BY <1>0
  <2>1. 1 \notin some
    BY <1>0
  <2>2. 2 \notin some
    BY <1>0, <2>1
  <2>3. 3 \notin some
    BY <1>0, <2>1, <2>2
  <2>4. 4 \notin some
    BY <1>0, <2>1, <2>2, <2>3
  <2>5. 5 \notin some
    BY <1>0, <2>1, <2>2, <2>3, <2>4
  <2>6. 6 \notin some
    BY <1>0, <2>1, <2>2, <2>3, <2>4, <2>5
  <2>7. 7 \notin some
    BY <1>0, <2>1, <2>2, <2>3, <2>4, <2>5, <2>6
  <2>8. 8 \notin some
    BY <1>0, <2>1, <2>2, <2>3, <2>4, <2>5, <2>6, <2>7
  <2>9. 9 \notin some
    BY <1>0, <2>1, <2>2, <2>3, <2>4, <2>5, <2>6, <2>7, <2>8
  <2>10. 10 \notin some
    BY <1>0, <2>1, <2>2, <2>3, <2>4, <2>5, <2>6, <2>7, <2>8, <2>9
  <2>11. PICK x \in some : TRUE
    OBVIOUS
  <2>12. x \in 1..10
    BY <1>0
  <2>. QED
    BY <2>1, <2>2, <2>3, <2>4, <2>5, <2>6, <2>7, <2>8, <2>9, <2>10, <2>11, <2>12
<1>2. \E x \in some : \A y \in some : x >= y
  <2>. SUFFICES ASSUME \A x \in some : \E y \in some : y > x PROVE FALSE
    BY <1>0
  <2>1. 10 \notin some
    BY <1>0
  <2>2. 9 \notin some
    BY <1>0, <2>1
  <2>3. 8 \notin some
    BY <1>0, <2>1, <2>2
  <2>4. 7 \notin some
    BY <1>0, <2>1, <2>2, <2>3
  <2>5. 6 \notin some
    BY <1>0, <2>1, <2>2, <2>3, <2>4
  <2>6. 5 \notin some
    BY <1>0, <2>1, <2>2, <2>3, <2>4, <2>5
  <2>7. 4 \notin some
    BY <1>0, <2>1, <2>2, <2>3, <2>4, <2>5, <2>6
  <2>8. 3 \notin some
    BY <1>0, <2>1, <2>2, <2>3, <2>4, <2>5, <2>6, <2>7
  <2>9. 2 \notin some
    BY <1>0, <2>1, <2>2, <2>3, <2>4, <2>5, <2>6, <2>7, <2>8
  <2>10. 1 \notin some
    BY <1>0, <2>1, <2>2, <2>3, <2>4, <2>5, <2>6, <2>7, <2>8, <2>9
  <2>11. PICK x \in some : TRUE
    OBVIOUS
  <2>12. x \in 1..10
    BY <1>0
  <2>. QED
    BY <2>1, <2>2, <2>3, <2>4, <2>5, <2>6, <2>7, <2>8, <2>9, <2>10, <2>11, <2>12
<1>. QED
  BY <1>1, <1>2 DEF Min, Max

\* The conversions between status and state, as the chains of updates leave them: only
\* the first update finds a row, and the second if it asks for the same value.
LEMMA ToStateIs ==
    ASSUME NEW status
    PROVE  ToState(status) = IF status = 0 THEN "INIT" ELSE "null"
<1>. DEFINE chain == << Step({0}, "INIT"), Step({1}, "INIT"), Step({2}, "ACCEPTED"),
       Step({3}, "NO_AVAILABLE_WORKERS"), Step({4}, "NO_AVAILABLE_WORKERS"),
       Step({5}, "FAILED"), Step({6}, "COMPLETE"), Step({7}, "FAILED") >>
<1>. DEFINE hits == {i \in DOMAIN chain : \A j \in 1..i : status \in chain[j].where}
<1>1. ToState(status) = IF hits = {} THEN "null" ELSE chain[Max(hits)].set
  BY DEF ToState, Chained
<1>2. DOMAIN chain = 1..8 /\ chain[1].where = {0} /\ chain[2].where = {1} /\ chain[1].set = "INIT"
  BY DEF Step
<1>. HIDE DEF chain
<1>3. hits = IF status = 0 THEN {1} ELSE {}
  BY <1>2
<1>4. Max({1}) = 1
  BY DEF Max
<1>. HIDE DEF hits
<1>. QED
  BY <1>1, <1>2, <1>3, <1>4

LEMMA ToStatusIs ==
    ASSUME NEW state
    PROVE  ToStatus(state) = IF state = "INIT" THEN 1 ELSE Null
<1>. DEFINE chain == << Step({"INIT"}, 0), Step({"INIT"}, 1), Step({"ACCEPTED"}, 2),
       Step({"NO_AVAILABLE_WORKERS"}, 3), Step({"FAILED"}, 5), Step({"COMPLETE"}, 6) >>
<1>. DEFINE hits == {i \in DOMAIN chain : \A j \in 1..i : state \in chain[j].where}
<1>1. ToStatus(state) = IF hits = {} THEN Null ELSE chain[Max(hits)].set
  BY DEF ToStatus, Chained
<1>2. DOMAIN chain = 1..6 /\ chain[1].where = {"INIT"} /\ chain[2].where = {"INIT"}
      /\ chain[3].where = {"ACCEPTED"} /\ chain[2].set = 1
  BY DEF Step
<1>. HIDE DEF chain
<1>3. hits = IF state = "INIT" THEN {1, 2} ELSE {}
  BY <1>2
<1>4. Max({1, 2}) = 2
  BY DEF Max
<1>. HIDE DEF hits
<1>. QED
  BY <1>1, <1>2, <1>3, <1>4

\* What a statement leaves of the columns, and adds to them.
LEMMA ColumnsAfterIs ==
    ASSUME NEW s, columns \subseteq AllColumns
    PROVE  /\ columns \ TakenBy(s) \subseteq ColumnsAfter(s)
           /\ ColumnsAfter(s) \subseteq columns \union s.cells
           /\ s.op \in {"add", "createIndex"} => ColumnsAfter(s) = columns \union s.cells
           /\ s.op \notin {"add", "createIndex"} => ColumnsAfter(s) \subseteq columns
<1>1. CASE s.op \in {"add", "createIndex"}
  BY <1>1 DEF ColumnsAfter
<1>2. CASE s.op \in {"dropColumn", "dropIndex"}
  <2>1. ColumnsAfter(s) = columns \ s.cells
    BY <1>2 DEF ColumnsAfter
  <2>. QED
    BY <1>2, <2>1 DEF TakenBy
<1>3. CASE s.op = "dropTable"
  <2>1. ColumnsAfter(s) = {c \in columns : \A d \in s.cells : c[1] # d[1]}
    BY <1>3 DEF ColumnsAfter
  <2>. QED
    BY <1>3, <2>1 DEF TakenBy
<1>4. CASE s.op \notin {"add", "createIndex", "dropColumn", "dropIndex", "dropTable"}
  <2>1. ColumnsAfter(s) = columns
    BY <1>4 DEF ColumnsAfter
  <2>. QED
    BY <1>4, <2>1
<1>. QED
  BY <1>1, <1>2, <1>3, <1>4

\* What a statement adds are columns the migrations know; the attributes of jobs come
\* with a migration after the second, and not with a rollback.
LEMMA AddsAreKnown ==
    ASSUME NEW n \in List
    PROVE  /\ \A i \in DOMAIN Up[n] : Up[n][i].op \in {"add", "createIndex"} =>
                 /\ Up[n][i].cells \ {JobStatus} \subseteq Keeps[n]
                 /\ Up[n][i].cells \subseteq AllColumns
                 /\ Attributes \in Up[n][i].cells => n > 2
           /\ \A i \in DOMAIN Down[n] : Down[n][i].op = "add" =>
                 Down[n][i].cells \subseteq AllColumns \ {Attributes}
<1>1. \A m \in List : \A i \in DOMAIN Up[m] : Up[m][i].op \in {"add", "createIndex"} =>
         Up[m][i].cells \ {JobStatus} \subseteq Keeps[m]
  BY DEF Keeps, CellsOf
<1>2. \A m \in List : \A i \in DOMAIN Up[m] : Up[m][i].op \in {"add", "createIndex"} =>
         Up[m][i].cells \subseteq AllColumns
  BY DEF AllColumns, CellsOf
<1>3. Attributes # JobStatus /\ Attributes \notin JobCells
  BY DEF Attributes, JobStatus, JobCells, Cells, JobColumns
<1>4. n \in 1..2 => Attributes \notin Keeps[n]
  <2>1. Attributes \notin FirstCells
    BY DEF FirstCells, Cells, ListenerStatus, Job, Storable, ProposalKey, Account, Attributes,
           Token, AccountToken, TokenTransfer, Transaction
  <2>. QED
    BY <1>3, <2>1, KeepsIs
<1>5. JobCells \subseteq AllColumns
  <2>1. Up[2] = <<Add(JobCells), SetStates, DropColumn("jobs", "status")>> /\ 2 \in List
    BY ListIs DEF M20211005, JobCells
  <2>2. Up[2][1].op = "add" /\ Up[2][1].cells = JobCells /\ 1 \in DOMAIN Up[2]
    BY <2>1, Lists, StatementKinds
  <2>. QED
    BY <1>2, <2>1, <2>2
<1>6. \A i \in DOMAIN Down[n] : Down[n][i].op = "add" => Down[n][i].cells = JobCells
  BY DownOps, StatementKinds
<1>7. \A i \in DOMAIN Up[n] : Up[n][i].op \in {"add", "createIndex"} =>
         Up[n][i].cells \subseteq AllColumns
  BY <1>2
<1>8. \A i \in DOMAIN Up[n] : Up[n][i].op \in {"add", "createIndex"} =>
         (Attributes \in Up[n][i].cells => n > 2)
  BY <1>1, <1>3, <1>4, ListIs
<1>9. \A i \in DOMAIN Down[n] : Down[n][i].op = "add" =>
         Down[n][i].cells \subseteq AllColumns \ {Attributes}
  BY <1>3, <1>5, <1>6
<1>. QED
  BY <1>1, <1>7, <1>8, <1>9

\* What a statement does to a row of jobs.
LEMMA RowAfterIs ==
    ASSUME NEW s, NEW r \in Row
    PROVE  /\ RowAfter(s, r) \in Row
           /\ s.op \notin {"states", "statuses", "dropColumn"} => RowAfter(s, r) = r
           /\ RowAfter(s, r).state # r.state =>
                 s.op = "states" /\ r.status = 0 /\ RowAfter(s, r).state = "INIT"
           /\ RowAfter(s, r).status = 0 => r.status = 0
           /\ s = DropColumn("jobs", "status") => RowAfter(s, r).status = Null
<1>0. /\ r.status \in Statuses \union {Null} /\ Null # 0 /\ 1 \in Statuses
      /\ r.state \in Schedulable \union EndStates \union {"null"} /\ "INIT" \in Schedulable
  BY DEF Row, Null, Statuses, Schedulable
<1>1. CASE s.op = "states"
  <2>1. RowAfter(s, r) = [r EXCEPT !.state = IF r.status = 0 THEN "INIT" ELSE r.state]
    BY <1>1, ToStateIs DEF RowAfter
  <2>2. s # DropColumn("jobs", "status")
    BY <1>1, StatementKinds
  <2>. QED
    BY <1>0, <1>1, <2>1, <2>2 DEF Row
<1>2. CASE s.op = "statuses"
  <2>1. RowAfter(s, r) = [r EXCEPT !.status = IF r.state = "INIT" THEN 1 ELSE r.status]
    BY <1>2, ToStatusIs DEF RowAfter, Null
  <2>2. s # DropColumn("jobs", "status")
    BY <1>2, StatementKinds
  <2>. QED
    BY <1>0, <1>2, <2>1, <2>2 DEF Row
<1>3. CASE s.op = "dropColumn" /\ <<"jobs", "status">> \in s.cells
  <2>1. RowAfter(s, r) = [r EXCEPT !.status = Null]
    BY <1>3 DEF RowAfter
  <2>. QED
    BY <1>0, <1>3, <2>1 DEF Row
<1>4. CASE s.op \notin {"states", "statuses"}
              /\ ~ (s.op = "dropColumn" /\ <<"jobs", "status">> \in s.cells)
  <2>1. RowAfter(s, r) = r
    BY <1>4 DEF RowAfter
  <2>2. s # DropColumn("jobs", "status")
    BY <1>4, StatementKinds
  <2>. QED
    BY <2>1, <2>2
<1>. QED
  BY <1>1, <1>2, <1>3, <1>4

-----------------------------------------------------------------------------
(* The invariant.                                                          *)

\* Migrations go up in the order of the list, from the first that is not recorded,
\* and down from the last that is.
Position ==
    /\ server \in [phase : {"stopped", "up", "down", "serve"}, n : 0..10, at : Nat]
    /\ server.n # 0 =>
          \/ /\ server.phase = "up" /\ server.n \notin recorded
             /\ 1..server.n - 1 \subseteq recorded
          \/ /\ server.phase = "down" /\ server.n \in recorded
             /\ \A m \in recorded : m <= server.n

\* What the statements so far add is there, unless the first migration has failed.
UpDone ==
    server.phase = "up" /\ server.n # 0 =>
        \/ server.n = First /\ skipped
        \/ \A i \in 1..server.at - 1 : Up[server.n][i].op \in {"add", "createIndex"} =>
              Up[server.n][i].cells \ {JobStatus} \subseteq columns

\* What a recorded migration leaves behind, and none drops on the way up, is there.
Kept ==
    \A n \in recorded :
        \/ Keeps[n] \subseteq columns
        \/ <<"down", n>> \in HalfDone
        \/ n = First /\ skipped

\* The first migration adds the status of jobs in its second statement; only the second
\* migration drops it, on its way up and on its way down.
StatusThere ==
    ~ skipped =>
        \/ JobStatus \in columns
        \/ 2 \in recorded \union undone \/ <<"up", 2>> \in HalfDone
        \/ First \notin recorded /\ ~ (server.phase = "up" /\ server.n = First /\ server.at > 2)

\* A status that migrations turn into the first state is one of a job that has never
\* been executed, and gone before servers with states execute jobs.
ZeroIsNew ==
    /\ \A j \in DOMAIN jobs :
          jobs[j].status = 0 => j \notin ended /\ jobs[j].state \in {"null", "INIT"}
    /\ \/ 2 \in recorded \/ Attributes \in columns
       \/ server.phase = "up" /\ server.n = 2 /\ server.at > Len(Up[2])
       => \A j \in DOMAIN jobs : jobs[j].status # 0

MigrationsInv ==
    /\ TypeOK /\ Kept /\ StatusThere /\ JobsKept /\ ended \subseteq DOMAIN jobs
    /\ Position /\ UpDone /\ ZeroIsNew

LEMMA MigrationsInit == Init => MigrationsInv
<1>. SUFFICES ASSUME Init PROVE MigrationsInv
  OBVIOUS
<1>1. /\ version \in Versions /\ dialect \in Dialects /\ MaxConfigs \in Nat /\ MaxFaults \in Nat
      /\ First \in List /\ 1 \in List /\ First = 1
  BY MigrationsOK, ListIs DEF Init
<1>2. /\ server = [phase |-> "stopped", n |-> 0, at |-> 0] /\ cut = {} /\ skipped = FALSE /\ undone = {}
      /\ configs = 0 /\ faults = 0
  BY DEF Init, Stopped
<1>3. /\ columns \subseteq AllColumns /\ Attributes \notin columns
      /\ recorded \subseteq {First} /\ (recorded # {} => Keeps[First] \union {JobStatus} \subseteq columns)
  <2>1. CASE columns = {} /\ recorded = {}
    BY <2>1
  <2>2. CASE columns = FirstCells /\ recorded = {First}
    <3>1. \A i \in DOMAIN Up[1] : Up[1][i].cells \subseteq AllColumns
      BY <1>1, FirstIs, ListIs, AddsAreKnown, StatementKinds
    <3>2. FirstCells \subseteq AllColumns
      BY <3>1, FirstIs, ListIs
    <3>3. Attributes \notin FirstCells
      BY DEF FirstCells, Cells, ListenerStatus, Job, Storable, ProposalKey, Account, Attributes,
             Token, AccountToken, TokenTransfer, Transaction
    <3>4. JobStatus \in FirstCells
      BY DEF FirstCells, Job, Cells, JobStatus
    <3>. QED
      BY <1>1, <2>2, <3>2, <3>3, <3>4, KeepsIs
  <2>. QED
    BY <2>1, <2>2, FirstIs DEF Init
<1>4. /\ DOMAIN jobs \subseteq Jobs /\ ended \subseteq DOMAIN jobs
      /\ \A j \in DOMAIN jobs : jobs[j] \in Row /\ jobs[j].state = "null"
      /\ \A j \in DOMAIN jobs : jobs[j].status = 0 => j \notin ended
  <2>1. CASE jobs = <<>> /\ ended = {}
    BY <2>1
  <2>2. ASSUME NEW st \in OldStatus, NEW j \in Jobs,
               jobs = [x \in {j} |-> [status |-> st, state |-> "null"]],
               ended = IF st \in {5, 6} THEN {j} ELSE {}
        PROVE  <1>4!1 /\ <1>4!2 /\ <1>4!3
    <3>1. DOMAIN jobs = {j} /\ jobs[j] = [status |-> st, state |-> "null"]
      BY <2>2
    <3>2. jobs[j] \in Row
      BY <3>1, MigrationsOK DEF Row
    <3>. QED
      BY <2>2, <3>1, <3>2
  <2>. QED
    BY <2>1, <2>2 DEF Init
<1>5. TypeOK
  <2>1. server.phase = "stopped" /\ server.n = 0
    BY <1>2
  <2>2. configs \in 0..MaxConfigs /\ faults \in 0..MaxFaults /\ server.n \in 0..Latest
    BY <1>1, <1>2, ListIs
  <2>3. recorded \subseteq List /\ ended \subseteq Jobs
    BY <1>1, <1>3, <1>4
  <2>4. cut \subseteq {"up", "down"} \X List /\ skipped \in BOOLEAN /\ undone \subseteq List
    BY <1>2
  <2>. QED
    BY <1>1, <1>3, <1>4, <2>1, <2>2, <2>3, <2>4 DEF TypeOK
<1>6. Kept /\ StatusThere /\ JobsKept
  BY <1>1, <1>2, <1>3, <1>4 DEF Kept, StatusThere, JobsKept, Schedulable
<1>7. Position /\ UpDone /\ ZeroIsNew
  BY <1>1, <1>2, <1>3, <1>4 DEF Position, UpDone, ZeroIsNew
<1>. QED
  BY <1>4, <1>5, <1>6, <1>7 DEF MigrationsInv

-----------------------------------------------------------------------------
(* The steps.                                                              *)

\* The statement a server is at.
LEMMA StatementIs ==
    ASSUME TypeOK, Position, server.n # 0
    PROVE  /\ server.n \in List /\ server.n \in 1..10 /\ Len(Statements) \in Nat
           /\ server.at \in 1..Len(Statements) + 1
           /\ InStatement => server.at \in DOMAIN Statements
           /\ \/ server.phase = "up" /\ Statements = Up[server.n]
              \/ server.phase = "down" /\ Statements = Down[server.n]
<1>1. server.n \in List /\ server.n \in 1..10 /\ server.at \in 1..Len(Statements) + 1
  BY ListIs DEF TypeOK, Position
<1>2. CASE server.phase = "up"
  BY <1>1, <1>2, UpIs DEF Statements, InStatement
<1>3. CASE server.phase = "down"
  BY <1>1, <1>3, DownOps DEF Statements, InStatement
<1>. QED
  BY <1>1, <1>2, <1>3 DEF Position

LEMMA ServerMoves ==
    ASSUME Position, NEW n \in Nat, NEW at \in Nat, server' = [server EXCEPT !.n = n, !.at = at]
    PROVE  server' = [phase |-> server.phase, n |-> n, at |-> at]
<1>1. server \in [phase : {"stopped", "up", "down", "serve"}, n : 0..10, at : Nat]
  BY DEF Position
<1>. QED
  BY <1>1

\* What a server does next: the next migration in order, or it serves.
LEMMA ChooseStep ==
    ASSUME TypeOK, Position, Choose
    PROVE  /\ Position'
           /\ server'.n # 0 => server'.at = 1
           /\ server'.phase \in {"up", "down", "serve"}
<1>1. Target \in 1..10 /\ recorded \subseteq 1..10
  BY MigrationsOK, ListIs DEF TypeOK, Target
<1>2. CASE server.phase = "up" /\ ToDo # {}
  <2>2. ToDo \in SUBSET List
    BY <1>1, ListIs DEF ToDo
  <2>3. Min(ToDo) \in ToDo /\ \A n \in ToDo : Min(ToDo) <= n
    BY <1>2, <2>2, ChooseIs
  <2>4. Min(ToDo) \in 1..10 /\ Min(ToDo) \notin recorded /\ Min(ToDo) <= Target
    BY <1>1, <2>3 DEF ToDo
  <2>1. server' = [phase |-> "up", n |-> Min(ToDo), at |-> 1]
    <3>. DEFINE low == Min(ToDo)
    <3>1. server' = [server EXCEPT !.n = low, !.at = 1]
      BY <1>2 DEF Choose
    <3>2. low \in Nat /\ 1 \in Nat
      BY <2>4
    <3>. HIDE DEF low
    <3>3. server' = [phase |-> server.phase, n |-> low, at |-> 1]
      BY <3>1, <3>2, ServerMoves
    <3>. QED
      BY <1>2, <3>3 DEF low
  <2>5. 1..Min(ToDo) - 1 \subseteq recorded
    BY <1>1, <2>3, <2>4 DEF ToDo
  <2>6. /\ server'.phase = "up" /\ server'.n = Min(ToDo) /\ server'.at = 1
        /\ server' \in [phase : {"stopped", "up", "down", "serve"}, n : 0..10, at : Nat]
    BY <1>2, <2>1, <2>4 DEF Position
  <2>7. UNCHANGED recorded
    BY DEF Choose, db
  <2>. QED
    BY <2>4, <2>5, <2>6, <2>7 DEF Position
<1>3. CASE ~ (server.phase = "up" /\ ToDo # {}) /\ ToUndo # {}
  <2>1. server' = [phase |-> "down", n |-> Max(ToUndo), at |-> 1]
    BY <1>3 DEF Choose
  <2>2. ToUndo \in SUBSET List
    BY <1>1, ListIs DEF ToUndo
  <2>3. Max(ToUndo) \in ToUndo /\ \A n \in ToUndo : Max(ToUndo) >= n
    BY <1>3, <2>2, ChooseIs
  <2>4. Max(ToUndo) \in recorded /\ Max(ToUndo) \in 1..10 /\ Max(ToUndo) > Target
    BY <1>1, <2>3 DEF ToUndo
  <2>5. ASSUME NEW m \in recorded PROVE m <= Max(ToUndo)
    <3>1. CASE m \in ToUndo
      BY <1>1, <2>3, <2>4, <3>1
    <3>2. CASE m <= Target
      BY <1>1, <2>4, <3>2
    <3>. QED
      BY <1>1, <3>1, <3>2 DEF ToUndo
  <2>6. /\ server'.phase = "down" /\ server'.n = Max(ToUndo) /\ server'.at = 1
        /\ server' \in [phase : {"stopped", "up", "down", "serve"}, n : 0..10, at : Nat]
    BY <2>1, <2>4
  <2>7. UNCHANGED recorded
    BY DEF Choose, db
  <2>. QED
    BY <2>4, <2>5, <2>6, <2>7 DEF Position
<1>4. CASE ~ (server.phase = "up" /\ ToDo # {}) /\ ToUndo = {}
  BY <1>4 DEF Position, Choose
<1>. QED
  BY <1>2, <1>3, <1>4

LEMMA PositionStep ==
    ASSUME TypeOK, Position, [Next]_vars
    PROVE  Position'
<1>1. CASE Start
  BY <1>1 DEF Start, Position
<1>2. CASE Choose
  BY <1>2, ChooseStep
<1>3. CASE Execute
  BY <1>3 DEF Execute, Position
<1>4. CASE Impossible \/ Crash \/ \E v \in Versions : Configure(v)
  <2>1. server' = Stopped
    BY <1>4 DEF Impossible, Crash, Configure, Exit
  <2>. QED
    BY <2>1 DEF Position, Stopped
<1>5. CASE Record
  <2>1. server' = [phase |-> server.phase, n |-> 0, at |-> 0]
    BY <1>5, ServerMoves DEF Record
  <2>. QED
    BY <2>1 DEF Position
<1>6. CASE Fails
  <2>1. UNCHANGED recorded /\ (server' = Stopped \/ server' = [server EXCEPT !.at = @ + 1])
    BY <1>6 DEF Fails, Exit
  <2>2. CASE server' = Stopped
    BY <2>2 DEF Position, Stopped
  <2>3. CASE server' = [server EXCEPT !.at = @ + 1] /\ UNCHANGED recorded
    BY <2>3 DEF Position
  <2>. QED
    BY <2>1, <2>2, <2>3
<1>7. ASSUME NEW j \in Jobs, CreateJob(j) \/ ExecuteJob(j) PROVE Position'
  BY <1>7 DEF CreateJob, ExecuteJob, Position
<1>8. CASE UNCHANGED vars
  BY <1>8 DEF vars, db, Position
<1>. QED
  BY <1>1, <1>2, <1>3, <1>4, <1>5, <1>6, <1>7, <1>8 DEF Next, Migrating

\* The end of a start leaves a mark behind when a migration was under way.
LEMMA ExitIs ==
    ASSUME TypeOK, Position, Exit
    PROVE  /\ server' = Stopped /\ server'.n = 0 /\ server'.phase = "stopped"
           /\ cut \subseteq cut' /\ cut' \subseteq {"up", "down"} \X List
           /\ server.n # 0 => <<server.phase, server.n>> \in cut'
<1>1. server' = Stopped /\ server'.n = 0 /\ server'.phase = "stopped"
  BY DEF Exit, Stopped
<1>2. CASE server.n = 0
  <2>1. cut' = cut
    BY <1>2 DEF Exit
  <2>. QED
    BY <1>1, <1>2, <2>1 DEF TypeOK
<1>3. CASE server.n # 0
  <2>1. cut' = cut \union {<<server.phase, server.n>>}
    BY <1>3 DEF Exit
  <2>2. <<server.phase, server.n>> \in {"up", "down"} \X List
    BY <1>3, StatementIs
  <2>. QED
    BY <1>1, <2>1, <2>2 DEF TypeOK
<1>. QED
  BY <1>2, <1>3

\* The columns after a statement: on the way up only the status of jobs goes, on the
\* way down nothing an earlier migration has left behind.
LEMMA ExecuteColumns ==
    ASSUME TypeOK, Position, InStatement, columns' = ColumnsAfter(Statements[server.at])
    PROVE  /\ columns' \subseteq AllColumns
           /\ server.phase = "up" =>
                 /\ columns \subseteq columns' \union {JobStatus}
                 /\ Up[server.n][server.at].op \in {"add", "createIndex"} =>
                       Up[server.n][server.at].cells \subseteq columns'
           /\ server.phase = "down" =>
                 \A m \in 1..server.n - 1 : Keeps[m] \subseteq columns => Keeps[m] \subseteq columns'
           /\ Attributes \in columns' =>
                 Attributes \in columns \/ (server.phase = "up" /\ server.n > 2)
<1>. DEFINE s == Statements[server.at]
<1>0. /\ server.n # 0 /\ server.n \in List /\ server.n \in 1..10 /\ server.at \in DOMAIN Statements
      /\ \/ server.phase = "up" /\ Statements = Up[server.n]
         \/ server.phase = "down" /\ Statements = Down[server.n]
  BY StatementIs DEF InStatement
<1>1. /\ columns \ TakenBy(s) \subseteq columns' /\ columns' \subseteq columns \union s.cells
      /\ s.op \in {"add", "createIndex"} => s.cells \subseteq columns'
      /\ s.op \notin {"add", "createIndex"} => columns' \subseteq columns
      /\ columns \subseteq AllColumns
  BY ColumnsAfterIs DEF TypeOK
<1>2. CASE server.phase = "up"
  <2>1. s = Up[server.n][server.at] /\ server.at \in DOMAIN Up[server.n]
    BY <1>0, <1>2
  <2>2. TakenBy(s) \subseteq {JobStatus}
    <3>1. s.op \in {"add", "createIndex", "states"} \/ s = DropColumn("jobs", "status")
      BY <1>0, <2>1, UpIs
    <3>. QED
      BY <3>1, StatementKinds DEF TakenBy, JobStatus
  <2>3. s.op \in {"add", "createIndex"} =>
           s.cells \subseteq AllColumns /\ (Attributes \in s.cells => server.n > 2)
    BY <1>0, <2>1, AddsAreKnown
  <2>. HIDE DEF s
  <2>. QED
    BY <1>1, <1>2, <2>1, <2>2, <2>3
<1>3. CASE server.phase = "down"
  <2>1. s = Down[server.n][server.at] /\ server.at \in DOMAIN Down[server.n]
    BY <1>0, <1>3
  <2>2. s.op = "createIndex" => FALSE
    BY <1>0, <2>1, DownOps, StatementKinds
  <2>3. s.op = "add" => s.cells \subseteq AllColumns \ {Attributes}
    BY <1>0, <2>1, AddsAreKnown
  <2>4. \A m \in 1..server.n - 1 : TakenBy(s) \intersect Keeps[m] = {}
    BY <1>0, <2>1, RollbackIsApart
  <2>. HIDE DEF s
  <2>. QED
    BY <1>1, <1>3, <2>2, <2>3, <2>4
<1>. QED
  BY <1>0, <1>2, <1>3

\* The second statement of the first migration adds the status of jobs.
LEMMA SecondAdds ==
    /\ Len(Up[1]) = 7
    /\ Up[1][2].op = "add" /\ JobStatus \in Up[1][2].cells
<1>1. Len(M20210922) = 7 /\ M20210922[2] = Add(Job)
  BY DEF M20210922
<1>2. JobStatus \in Job
  BY DEF JobStatus, Job, Cells
<1>. QED
  BY <1>1, <1>2, ListIs, StatementKinds

\* No statement but those of the second migration takes the status of jobs.
LEMMA StatusStays ==
    ASSUME TypeOK, Position, InStatement, server.n # 2, JobStatus \in columns
    PROVE  JobStatus \in ColumnsAfter(Statements[server.at])
<1>. DEFINE s == Statements[server.at]
<1>0. /\ server.n # 0 /\ server.n \in List /\ server.n \in 1..10 /\ server.at \in DOMAIN Statements
      /\ \/ server.phase = "up" /\ Statements = Up[server.n]
         \/ server.phase = "down" /\ Statements = Down[server.n]
  BY StatementIs DEF InStatement
<1>1. columns \ TakenBy(s) \subseteq ColumnsAfter(s)
  BY ColumnsAfterIs DEF TypeOK
<1>2. CASE server.phase = "up"
  <2>1. s = Up[server.n][server.at]
    BY <1>0, <1>2
  <2>2. s.op \in {"add", "createIndex", "states"}
    <3>1. CASE server.n = 1
      <4>1. \A i \in DOMAIN Up[1] : Up[1][i].op = "add"
        BY FirstIs, ListIs, StatementKinds
      <4>. QED
        BY <1>0, <1>2, <2>1, <3>1, <4>1
    <3>2. CASE server.n \in 3..9
      <4>1. PICK cells : Up[server.n] = <<Add(cells)>>
        BY <3>2, ListIs DEF M20211015, M20211118, M20211130, M20211202, M20211220, M20211221_1,
           M20211221_2
      <4>. QED
        BY <1>0, <1>2, <2>1, <4>1, Lists, StatementKinds
    <3>3. CASE server.n = 10
      BY <1>0, <1>2, <2>1, <3>3, ListIs, Lists, StatementKinds DEF M20220212
    <3>. QED
      BY <1>0, <3>1, <3>2, <3>3
  <2>3. TakenBy(s) = {}
    <3>. HIDE DEF s
    <3>. QED
      BY <2>2 DEF TakenBy
  <2>. QED
    BY <1>1, <2>3
<1>3. CASE server.phase = "down"
  <2>1. s = Down[server.n][server.at] /\ server.n \in 3..10
    BY <1>0, <1>3, DownIs
  <2>2. JobStatus \notin TakenBy(s)
    <3>. DEFINE Harmless(x) == JobStatus \notin TakenBy(x)
    <3>1. /\ Harmless(DropColumn("transactions", "flow_transaction"))
          /\ Harmless(DropColumn("storable_keys", "public_key"))
          /\ Harmless(DropTable("system_settings"))
          /\ Harmless(DropTable("idempotency_keys"))
          /\ Harmless(DropColumn("jobs", "attributes"))
          /\ Harmless(DropColumn("jobs", "errors"))
          /\ Harmless(DropColumn("system_settings", "paused_since"))
          /\ Harmless(DropIndex)
      BY StatementKinds DEF TakenBy, JobStatus, JobIndex
    <3>. HIDE DEF Harmless
    <3>2. \E x : Down[server.n] = <<x>> /\ Harmless(x)
      BY <2>1, <3>1, DownIs
    <3>3. Harmless(Down[server.n][server.at])
      BY <1>0, <1>3, <3>2, Lists
    <3>. QED
      BY <2>1, <3>3 DEF Harmless
  <2>. QED
    BY <1>1, <2>2
<1>. QED
  BY <1>0, <1>2, <1>3

\* A statement that fails takes nothing, and adds no more than it says.
LEMMA FailsColumns ==
    ASSUME TypeOK, Position, Fails
    PROVE  /\ columns \subseteq columns' /\ columns' \subseteq AllColumns
           /\ Attributes \in columns' =>
                 Attributes \in columns \/ (server.phase = "up" /\ server.n > 2)
<1>. DEFINE s == Statements[server.at]
<1>0. /\ server.n # 0 /\ server.n \in List /\ server.at \in DOMAIN Statements
      /\ \/ server.phase = "up" /\ Statements = Up[server.n]
         \/ server.phase = "down" /\ Statements = Down[server.n]
  BY StatementIs DEF InStatement, Fails
<1>1. PICK done \in IF s.op = "add" THEN SUBSET s.cells ELSE {{}} : columns' = columns \union done
  BY DEF Fails
<1>2. CASE s.op # "add"
  <2>1. columns' = columns
    BY <1>1, <1>2
  <2>. QED
    BY <2>1 DEF TypeOK
<1>3. CASE s.op = "add"
  <2>1. done \subseteq s.cells
    BY <1>1, <1>3
  <2>2. s.cells \subseteq AllColumns
        /\ (Attributes \in s.cells => server.phase = "up" /\ server.n > 2)
    BY <1>0, <1>3, AddsAreKnown
  <2>. QED
    BY <1>1, <2>1, <2>2 DEF TypeOK
<1>. QED
  BY <1>2, <1>3

LEMMA MigrationsTypeStep ==
    ASSUME TypeOK, Position, [Next]_vars
    PROVE  TypeOK'
<1>. DEFINE Rows == DOMAIN jobs \subseteq Jobs /\ \A j \in DOMAIN jobs : jobs[j] \in Row
<1>. DEFINE At == server.n # 0 => server.at \in 1..Len(Statements) + 1
<1>. DEFINE Counts == configs \in 0..MaxConfigs /\ faults \in 0..MaxFaults
<1>. DEFINE Rest == /\ columns \subseteq AllColumns /\ recorded \subseteq List
                    /\ ended \subseteq Jobs /\ skipped \in BOOLEAN
                    /\ undone \subseteq List
                    /\ cut \subseteq {"up", "down"} \X List
                    /\ version \in Versions /\ dialect \in Dialects
<1>0. /\ Rows /\ At /\ Counts /\ Rest /\ MaxConfigs \in Nat /\ MaxFaults \in Nat
      /\ server.n \in 0..10 /\ server.phase \in {"stopped", "up", "down", "serve"}
  BY MigrationsOK DEF TypeOK, Position
<1>1. Position' /\ server'.n \in 0..Latest /\ server'.phase \in {"stopped", "up", "down", "serve"}
  BY PositionStep, ListIs DEF Position
<1>. SUFFICES Rows' /\ At' /\ Counts' /\ Rest'
  BY <1>1 DEF TypeOK
<1>2. CASE Start
  <2>1. server'.n = 0
    BY <1>2 DEF Start
  <2>. QED
    BY <1>0, <1>2, <2>1 DEF Start, db
<1>3. CASE Choose
  <2>1. server'.n # 0 => server'.at = 1
    BY <1>3, ChooseStep
  <2>2. server'.n # 0 => Len(Statements') \in Nat
    <3>1. ASSUME server'.n # 0 PROVE server'.n \in List
      BY <1>1, <3>1, ListIs DEF Position
    <3>2. Statements' \in {Up[server'.n], Down[server'.n]}
      BY DEF Statements
    <3>. QED
      BY <3>1, <3>2, UpIs, DownOps
  <2>3. At'
    BY <2>1, <2>2
  <2>. QED
    BY <1>0, <1>3, <2>3 DEF Choose, db
<1>4. CASE Execute
  <2>1. InStatement /\ server' = [server EXCEPT !.at = server.at + 1]
    BY <1>4 DEF Execute
  <2>2. server.n # 0 /\ server.at \in 1..Len(Statements) /\ Len(Statements) \in Nat
    BY <2>1, StatementIs DEF InStatement
  <2>3. server'.n = server.n /\ server'.phase = server.phase /\ server'.at = server.at + 1
    BY <2>1 DEF Position
  <2>4. Statements' = Statements
    BY <2>3 DEF Statements
  <2>5. At'
    BY <2>2, <2>3, <2>4
  <2>6. columns' \subseteq AllColumns
    BY <1>4, ExecuteColumns DEF Execute, Apply
  <2>7. Rows'
    <3>1. jobs' = [j \in DOMAIN jobs |-> RowAfter(Statements[server.at], jobs[j])]
      BY <1>4 DEF Execute, Apply
    <3>. QED
      BY <1>0, <3>1, RowAfterIs
  <2>. QED
    BY <1>0, <1>4, <2>5, <2>6, <2>7 DEF Execute
<1>5. CASE Impossible \/ Crash
  <2>1. server'.n = 0 /\ cut' \subseteq {"up", "down"} \X List
    BY <1>5, ExitIs DEF Impossible, Crash
  <2>2. UNCHANGED <<dialect, version, columns, jobs, recorded, ended, skipped, undone, configs>>
    BY <1>5 DEF Impossible, Crash, db
  <2>3. Counts'
    BY <1>0, <1>5 DEF Impossible, Crash
  <2>. QED
    BY <1>0, <2>1, <2>2, <2>3
<1>6. CASE Record
  <2>1. server'.n = 0
    BY <1>6, ServerMoves DEF Record
  <2>2. server.n \in List
    BY <1>6, StatementIs DEF Record
  <2>3. recorded' \subseteq List /\ cut' \subseteq cut /\ undone' \subseteq List
    BY <1>0, <1>6, <2>2 DEF Record
  <2>. QED
    BY <1>0, <1>6, <2>1, <2>3 DEF Record
<1>7. CASE Fails
  <2>1. columns' \subseteq AllColumns
    BY <1>7, FailsColumns
  <2>2. UNCHANGED <<dialect, version, jobs, recorded, ended, undone, configs>>
    BY <1>7 DEF Fails
  <2>3. Counts'
    BY <1>0, <1>7 DEF Fails
  <2>4. CASE Exit /\ UNCHANGED skipped
    BY <1>0, <2>1, <2>2, <2>3, <2>4, ExitIs
  <2>5. CASE server' = [server EXCEPT !.at = server.at + 1] /\ skipped' = TRUE /\ UNCHANGED cut
    <3>1. server.n # 0 /\ server.at \in 1..Len(Statements) /\ Len(Statements) \in Nat
      BY <1>7, StatementIs DEF Fails, InStatement
    <3>2. server'.n = server.n /\ server'.phase = server.phase /\ server'.at = server.at + 1
      BY <2>5 DEF Position
    <3>3. Statements' = Statements
      BY <3>2 DEF Statements
    <3>4. At'
      BY <3>1, <3>2, <3>3
    <3>. QED
      BY <1>0, <2>1, <2>2, <2>3, <2>5, <3>4
  <2>. QED
    BY <1>7, <2>4, <2>5 DEF Fails
<1>8. ASSUME NEW j \in Jobs, CreateJob(j) PROVE Rows' /\ At' /\ Counts' /\ Rest'
  <2>1. [status |-> Null, state |-> "INIT"] \in Row
    BY DEF Row, Schedulable
  <2>2. Rows'
    BY <1>0, <1>8, <2>1 DEF CreateJob
  <2>. QED
    BY <1>0, <1>8, <2>2 DEF CreateJob, Statements
<1>9. ASSUME NEW j \in Jobs, ExecuteJob(j) PROVE Rows' /\ At' /\ Counts' /\ Rest'
  <2>1. PICK state \in {"COMPLETE", "FAILED", "ERROR"} :
          jobs' = [jobs EXCEPT ![j].state = state]
          /\ ended' = IF state = "ERROR" THEN ended ELSE ended \union {j}
    BY <1>9 DEF ExecuteJob
  <2>2. state \in Schedulable \union EndStates /\ jobs[j] \in Row /\ j \in DOMAIN jobs
    BY <1>0, <1>9 DEF ExecuteJob, Schedulable, EndStates
  <2>3. [jobs[j] EXCEPT !.state = state] \in Row
    BY <2>2 DEF Row
  <2>4. Rows'
    BY <1>0, <2>1, <2>2, <2>3
  <2>5. ended' \subseteq Jobs
    BY <1>0, <2>1
  <2>. QED
    BY <1>0, <1>9, <2>4, <2>5 DEF ExecuteJob, Statements
<1>10. ASSUME NEW v \in Versions, Configure(v) PROVE Rows' /\ At' /\ Counts' /\ Rest'
  <2>1. server'.n = 0
    BY <1>10 DEF Configure, Stopped
  <2>. QED
    BY <1>0, <1>10, <2>1 DEF Configure, db
<1>11. CASE UNCHANGED vars
  BY <1>0, <1>11 DEF vars, db, Statements
<1>. QED
  BY <1>2, <1>3, <1>4, <1>5, <1>6, <1>7, <1>8, <1>9, <1>10, <1>11 DEF Next, Migrating

\* What a migration has added so far stays there until it is recorded.
LEMMA UpDoneStep ==
    ASSUME TypeOK, Position, UpDone, [Next]_vars
    PROVE  UpDone'
<1>1. CASE Execute
  <2>1. InStatement /\ server' = [server EXCEPT !.at = server.at + 1] /\ UNCHANGED skipped
    BY <1>1 DEF Execute
  <2>2. server'.n = server.n /\ server'.phase = server.phase /\ server'.at = server.at + 1
    BY <2>1 DEF Position
  <2>3. SUFFICES ASSUME server.phase = "up", ~ (server.n = First /\ skipped),
                        NEW i \in 1..server.at, Up[server.n][i].op \in {"add", "createIndex"}
                 PROVE  Up[server.n][i].cells \ {JobStatus} \subseteq columns'
    <3>1. server.at \in Nat
      BY DEF Position
    <3>. QED
      BY <2>1, <2>2, <3>1 DEF UpDone
  <2>4. /\ columns \subseteq columns' \union {JobStatus}
        /\ Up[server.n][server.at].op \in {"add", "createIndex"} =>
              Up[server.n][server.at].cells \subseteq columns'
    BY <1>1, <2>3, ExecuteColumns DEF Execute, Apply
  <2>5. CASE i = server.at
    BY <2>3, <2>4, <2>5
  <2>6. CASE i \in 1..server.at - 1
    BY <2>1, <2>3, <2>4, <2>6 DEF UpDone, InStatement
  <2>. QED
    BY <2>5, <2>6 DEF Position
<1>2. CASE Fails
  <2>1. columns \subseteq columns'
    BY <1>2, FailsColumns
  <2>2. CASE Exit
    BY <2>2, ExitIs DEF UpDone
  <2>3. CASE server' = [server EXCEPT !.at = server.at + 1] /\ skipped' = TRUE
             /\ Unchecked(server.n)
    <3>1. server'.n = server.n
      BY <2>3 DEF Position
    <3>. QED
      BY <2>3, <3>1 DEF UpDone, Unchecked
  <2>. QED
    BY <1>2, <2>2, <2>3 DEF Fails
<1>3. CASE Choose
  <2>1. server'.n # 0 => server'.at = 1
    BY <1>3, ChooseStep
  <2>. QED
    BY <2>1 DEF UpDone
<1>4. CASE Start \/ Record
  <2>1. CASE Start
    BY <2>1 DEF Start, UpDone
  <2>2. CASE Record
    <3>1. server'.n = 0
      BY <2>2, ServerMoves DEF Record
    <3>. QED
      BY <3>1 DEF UpDone
  <2>. QED
    BY <1>4, <2>1, <2>2
<1>5. CASE Impossible \/ Crash \/ \E v \in Versions : Configure(v)
  <2>1. server' = Stopped
    BY <1>5 DEF Impossible, Crash, Configure, Exit
  <2>. QED
    BY <2>1 DEF UpDone, Stopped
<1>6. CASE UNCHANGED <<server, columns, skipped>>
  BY <1>6 DEF UpDone
<1>7. ASSUME NEW j \in Jobs, CreateJob(j) \/ ExecuteJob(j)
      PROVE  UNCHANGED <<server, columns, skipped>>
  BY <1>7 DEF CreateJob, ExecuteJob
<1>8. CASE UNCHANGED vars
  BY <1>6, <1>8 DEF vars, db
<1>. QED
  BY <1>1, <1>2, <1>3, <1>4, <1>5, <1>6, <1>7, <1>8 DEF Next, Migrating

\* A migration that is recorded has left behind all it gives, and a rollback takes
\* only from the last one that is recorded.
LEMMA KeptStep ==
    ASSUME TypeOK, Position, UpDone, Kept, [Next]_vars
    PROVE  Kept'
<1>. DEFINE Excused(n) == \/ <<"down", n>> \in cut \union {<<server.phase, server.n>>}
                          \/ n = First /\ skipped
<1>0. \A n \in recorded : Keeps[n] \subseteq columns \/ Excused(n)
  BY DEF Kept, HalfDone
<1>. SUFFICES ASSUME NEW n \in recorded' PROVE Keeps[n] \subseteq columns' \/ Excused(n)'
  BY DEF Kept, HalfDone
<1>00. recorded \subseteq 1..10 /\ recorded \subseteq List
  BY ListIs DEF TypeOK
<1>1. ASSUME UNCHANGED recorded, columns \subseteq columns', cut \subseteq cut',
             skipped => skipped', server.phase = "down" /\ server.n # 0 =>
                <<"down", server.n>> \in cut' \union {<<server'.phase, server'.n>>}
      PROVE  Keeps[n] \subseteq columns' \/ Excused(n)'
  <2>1. n # 0
    BY <1>00, <1>1
  <2>. QED
    BY <1>0, <1>1, <2>1
<1>2. CASE Start
  <2>1. server'.n = 0 /\ server.phase = "stopped"
        /\ UNCHANGED <<recorded, columns, cut, skipped>>
    BY <1>2 DEF Start, db
  <2>. QED
    BY <1>1, <2>1
<1>3. CASE Choose
  <2>1. server.n = 0 /\ UNCHANGED <<recorded, columns, cut, skipped>>
    BY <1>3 DEF Choose, db
  <2>. QED
    BY <1>1, <2>1
<1>4. CASE Execute
  <2>1. InStatement /\ server' = [server EXCEPT !.at = server.at + 1] /\ server.n # 0
        /\ UNCHANGED <<recorded, cut, skipped>>
    BY <1>4 DEF Execute, InStatement
  <2>2. server'.n = server.n /\ server'.phase = server.phase
    BY <2>1 DEF Position
  <2>3. CASE server.phase = "up"
    <3>1. columns \subseteq columns' \union {JobStatus}
      BY <1>4, <2>3, ExecuteColumns DEF Execute, Apply
    <3>2. JobStatus \notin Keeps[n]
      BY <1>00, <2>1, KeepsBelow
    <3>. QED
      BY <1>0, <2>1, <2>2, <3>1, <3>2
  <2>4. CASE server.phase = "down" /\ n # server.n
    <3>1. n \in 1..server.n - 1
      BY <1>00, <2>1, <2>4 DEF Position
    <3>2. Keeps[n] \subseteq columns => Keeps[n] \subseteq columns'
      BY <1>4, <2>4, <3>1, ExecuteColumns DEF Execute, Apply
    <3>. QED
      BY <1>0, <2>1, <2>2, <3>2
  <2>5. CASE server.phase = "down" /\ n = server.n
    BY <2>2, <2>5
  <2>. QED
    BY <2>1, <2>3, <2>4, <2>5 DEF Position
<1>5. CASE Impossible \/ Crash
  <2>1. UNCHANGED <<recorded, columns, skipped>> /\ Exit
    BY <1>5 DEF Impossible, Crash, db
  <2>. QED
    BY <1>1, <2>1, ExitIs
<1>6. CASE Fails
  <2>1. columns \subseteq columns' /\ UNCHANGED recorded
    BY <1>6, FailsColumns DEF Fails
  <2>2. CASE Exit /\ UNCHANGED skipped
    BY <1>1, <2>1, <2>2, ExitIs
  <2>3. CASE server.phase = "up" /\ UNCHANGED cut /\ skipped' = TRUE
    BY <1>1, <2>1, <2>3
  <2>. QED
    BY <1>6, <2>2, <2>3 DEF Fails
<1>7. CASE Record
  <2>1. /\ server.n # 0 /\ server.at > Len(Statements)
        /\ recorded' = IF server.phase = "up" THEN recorded \union {server.n}
                       ELSE recorded \ {server.n}
        /\ cut' = cut \ {<<"up", server.n>>, <<"down", server.n>>}
        /\ UNCHANGED <<columns, skipped>>
    BY <1>7 DEF Record
  <2>2. CASE n = server.n
    <3>1. server.phase = "up" /\ Statements = Up[n] /\ n \in List
      BY <2>1, <2>2, StatementIs
    <3>2. server.at = Len(Up[n]) + 1 /\ Len(Up[n]) \in Nat /\ DOMAIN Up[n] = 1..Len(Up[n])
      BY <2>1, <2>2, <3>1, StatementIs, UpIs
    <3>3. CASE n = First /\ skipped
      BY <2>1, <3>3
    <3>4. CASE ~ (n = First /\ skipped)
      <4>1. \A i \in DOMAIN Up[n] : Up[n][i].op \in {"add", "createIndex"} =>
               Up[n][i].cells \subseteq columns \union {JobStatus}
        BY <2>1, <2>2, <3>1, <3>2, <3>4 DEF UpDone
      <4>2. Keeps[n] \subseteq columns \union {JobStatus} /\ JobStatus \notin Keeps[n]
        BY <3>1, <4>1, KeepsBelow
      <4>. QED
        BY <2>1, <4>2
    <3>. QED
      BY <3>3, <3>4
  <2>3. CASE n # server.n
    <3>1. n \in recorded /\ <<"down", n>> # <<"down", server.n>> /\ <<"down", n>> # <<"up", server.n>>
      BY <2>1, <2>3
    <3>. QED
      BY <1>0, <2>1, <2>3, <3>1
  <2>. QED
    BY <2>2, <2>3
<1>8. ASSUME NEW j \in Jobs, CreateJob(j) \/ ExecuteJob(j)
      PROVE  Keeps[n] \subseteq columns' \/ Excused(n)'
  BY <1>1, <1>8 DEF CreateJob, ExecuteJob
<1>9. ASSUME NEW v \in Versions, Configure(v)
      PROVE  Keeps[n] \subseteq columns' \/ Excused(n)'
  <2>1. UNCHANGED <<recorded, columns, cut, skipped>> /\ server.phase \in {"serve", "stopped"}
    BY <1>9 DEF Configure, db
  <2>. QED
    BY <1>1, <2>1
<1>10. CASE UNCHANGED vars
  BY <1>1, <1>10 DEF vars, db
<1>. QED
  BY <1>2, <1>3, <1>4, <1>5, <1>6, <1>7, <1>8, <1>9, <1>10 DEF Next, Migrating

\* The status of jobs goes only while the second migration is done or undone.
LEMMA StatusStep ==
    ASSUME TypeOK, Position, StatusThere, [Next]_vars
    PROVE  StatusThere'
<1>. DEFINE Second == 2 \in recorded \union undone \/ <<"up", 2>> \in HalfDone
<1>. DEFINE Early == First \notin recorded
                       /\ ~ (server.phase = "up" /\ server.n = First /\ server.at > 2)
<1>. SUFFICES ASSUME ~ skipped' PROVE JobStatus \in columns' \/ Second' \/ Early'
  BY DEF StatusThere
<1>0. First = 1 /\ server \in [phase : {"stopped", "up", "down", "serve"}, n : 0..10, at : Nat]
  BY ListIs DEF Position
<1>1. ASSUME UNCHANGED <<recorded, undone, skipped>>, columns \subseteq columns',
             cut \subseteq cut',
             server.n # 0 => \/ UNCHANGED server
                             \/ <<server.phase, server.n>> \in cut' /\ server'.n = 0,
             server'.n = First => server.n = First \/ server'.at = 1
      PROVE  JobStatus \in columns' \/ Second' \/ Early'
  <2>1. JobStatus \in columns \/ Second \/ Early
    BY <1>1 DEF StatusThere
  <2>2. CASE Second
    BY <1>0, <1>1, <2>2 DEF HalfDone
  <2>3. CASE Early
    BY <1>0, <1>1, <2>3
  <2>. QED
    BY <1>1, <2>1, <2>2, <2>3
<1>2. CASE Start \/ Choose
  <2>1. server.n = 0 /\ UNCHANGED <<recorded, undone, skipped, columns, cut>>
    <3>1. CASE Start
      BY <3>1 DEF Start, Position, db
    <3>2. CASE Choose
      BY <3>2 DEF Choose, db
    <3>. QED
      BY <1>2, <3>1, <3>2
  <2>2. server'.n # 0 => server'.at = 1
    <3>1. CASE Start
      BY <3>1 DEF Start
    <3>2. CASE Choose
      BY <3>2, ChooseStep
    <3>. QED
      BY <1>2, <3>1, <3>2
  <2>. QED
    BY <1>0, <1>1, <2>1, <2>2
<1>3. CASE Execute
  <2>1. InStatement /\ server' = [server EXCEPT !.at = server.at + 1] /\ server.n # 0
        /\ UNCHANGED <<recorded, cut, skipped, undone>>
        /\ columns' = ColumnsAfter(Statements[server.at])
    BY <1>3 DEF Execute, InStatement, Apply
  <2>2. server'.n = server.n /\ server'.phase = server.phase /\ server'.at = server.at + 1
    BY <1>0, <2>1
  <2>3. Second => Second'
    BY <2>1, <2>2 DEF HalfDone
  <2>4. CASE server.n = 2
    BY <2>1, <2>2, <2>4 DEF Position, HalfDone
  <2>5. CASE server.n # 2
    <3>1. JobStatus \in columns => JobStatus \in columns'
      BY <2>1, <2>5, StatusStays
    <3>2. CASE Early /\ server.phase = "up" /\ server.n = First
      <4>1. CASE server.at = 2
        <5>1. JobStatus \in columns'
          BY <1>0, <2>1, <3>2, <4>1, SecondAdds, ExecuteColumns, ListIs
        <5>. QED
          BY <5>1
      <4>2. CASE server.at # 2
        BY <1>0, <2>1, <2>2, <3>2, <4>2
      <4>. QED
        BY <4>1, <4>2
    <3>3. CASE Early /\ ~ (server.phase = "up" /\ server.n = First)
      BY <2>1, <2>2, <3>3
    <3>. QED
      BY <2>1, <2>3, <3>1, <3>2, <3>3 DEF StatusThere
  <2>. QED
    BY <2>4, <2>5
<1>4. CASE Impossible \/ Crash
  <2>1. UNCHANGED <<recorded, undone, columns, skipped>> /\ Exit
    BY <1>4 DEF Impossible, Crash, db
  <2>. QED
    BY <1>0, <1>1, <2>1, ExitIs
<1>5. CASE Fails
  <2>1. columns \subseteq columns' /\ UNCHANGED <<recorded, undone>>
    BY <1>5, FailsColumns DEF Fails
  <2>2. Exit /\ UNCHANGED skipped
    BY <1>5 DEF Fails
  <2>. QED
    BY <1>0, <1>1, <2>1, <2>2, ExitIs
<1>6. CASE Record
  <2>1. /\ server.n # 0 /\ server'.n = 0
        /\ recorded' = IF server.phase = "up" THEN recorded \union {server.n}
                       ELSE recorded \ {server.n}
        /\ cut' = cut \ {<<"up", server.n>>, <<"down", server.n>>}
        /\ undone' = undone \union {n \in {server.n} : server.phase = "down"}
        /\ UNCHANGED <<columns, skipped>>
    BY <1>6, ServerMoves DEF Record
  <2>2. server.phase \in {"up", "down"}
    BY <2>1 DEF Position
  <2>3. Second => Second'
    <3>1. CASE server.n = 2
      BY <2>1, <2>2, <3>1
    <3>2. CASE server.n # 2
      BY <2>1, <3>2 DEF HalfDone
    <3>. QED
      BY <3>1, <3>2
  <2>4. CASE server.phase = "up" /\ server.n = First
    <3>1. server.at = Len(Up[1]) + 1 \/ server.at > Len(Up[1])
      BY <1>0, <1>6, <2>4 DEF Record, Statements
    <3>2. server.at > 2
      BY <1>0, <3>1, SecondAdds
    <3>. QED
      BY <2>1, <2>3, <2>4, <3>2 DEF StatusThere
  <2>5. CASE ~ (server.phase = "up" /\ server.n = First)
    BY <1>0, <2>1, <2>3, <2>5 DEF StatusThere
  <2>. QED
    BY <2>4, <2>5
<1>7. ASSUME NEW j \in Jobs, CreateJob(j) \/ ExecuteJob(j)
      PROVE  JobStatus \in columns' \/ Second' \/ Early'
  BY <1>0, <1>1, <1>7 DEF CreateJob, ExecuteJob
<1>8. ASSUME NEW v \in Versions, Configure(v)
      PROVE  JobStatus \in columns' \/ Second' \/ Early'
  <2>1. UNCHANGED <<recorded, undone, columns, cut, skipped>> /\ server'.n = 0
        /\ server.phase \in {"serve", "stopped"}
    BY <1>8 DEF Configure, db, Stopped
  <2>2. server.n = 0
    BY <2>1 DEF Position
  <2>. QED
    BY <1>0, <1>1, <2>1, <2>2
<1>9. CASE UNCHANGED vars
  BY <1>0, <1>1, <1>9 DEF vars, db
<1>. QED
  BY <1>2, <1>3, <1>4, <1>5, <1>6, <1>7, <1>8, <1>9 DEF Next, Migrating

\* Only a server that has the columns of the states executes jobs, and by then no
\* status is left that a migration would turn into the first state.
LEMMA ZeroStep ==
    ASSUME TypeOK, Position, ZeroIsNew, [Next]_vars
    PROVE  ZeroIsNew'
<1>. DEFINE New == \A j \in DOMAIN jobs :
                      jobs[j].status = 0 => j \notin ended /\ jobs[j].state \in {"null", "INIT"}
<1>. DEFINE Gone == \A j \in DOMAIN jobs : jobs[j].status # 0
<1>. DEFINE Past == \/ 2 \in recorded \/ Attributes \in columns
                    \/ server.phase = "up" /\ server.n = 2 /\ server.at > Len(Up[2])
<1>0. /\ New /\ (Past => Gone) /\ \A j \in DOMAIN jobs : jobs[j] \in Row
      /\ columns \subseteq AllColumns /\ Len(Up[2]) = 3
  <2>1. M20211005 = <<Add(JobCells), SetStates, DropColumn("jobs", "status")>>
    BY DEF M20211005, JobCells
  <2>. QED
    BY <2>1, ListIs, Lists DEF ZeroIsNew, TypeOK
<1>. SUFFICES New' /\ (Past' => Gone')
  BY DEF ZeroIsNew
<1>1. ASSUME UNCHANGED <<jobs, ended>>, Past' => Past PROVE New' /\ (Past' => Gone')
  BY <1>0, <1>1
<1>2. CASE Start
  BY <1>1, <1>2 DEF Start, db
<1>3. CASE Choose
  <2>1. server'.n # 0 => server'.at = 1
    BY <1>3, ChooseStep
  <2>2. UNCHANGED <<columns, jobs, recorded, ended>>
    BY <1>3 DEF Choose, db
  <2>. QED
    BY <1>0, <1>1, <2>1, <2>2
<1>4. CASE Execute
  <2>1. /\ InStatement /\ server' = [server EXCEPT !.at = server.at + 1]
        /\ UNCHANGED <<recorded, ended>>
        /\ jobs' = [j \in DOMAIN jobs |-> RowAfter(Statements[server.at], jobs[j])]
    BY <1>4 DEF Execute, Apply
  <2>2. server'.n = server.n /\ server'.phase = server.phase /\ server'.at = server.at + 1
        /\ server.at \in Nat
    BY <2>1 DEF Position
  <2>3. ASSUME NEW j \in DOMAIN jobs
        PROVE  /\ jobs'[j].status = 0 => jobs[j].status = 0
               /\ jobs'[j].state = jobs[j].state \/ jobs'[j].state = "INIT"
               /\ Statements[server.at] = DropColumn("jobs", "status") => jobs'[j].status # 0
    BY <1>0, <2>1, RowAfterIs DEF Null
  <2>4. New'
    BY <1>0, <2>1, <2>3
  <2>5. CASE server.phase = "up" /\ server.n = 2 /\ server.at = 3
    <3>1. Statements[server.at] = DropColumn("jobs", "status")
      BY <2>5, ListIs, Lists DEF Statements, M20211005
    <3>. QED
      BY <2>1, <2>3, <2>4, <3>1
  <2>6. CASE ~ (server.phase = "up" /\ server.n = 2 /\ server.at = 3)
    <3>1. Attributes \in columns' => Attributes \in columns \/ (server.phase = "up" /\ server.n > 2)
      BY <1>4, <2>1, ExecuteColumns DEF Execute, Apply
    <3>2. server.phase = "up" /\ server.n > 2 => 2 \in recorded
      BY DEF Position
    <3>3. Past' => Past
      BY <1>0, <2>1, <2>2, <2>6, <3>1, <3>2
    <3>. QED
      BY <1>0, <2>1, <2>3, <2>4, <3>3
  <2>. QED
    BY <2>5, <2>6
<1>5. CASE Impossible \/ Crash
  <2>1. UNCHANGED <<columns, jobs, recorded, ended>> /\ server' = Stopped
    BY <1>5 DEF Impossible, Crash, Exit, db
  <2>. QED
    BY <1>1, <2>1 DEF Stopped
<1>6. CASE Fails
  <2>1. UNCHANGED <<jobs, recorded, ended>> /\ InStatement
    BY <1>6 DEF Fails
  <2>2. Attributes \in columns' => Attributes \in columns \/ (server.phase = "up" /\ server.n > 2)
    BY <1>6, FailsColumns
  <2>3. server.phase = "up" /\ server.n > 2 => 2 \in recorded
    BY <2>1 DEF Position
  <2>4. server' = Stopped \/ (server' = [server EXCEPT !.at = server.at + 1] /\ server.n = 1)
    BY <1>6, ListIs DEF Fails, Exit, Unchecked
  <2>5. server'.n \in {0, 1}
    BY <2>4 DEF Stopped, Position
  <2>. QED
    BY <1>1, <2>1, <2>2, <2>3, <2>5
<1>7. CASE Record
  <2>1. /\ server.n # 0 /\ server.at > Len(Statements) /\ server'.n = 0
        /\ recorded' = IF server.phase = "up" THEN recorded \union {server.n}
                       ELSE recorded \ {server.n}
        /\ UNCHANGED <<columns, jobs, ended>>
    BY <1>7, ServerMoves DEF Record
  <2>2. 2 \in recorded' => Past
    BY <2>1, StatementIs
  <2>. QED
    BY <1>1, <2>1, <2>2
<1>8. ASSUME NEW j \in Jobs, CreateJob(j) PROVE New' /\ (Past' => Gone')
  <2>1. /\ jobs' = [x \in DOMAIN jobs \union {j} |->
               IF x = j THEN [status |-> Null, state |-> "INIT"] ELSE jobs[x]]
        /\ UNCHANGED <<columns, recorded, server, ended>>
    BY <1>8 DEF CreateJob
  <2>2. Past' => Past
    BY <2>1
  <2>. QED
    BY <1>0, <2>1, <2>2 DEF Null
<1>9. ASSUME NEW j \in Jobs, ExecuteJob(j) PROVE New' /\ (Past' => Gone')
  <2>1. Attributes \in columns
    BY <1>9 DEF ExecuteJob, CanWork, Has, Cells, Attributes
  <2>2. Gone /\ Past
    BY <1>0, <2>1
  <2>3. \E state : jobs' = [jobs EXCEPT ![j].state = state]
    BY <1>9 DEF ExecuteJob
  <2>4. Gone'
    BY <1>0, <2>2, <2>3 DEF Row
  <2>. QED
    BY <2>4
<1>10. ASSUME NEW v \in Versions, Configure(v) PROVE New' /\ (Past' => Gone')
  BY <1>1, <1>10 DEF Configure, Stopped, db
<1>11. CASE UNCHANGED vars
  BY <1>1, <1>11 DEF vars, db
<1>. QED
  BY <1>2, <1>3, <1>4, <1>5, <1>6, <1>7, <1>8, <1>9, <1>10, <1>11 DEF Next, Migrating

\* Migrations change the state only of a job that has never been executed.
LEMMA JobsStep ==
    ASSUME TypeOK, Position, ZeroIsNew, JobsKept, ended \subseteq DOMAIN jobs, [Next]_vars
    PROVE  JobsKept' /\ ended' \subseteq DOMAIN jobs'
<1>. DEFINE KeptJob(j) ==
       /\ j \in ended => jobs[j].state \notin Schedulable
       /\ j \notin ended /\ jobs[j].state # "null" => jobs[j].state \in Schedulable
<1>0. /\ \A j \in DOMAIN jobs : KeptJob(j) /\ jobs[j] \in Row
      /\ "INIT" \in Schedulable /\ "ERROR" \in Schedulable
      /\ "COMPLETE" \notin Schedulable /\ "FAILED" \notin Schedulable
  BY DEF JobsKept, TypeOK, Schedulable
<1>. DEFINE Good == (\A j \in DOMAIN jobs : KeptJob(j)) /\ ended \subseteq DOMAIN jobs
<1>. SUFFICES Good'
  BY DEF JobsKept
<1>1. CASE Execute
  <2>1. /\ UNCHANGED ended
        /\ jobs' = [j \in DOMAIN jobs |-> RowAfter(Statements[server.at], jobs[j])]
    BY <1>1 DEF Execute, Apply
  <2>2. ASSUME NEW j \in DOMAIN jobs
        PROVE  jobs'[j].state = jobs[j].state \/ (jobs'[j].state = "INIT" /\ jobs[j].status = 0)
    BY <1>0, <2>1, RowAfterIs
  <2>3. \A j \in DOMAIN jobs : jobs[j].status = 0 => j \notin ended
    BY DEF ZeroIsNew
  <2>. QED
    BY <1>0, <2>1, <2>2, <2>3
<1>2. ASSUME NEW i \in Jobs, CreateJob(i) PROVE Good'
  <2>1. /\ jobs' = [x \in DOMAIN jobs \union {i} |->
               IF x = i THEN [status |-> Null, state |-> "INIT"] ELSE jobs[x]]
        /\ UNCHANGED ended /\ i \notin ended
    BY <1>2 DEF CreateJob
  <2>. QED
    BY <1>0, <2>1
<1>3. ASSUME NEW i \in Jobs, ExecuteJob(i) PROVE Good'
  <2>1. PICK state \in {"COMPLETE", "FAILED", "ERROR"} :
          jobs' = [jobs EXCEPT ![i].state = state]
          /\ ended' = IF state = "ERROR" THEN ended ELSE ended \union {i}
    BY <1>3 DEF ExecuteJob
  <2>2. i \in DOMAIN jobs /\ jobs[i].state \in Schedulable
    BY <1>3 DEF ExecuteJob
  <2>3. i \notin ended
    BY <1>0, <2>2
  <2>4. jobs'[i].state = state /\ \A j \in DOMAIN jobs \ {i} : jobs'[j] = jobs[j]
    BY <1>0, <2>1, <2>2 DEF Row
  <2>5. DOMAIN jobs' = DOMAIN jobs
    BY <2>1
  <2>6. ended' \subseteq DOMAIN jobs' /\ \A j \in DOMAIN jobs \ {i} : j \in ended' <=> j \in ended
    BY <2>1, <2>2, <2>5
  <2>7. KeptJob(i)'
    BY <1>0, <2>1, <2>3, <2>4
  <2>8. \A j \in DOMAIN jobs \ {i} : KeptJob(j)'
    BY <1>0, <2>4, <2>6
  <2>. QED
    BY <2>5, <2>6, <2>7, <2>8
<1>4. CASE UNCHANGED <<jobs, ended>>
  BY <1>0, <1>4
<1>5. CASE Start \/ Choose \/ Impossible \/ Record \/ Fails \/ Crash
           \/ \E v \in Versions : Configure(v)
  BY <1>4, <1>5 DEF Start, Choose, Impossible, Record, Fails, Crash, Configure, db
<1>6. CASE UNCHANGED vars
  BY <1>4, <1>6 DEF vars, db
<1>. QED
  BY <1>1, <1>2, <1>3, <1>5, <1>6 DEF Next, Migrating

-----------------------------------------------------------------------------
(* The theorems.                                                           *)

\* Every reachable state of the database and its server keeps the invariant:
\* migrations are done in the order of the list, and what is done stays done.
THEOREM MigrationsInductive == Spec => []MigrationsInv
<1>1. MigrationsInv /\ [Next]_vars => MigrationsInv'
  BY MigrationsTypeStep, PositionStep, UpDoneStep, KeptStep, StatusStep, ZeroStep, JobsStep
     DEF MigrationsInv
<1>. QED
  BY <1>1, MigrationsInit, PTL DEF Spec

\* The schema, the rows of jobs and the server are well typed in every state.
THEOREM MigrationsTypeCorrect == Spec => []TypeOK
BY MigrationsInductive, PTL DEF MigrationsInv

\* What the second migration drops, and the status of jobs is of the first alone.
LEMMA StatusIs ==
    /\ 2 \in List /\ JobStatus \in Drops[2]
    /\ \A n \in List : Gives[n] \subseteq Keeps[n] \union {JobStatus}
    /\ \A n \in List : JobStatus \in Gives[n] => n = 1
<1>1. 2 \in List /\ 1..10 = List
  BY ListIs
<1>2. Up[2] = <<Add(JobCells), SetStates, DropColumn("jobs", "status")>>
  BY ListIs DEF M20211005, JobCells
<1>3. 3 \in DOMAIN Up[2] /\ Up[2][3].op = "dropColumn" /\ Up[2][3].cells = {JobStatus}
  BY <1>2, Lists, StatementKinds DEF JobStatus
<1>4. JobStatus \in Drops[2]
  BY <1>1, <1>3 DEF Drops, CellsOf
<1>5. \A n \in List : Gives[n] \subseteq Keeps[n] \union {JobStatus}
  BY DEF Gives, Keeps
<1>6. \A n \in 3..10 : JobStatus \notin CellsOf(n, {"add", "createIndex"})
  <2>1. \A n \in 3..9 : \E cells : Up[n] = <<Add(cells)>> /\ JobStatus \notin cells
    BY ListIs DEF M20211015, M20211118, M20211130, M20211202, M20211220, M20211221_1,
       M20211221_2, Transaction, Cells, JobColumns, JobStatus
  <2>2. Up[10] = <<CreateIndex>>
    BY ListIs DEF M20220212
  <2>3. JobStatus \notin {JobIndex}
    BY DEF JobIndex, JobStatus
  <2>4. \A n \in 3..10 : \A i \in DOMAIN Up[n] : JobStatus \notin Up[n][i].cells
    <3>1. ASSUME NEW n \in 3..9, NEW i \in DOMAIN Up[n] PROVE JobStatus \notin Up[n][i].cells
      BY <2>1, Lists, StatementKinds
    <3>2. ASSUME NEW i \in DOMAIN Up[10] PROVE JobStatus \notin Up[10][i].cells
      BY <2>2, <2>3, Lists, StatementKinds
    <3>. QED
      BY <3>1, <3>2
  <2>. QED
    BY <2>4 DEF CellsOf
<1>7. \A n \in List : JobStatus \in Gives[n] => n = 1
  <2>1. JobStatus \notin Gives[2]
    BY <1>1, <1>4 DEF Gives
  <2>2. \A n \in 3..10 : JobStatus \notin Gives[n]
    BY <1>1, <1>6 DEF Gives
  <2>. QED
    BY <1>1, <2>1, <2>2
<1>. QED
  BY <1>1, <1>4, <1>5, <1>7

\* Whatever is recorded as migrated is in the schema, but for a rollback left half
\* done, the errors the first migration drops, and the status of jobs, which the second
\* migration drops on its way up and does not give back when it is rolled back.
THEOREM RecordedIsInEffect == Spec => []InEffect
<1>1. MigrationsInv => InEffect
  <2>. SUFFICES ASSUME MigrationsInv, NEW n \in recorded, NEW c \in Gives[n] \ columns
                PROVE  \/ \E m \in n + 1..Latest :
                             /\ c \in Drops[m]
                             /\ m \in recorded \union undone \/ <<"up", m>> \in HalfDone
                       \/ <<"down", n>> \in HalfDone
                       \/ n = First /\ skipped
    BY DEF InEffect
  <2>1. n \in List /\ First = 1 /\ Latest = 10
    BY ListIs DEF MigrationsInv, TypeOK
  <2>2. CASE c # JobStatus
    BY <2>1, <2>2, StatusIs DEF MigrationsInv, Kept
  <2>3. CASE c = JobStatus
    <3>1. n = 1
      BY <2>1, <2>3, StatusIs
    <3>2. CASE ~ skipped
      <4>1. 2 \in recorded \union undone \/ <<"up", 2>> \in HalfDone
        BY <2>1, <2>3, <3>1, <3>2 DEF MigrationsInv, StatusThere
      <4>2. 2 \in n + 1..Latest /\ c \in Drops[2]
        BY <2>1, <2>3, <3>1, StatusIs
      <4>. QED
        BY <4>1, <4>2
    <3>. QED
      BY <2>1, <3>1, <3>2
  <2>. QED
    BY <2>2, <2>3
<1>. QED
  BY <1>1, MigrationsInductive, PTL

\* Migrations never wake a job that has ended, and never lose one that has not.
THEOREM MigrationsKeepJobs == Spec => []JobsKept
BY MigrationsInductive, PTL DEF MigrationsInv
=============================================================================
