------------------------ MODULE SchemaMigrationProofs ------------------------
(***************************************************************************)
(* The opening of the database, for any job types, keys and deaths: it     *)
(* keeps its types, ends on the composite schema and implements            *)
(* DurableStore.  The argument is one inductive invariant that ties the    *)
(* uncommitted session to the file at every statement.                     *)
(***************************************************************************)
EXTENDS SchemaMigration, TLAPS

LEMMA FreshIsTable == Fresh \in Table /\ Fresh.rows \in [Id -> RecordStatus]
  BY DEF Fresh, Table, EmptyStore, RecordStatus

LEMMA TableFields ==
  ASSUME NEW t \in Table
  PROVE  /\ t # NoTable
         /\ t.rows \in [Id -> RecordStatus]
         /\ t.schema \in {"composite", "legacy"}
         /\ t = [schema |-> t.schema, rows |-> t.rows]
  BY NoTableAssumption DEF Table

\* A composite table may hold any rows.
LEMMA WithRows ==
  ASSUME NEW t \in Table, t.schema = "composite", NEW r \in [Id -> RecordStatus]
  PROVE  /\ [t EXCEPT !.rows = r] \in Table
         /\ [t EXCEPT !.rows = r].rows = r
         /\ [t EXCEPT !.rows = r].schema = "composite"
         /\ [t EXCEPT !.rows = r] # NoTable
  <1>1. [t EXCEPT !.rows = r] = [schema |-> "composite", rows |-> r]
    BY TableFields
  <1> QED BY <1>1, NoTableAssumption DEF Table

LEMMA InitInv == Init => MigrationInv
  BY CrashAssumption DEF Init, MigrationInv, TypeOK, InStep, ReadyIsComposite,
     Database, Pc, InTransaction

\* Copying into the fresh table brings every row over: there is nothing for
\* OR IGNORE to ignore.
LEMMA CopyIsWhole ==
  ASSUME NEW r \in [Id -> RecordStatus]
  PROVE  InsertOrIgnore(EmptyStore(Id), r) = r
  BY DEF InsertOrIgnore, EmptyStore

LEMMA UpsertTypes ==
  ASSUME NEW r \in [Id -> RecordStatus], NEW id \in Id
  PROVE  /\ RecordSuccess(r, id) \in [Id -> RecordStatus]
         /\ RecordFailure(r, id) \in [Id -> RecordStatus]
  BY DEF RecordSuccess, RecordFailure, RecordStatus, Completed, Failed

LEMMA StepInv == MigrationInv /\ [Next]_vars => MigrationInv'
<1> SUFFICES ASSUME MigrationInv, [Next]_vars PROVE MigrationInv'
  OBVIOUS
<1> USE DEF MigrationInv, TypeOK, InStep, ReadyIsComposite, Database, Pc,
            InTransaction, Goes, Execute
<1> DEFINE D == disk.records
<1>0. /\ disk = [records |-> disk.records, old |-> disk.old]
      /\ session = [records |-> session.records, old |-> session.old]
  OBVIOUS
<1>1. CASE Open
  BY <1>1 DEF Open
<1>2. CASE SkipMigration
  BY <1>2 DEF SkipMigration, SchemaKnown
<1>3. CASE Begin
  BY <1>3 DEF Begin, SchemaKnown
<1>4. CASE Rename
  BY <1>4 DEF Rename, Renamable
<1>5. CASE Create
  BY <1>5, FreshIsTable DEF Create
<1>6. CASE Copy
  <2>1. session.records = Fresh /\ session.old = D /\ D \in Table
    BY <1>6 DEF Copy
  <2>2. D.rows \in [Id -> RecordStatus]
    BY <2>1, TableFields
  <2>3. InsertOrIgnore(session.records.rows, session.old.rows) = D.rows
    BY <2>1, <2>2, CopyIsWhole DEF Fresh
  <2>4. session' = [session EXCEPT !.records = [Fresh EXCEPT !.rows = D.rows]]
    BY <1>6, <2>1, <2>3 DEF Copy
  <2>5. [Fresh EXCEPT !.rows = D.rows] \in Table
    BY <2>2, FreshIsTable, WithRows DEF Fresh
  <2> QED BY <1>6, <2>4, <2>5 DEF Copy
<1>7. CASE Drop
  BY <1>7 DEF Drop
<1>8. CASE Commit
  BY <1>8, NoTableAssumption DEF Commit, SchemaKnown, Fresh
<1>9. CASE CreateIfMissing
  <2>1. session = disk /\ SchemaKnown
    BY <1>9 DEF CreateIfMissing
  <2>2. CASE session.records = NoTable
    BY <1>9, <2>1, <2>2, FreshIsTable, NoTableAssumption DEF CreateIfMissing, Fresh
  <2>3. CASE session.records # NoTable
    BY <1>9, <2>1, <2>3 DEF CreateIfMissing, SchemaKnown
  <2> QED BY <2>2, <2>3
<1>10. CASE Record
  <2>1. PICK r \in [Id -> RecordStatus] : Upsert(r)
    <3>1. pc = "ready" /\ session.records \in Table
      BY <1>10 DEF Record, Upsert
    <3> QED BY <1>10, <3>1, TableFields, UpsertTypes DEF Record
  <2>2. session.records \in Table /\ session.records.schema = "composite"
    BY <2>1 DEF Upsert
  <2>3. session' = [session EXCEPT !.records = [session.records EXCEPT !.rows = r]]
    BY <2>1 DEF Upsert
  <2> DEFINE T == [session.records EXCEPT !.rows = r]
  <2>4. T \in Table /\ T # NoTable /\ T.schema = "composite"
    BY <2>2, WithRows
  <2>5. session' = [records |-> T, old |-> NoTable] /\ disk' = session'
    BY <2>1, <2>3 DEF Upsert
  <2>6. pc' = "ready" /\ crashes' = crashes
    BY <2>1 DEF Upsert
  <2> HIDE DEF T
  <2> QED BY <2>4, <2>5, <2>6
<1>11. CASE Crash
  BY <1>11, CrashAssumption DEF Crash, Die
<1>12. CASE UNCHANGED vars
  BY <1>12 DEF vars, SchemaKnown
<1> QED BY <1>1, <1>2, <1>3, <1>4, <1>5, <1>6, <1>7, <1>8, <1>9, <1>10, <1>11, <1>12
        DEF Next, Boot

\* The file and the session keep their shape at every statement.
THEOREM TypeCorrect == Spec => []TypeOK
<1>1. MigrationInv => TypeOK
  BY DEF MigrationInv
<1> QED BY <1>1, InitInv, StepInv, PTL DEF Spec

\* A constructor that returns leaves the composite schema and nothing of the
\* old table, whatever it found and however often it was interrupted.
THEOREM EndsComposite == Spec => []ReadyIsComposite
<1>1. MigrationInv => ReadyIsComposite
  BY DEF MigrationInv
<1> QED BY <1>1, InitInv, StepInv, PTL DEF Spec

LEMMA InitRefines == Init => Durable!Init
<1> SUFFICES ASSUME Init PROVE Verdicts(disk) \in [Id -> RecordStatus]
  BY DEF Durable!Init, RecordStatus, Completed, Failed, NoRecord,
         Durable!RecordStatus, Durable!Completed, Durable!Failed, Durable!NoRecord
<1>1. CASE disk.records = NoTable
  BY <1>1 DEF Verdicts, EmptyStore, RecordStatus
<1>2. CASE disk.records # NoTable
  <2>1. disk.records \in Table
    BY <1>2 DEF Init
  <2> QED BY <1>2, <2>1, TableFields DEF Verdicts
<1> QED BY <1>1, <1>2

LEMMA StepRefines ==
  MigrationInv /\ [Next]_vars => [Durable!Next]_(Verdicts(disk))
<1> SUFFICES ASSUME MigrationInv, [Next]_vars
             PROVE  Durable!Next \/ Verdicts(disk)' = Verdicts(disk)
  OBVIOUS
<1> USE DEF MigrationInv, TypeOK, InStep, ReadyIsComposite, Goes, Execute, InTransaction
<1>1. CASE UNCHANGED disk
  BY <1>1 DEF Verdicts
<1>2. CASE Commit
  <2>1. /\ disk.records \in Table
        /\ session.records = [Fresh EXCEPT !.rows = disk.records.rows]
    BY <1>2 DEF Commit, Database
  <2>2. session.records # NoTable /\ session.records.rows = disk.records.rows
    BY <2>1, TableFields, FreshIsTable, WithRows DEF Fresh
  <2> QED BY <1>2, <2>2 DEF Commit, Verdicts
<1>3. CASE CreateIfMissing
  BY <1>3, FreshIsTable, NoTableAssumption DEF CreateIfMissing, Verdicts, Fresh, Database
<1>4. CASE Record
  <2>1. PICK id \in Id : \/ Upsert(RecordSuccess(session.records.rows, id))
                         \/ Upsert(RecordFailure(session.records.rows, id))
    BY <1>4 DEF Record
  <2>2. /\ session = disk /\ disk.records \in Table
        /\ session.records.schema = "composite"
        /\ Verdicts(disk) = disk.records.rows
    BY <2>1 DEF Upsert, Database, Verdicts
  <2>3. ASSUME NEW r \in [Id -> RecordStatus], Upsert(r) PROVE Verdicts(disk)' = r
    <3>1. disk'.records = [disk.records EXCEPT !.rows = r]
      BY <2>2, <2>3 DEF Upsert, Database
    <3> QED BY <3>1, <2>2, WithRows DEF Verdicts
  <2>4. /\ RecordSuccess(disk.records.rows, id) \in [Id -> RecordStatus]
        /\ RecordFailure(disk.records.rows, id) \in [Id -> RecordStatus]
    BY <2>2, TableFields, UpsertTypes
  <2>5. \/ Verdicts(disk)' = RecordSuccess(Verdicts(disk), id)
        \/ Verdicts(disk)' = RecordFailure(Verdicts(disk), id)
    BY <2>1, <2>2, <2>3, <2>4
  <2> QED BY <2>5 DEF Durable!Next, RecordSuccess, RecordFailure,
             Durable!RecordSuccess, Durable!RecordFailure, Completed, Failed,
             Durable!Completed, Durable!Failed
<1>5. CASE Rename \/ Create \/ Copy \/ Drop
  BY <1>1, <1>5 DEF Rename, Die, Create, Copy, Drop
<1>6. CASE Open \/ SkipMigration \/ Begin \/ Crash \/ UNCHANGED vars
  BY <1>1, <1>6 DEF Open, SkipMigration, Begin, Crash, Die, vars
<1> QED BY <1>2, <1>3, <1>4, <1>5, <1>6 DEF Next, Boot

\* The database file implements the durable store: no restart and no rebuild
\* of an old table loses, changes or invents a verdict (idempotency.db.ts:47).
THEOREM Refinement == Spec => RecordsAreDurable
<1>1. Init => Durable!Init
  BY InitRefines
<1>2. MigrationInv /\ [Next]_vars => [Durable!Next]_(Verdicts(disk))
  BY StepRefines
<1> QED BY <1>1, <1>2, InitInv, StepInv, PTL DEF Spec, RecordsAreDurable, Durable!Spec

=============================================================================
