------------------------------- MODULE Migrate --------------------------------
(***************************************************************************)
(* Migrate in store/migrate.go: processes that start up (a rolling deploy, *)
(* `migrate` beside `serve`, parallel test binaries) bring one database up *)
(* to the migration files of their builds.                                 *)
(*                                                                         *)
(* They take turns by an advisory lock of PostgreSQL.  It belongs to one   *)
(* connection while the work is done on others, so a process whose lock    *)
(* connection breaks goes on without noticing.  A migration's statements   *)
(* and its record in schema_migrations are one transaction.                *)
(***************************************************************************)
EXTENDS Naturals

CONSTANTS
    Processes, Nobody,
    Versions,      \* numbers of migration files
    Bodies,        \* what a file may say
    None,          \* no such file, or no such record
    Builds,        \* what processes are started from: version -> body
    MaxTroubles

Contents == [Versions -> Bodies \cup {None}]

ASSUME MigrateAssumption ==
    /\ Nobody \notin Processes /\ None \notin Bodies
    /\ Versions \subseteq Nat /\ Builds # {} /\ Builds \subseteq Contents
    /\ MaxTroubles \in Nat

VARIABLES
    files,       \* files[p]: the build p was started from
    pc,
    at,          \* at[p]: the version p migrates
    passed,      \* passed[p]: versions p is through with
    applied,     \* applied[p]: schema_migrations as p read it
    lock,        \* which process's connection holds the advisory lock
    created,     \* table schema_migrations exists
    table,       \* its rows
    runs,        \* runs[v]: how often statements of v took effect (history)
    torn,        \* a lock connection broke while its process went on (history)
    troubles     \* how often something went wrong (bounded by MaxTroubles)

local == <<files, at, passed, applied>>
database == <<created, table, runs>>
vars == <<local, pc, lock, database, torn, troubles>>

Working == {"look", "create", "read", "loop", "record", "commit"}
Closing == {"close done", "close failed", "close conflict"}
Ends == {"done", "failed", "conflict"}

NoRows == [v \in Versions |-> None]

Init ==
    /\ \E build \in Builds : files = [p \in Processes |-> build]
    /\ pc = [p \in Processes |-> "idle"]
    /\ \E v \in Versions : at = [p \in Processes |-> v]
    /\ passed = [p \in Processes |-> {}]
    /\ applied = [p \in Processes |-> NoRows]
    /\ lock = Nobody /\ created = FALSE /\ table = NoRows
    /\ runs = [v \in Versions |-> 0]
    /\ torn = FALSE /\ troubles = 0

Goto(p, step) == pc' = [pc EXCEPT ![p] = step]

Smooth == UNCHANGED <<torn, troubles>>
Trouble == troubles < MaxTroubles /\ troubles' = troubles + 1 /\ UNCHANGED torn

Start(p) ==
    /\ pc[p] \in {"idle"} \cup Ends
    /\ Goto(p, "locking")
    /\ \E build \in Builds : files' = [files EXCEPT ![p] = build]
    /\ UNCHANGED <<at, passed, applied, lock, database>> /\ Smooth

\* Fault: the lock is not taken.
LockShared(p) ==
    /\ pc[p] = "locking"
    /\ lock' = p /\ Goto(p, "look")
    /\ UNCHANGED <<local, database>> /\ Smooth

\* pg_advisory_lock, which waits.
Lock(p) ==
    /\ pc[p] = "locking" /\ lock = Nobody
    /\ lock' = p /\ Goto(p, "look")
    /\ UNCHANGED <<local, database>> /\ Smooth

\* Fault: CREATE TABLE without IF NOT EXISTS.
LookNot(p) ==
    /\ pc[p] = "look"
    /\ Goto(p, "create")
    /\ UNCHANGED <<local, lock, database>> /\ Smooth

\* CREATE TABLE IF NOT EXISTS looks first and creates later; two at once
\* trip over the catalog's unique index.
Look(p) ==
    /\ pc[p] = "look"
    /\ Goto(p, IF created THEN "read" ELSE "create")
    /\ UNCHANGED <<local, lock, database>> /\ Smooth

CreateTable(p) ==
    /\ pc[p] = "create"
    /\ Goto(p, IF created THEN "close conflict" ELSE "read")
    /\ created' = TRUE
    /\ UNCHANGED <<local, lock, table, runs>> /\ Smooth

ReadApplied(p) ==
    /\ pc[p] = "read"
    /\ applied' = [applied EXCEPT ![p] = table]
    /\ passed' = [passed EXCEPT ![p] = {}]
    /\ Goto(p, "loop")
    /\ UNCHANGED <<files, at, lock, database>> /\ Smooth

\* The files in the order of their names.
Ahead(p) == {v \in Versions \ passed[p] : files[p][v] # None}

\* Fault: in the order the directory gives them.
DueAnyhow(p, v) == pc[p] = "loop" /\ v \in Ahead(p)

Due(p, v) == pc[p] = "loop" /\ v \in Ahead(p) /\ \A u \in Ahead(p) : v <= u

Pass(p, v) == passed' = [passed EXCEPT ![p] = @ \cup {v}]

\* Fault: what an applied migration said is not compared.
SkipUnchecked(p, v) ==
    /\ Due(p, v) /\ applied[p][v] # None
    /\ Pass(p, v)
    /\ UNCHANGED <<files, pc, at, applied, lock, database>> /\ Smooth

Skip(p, v) ==
    /\ Due(p, v) /\ applied[p][v] = files[p][v]
    /\ Pass(p, v)
    /\ UNCHANGED <<files, pc, at, applied, lock, database>> /\ Smooth

\* "was modified after being applied"
Modified(p, v) ==
    /\ Due(p, v) /\ applied[p][v] \notin {None, files[p][v]}
    /\ Goto(p, "close failed")
    /\ UNCHANGED <<local, lock, database>> /\ Smooth

\* Begin, and the file's statements.
Exec(p, v) ==
    /\ Due(p, v) /\ applied[p][v] = None
    /\ at' = [at EXCEPT ![p] = v] /\ Goto(p, "record")
    /\ UNCHANGED <<files, passed, applied, lock, database>> /\ Smooth

ExecFailed(p, v) ==
    /\ Due(p, v) /\ applied[p][v] = None
    /\ Goto(p, "close failed")
    /\ UNCHANGED <<local, lock, database>> /\ Trouble

\* INSERT waits for a transaction that has inserted the same version.
Inserting(p) ==
    /\ pc[p] = "record"
    /\ \A q \in Processes : ~(pc[q] = "commit" /\ at[q] = at[p])

\* Fault: INSERT ... ON CONFLICT DO NOTHING.
RecordKept(p) ==
    /\ Inserting(p)
    /\ Goto(p, "commit")
    /\ UNCHANGED <<local, lock, database>> /\ Smooth

\* A version that is there already violates the primary key: rolled back.
Record(p) ==
    /\ Inserting(p)
    /\ Goto(p, IF table[at[p]] = None THEN "commit" ELSE "close conflict")
    /\ UNCHANGED <<local, lock, database>> /\ Smooth

Committed(p) ==
    /\ pc[p] = "commit"
    /\ table' = [table EXCEPT ![at[p]] = files[p][at[p]]]
    /\ runs' = [runs EXCEPT ![at[p]] = @ + 1]
    /\ UNCHANGED <<files, at, applied, lock, created>>

Commit(p) == Committed(p) /\ Pass(p, at[p]) /\ Goto(p, "loop") /\ Smooth

\* Committed, but the answer was lost.
CommitLost(p) ==
    /\ Committed(p) /\ Goto(p, "close failed") /\ Trouble
    /\ UNCHANGED passed

\* A statement fails, or its context ends; a transaction is rolled back.
Failed(p) ==
    /\ pc[p] \in Working /\ Goto(p, "close failed")
    /\ UNCHANGED <<local, lock, database>> /\ Trouble

Finish(p) ==
    /\ pc[p] = "loop" /\ Ahead(p) = {}
    /\ Goto(p, "close done")
    /\ UNCHANGED <<local, lock, database>> /\ Smooth

End(p) == IF pc[p] = "close done" THEN "done"
          ELSE IF pc[p] = "close failed" THEN "failed"
          ELSE "conflict"

\* The deferred pg_advisory_unlock, and Open's caller serves or exits.
Unlock(p) ==
    /\ pc[p] \in Closing /\ Goto(p, End(p))
    /\ lock' = IF lock = p THEN Nobody ELSE lock
    /\ UNCHANGED <<local, database>> /\ Smooth

\* The connection that holds the lock breaks; the work goes on.
LockLost(p) ==
    /\ pc[p] \in Working /\ lock = p
    /\ lock' = Nobody /\ torn' = TRUE
    /\ troubles < MaxTroubles /\ troubles' = troubles + 1
    /\ UNCHANGED <<local, pc, database>>

\* The process stops, or fails to get the lock: PostgreSQL ends its sessions.
Crash(p) ==
    /\ pc[p] \notin {"idle"} \cup Ends
    /\ Goto(p, "failed")
    /\ lock' = IF lock = p THEN Nobody ELSE lock
    /\ UNCHANGED <<local, database>> /\ Trouble

Work(p) ==
    \/ Look(p) \/ CreateTable(p) \/ ReadApplied(p)
    \/ \E v \in Versions : Skip(p, v) \/ Modified(p, v) \/ Exec(p, v) \/ ExecFailed(p, v)
    \/ Record(p) \/ Commit(p) \/ CommitLost(p) \/ Failed(p) \/ Finish(p) \/ Unlock(p)

Next == \E p \in Processes : Start(p) \/ Lock(p) \/ Work(p) \/ LockLost(p) \/ Crash(p)

Spec == Init /\ [][Next]_vars

\* A process that failed is started again, one at work proceeds, and the lock
\* is granted to those who wait for it.  A process that serves may do so for
\* ever.  What goes wrong is bounded by MaxTroubles.
FairSpec ==
    /\ Spec
    /\ \A p \in Processes :
          /\ WF_vars(pc[p] # "done" /\ Start(p))
          /\ SF_vars(Lock(p)) /\ WF_vars(Work(p))

-----------------------------------------------------------------------------
(* Types; only a process between Lock and Unlock holds the lock. *)
TypeOK ==
    /\ files \in [Processes -> Builds]
    /\ pc \in [Processes -> {"idle", "locking"} \cup Working \cup Closing \cup Ends]
    /\ at \in [Processes -> Versions] /\ passed \in [Processes -> SUBSET Versions]
    /\ applied \in [Processes -> Contents]
    /\ lock \in Processes \cup {Nobody}
    /\ \A p \in Processes : lock = p => pc[p] \in Working \cup Closing
    /\ created \in BOOLEAN /\ table \in Contents
    /\ runs \in [Versions -> Nat] /\ torn \in BOOLEAN /\ troubles \in 0 .. MaxTroubles

(* A migration takes effect once and is recorded then, whoever crashes where,
   and also when a broken lock connection lets two processes in at once. *)
AppliedOnce == \A v \in Versions : runs[v] = IF table[v] = None THEN 0 ELSE 1

(* A process that serves does so on a database that agrees with its files
   (migrate.go:29-32), and keeps agreeing while other builds migrate it. *)
ServedSchema ==
    \A p \in Processes, v \in Versions :
        pc[p] = "done" /\ files[p][v] # None => table[v] = files[p][v]

(* "any processes using the same number take turns instead of migrating at
   once" (migrate.go:20): while no lock connection has broken, no process
   fails on what another did in the meantime. *)
Serialized ==
    \A p \in Processes : pc[p] \in {"close conflict", "conflict"} => torn

(* The processes implement SchemaHistory: whoever crashes or breaks in, the
   schema grows "in filename order" (migrate.go:26), each file on what its own build put
   before it and once, and whoever serves does so on what its build says. *)
InService == {[server |-> p, build |-> files[p]] : p \in {q \in Processes : pc[q] = "done"}}

History == INSTANCE SchemaHistory
    WITH Servers <- Processes, rows <- table, effects <- runs, serving <- InService

ImplementsSchemaHistory == History!Spec

(* Whatever a crash, a lost answer or a lost lock left behind, every process
   comes to serve in the end, unless its build contradicts the database. *)
Contradicted(p) ==
    \E v \in Versions : files[p][v] # None /\ table[v] \notin {None, files[p][v]}

Deployed == \A p \in Processes : []<>(pc[p] = "done" \/ Contradicted(p))
=============================================================================
