---------------------------- MODULE MigrateProofs -----------------------------
(***************************************************************************)
(* What Migrate promises for any number of processes, builds, migrations   *)
(* and troubles.                                                           *)
(*                                                                         *)
(* The invariant has three parts.  Rows says what the transactions keep    *)
(* true of the table, with the lock or without.  Knows(p) is what a        *)
(* process has established by itself: rows never change, so what it saw of *)
(* them stays true.  Turn(p) is what the lock adds: while it holds,        *)
(* nothing has happened since p looked.                                    *)
(***************************************************************************)
EXTENDS Migrate, TLAPS

Migrating == {"loop", "record", "commit"}
InTx == {"record", "commit"}

Rows ==
    /\ AppliedOnce
    /\ \A p \in Processes : pc[p] = "commit" => table[at[p]] = None
    /\ \A p, q \in Processes :
          pc[p] = "commit" /\ pc[q] = "commit" /\ at[p] = at[q] => p = q

Knows(p) ==
    /\ pc[p] \in Migrating =>
          \A v \in Versions : applied[p][v] # None => table[v] = applied[p][v]
    /\ pc[p] \in Migrating \cup {"close done", "done"} =>
          \A v \in passed[p] : files[p][v] # None /\ table[v] = files[p][v]
    /\ pc[p] \in {"close done", "done"} =>
          \A v \in Versions : files[p][v] # None => v \in passed[p]
    /\ pc[p] \in InTx =>
          /\ files[p][at[p]] # None
          /\ \A u \in Versions : u < at[p] /\ files[p][u] # None => u \in passed[p]

Turn(p) ==
    /\ pc[p] \in Working \cup Closing => lock = p
    /\ pc[p] = "create" => ~created
    /\ pc[p] \in Migrating => \A v \in Versions \ passed[p] : table[v] = applied[p][v]
    /\ pc[p] \in InTx => at[p] \notin passed[p] /\ applied[p][at[p]] = None
    /\ pc[p] \notin {"close conflict", "conflict"}

Known == \A p \in Processes : Knows(p)
Turns == torn \/ \A p \in Processes : Turn(p)

IInv == TypeOK /\ Rows /\ Known /\ Turns

\* Rows that are there stay as they are.
RowsStay == \A v \in Versions : table[v] # None => table'[v] = table[v]

(* No migration is applied and no process is at work when Migrate is first
   called. *)
LEMMA InitInv == Init => IInv
<1> SUFFICES ASSUME Init PROVE IInv
    OBVIOUS
<1> USE MigrateAssumption DEF Init, NoRows
<1>1. TypeOK
    <2>1. NoRows \in Contents
        BY DEF Contents
    <2>2. files \in [Processes -> Builds] /\ at \in [Processes -> Versions]
        OBVIOUS
    <2>3. applied \in [Processes -> Contents] /\ table \in Contents
        BY <2>1
    <2>4. runs \in [Versions -> Nat]
        OBVIOUS
    <2>5. pc \in [Processes -> {"idle", "locking"} \cup Working \cup Closing \cup Ends]
        BY DEF Working, Closing, Ends
    <2>6. passed \in [Processes -> SUBSET Versions]
        OBVIOUS
    <2>7. \A p \in Processes : lock # p
        OBVIOUS
    <2>8. troubles \in 0 .. MaxTroubles
        OBVIOUS
    <2> QED
        BY <2>2, <2>3, <2>4, <2>5, <2>6, <2>7, <2>8 DEF TypeOK
<1>2. Rows
    BY DEF Rows, AppliedOnce
<1>3. Known
    BY DEF Known, Knows, Migrating, InTx
<1>4. Turns
    BY DEF Turns, Turn, Migrating, InTx, Working, Closing
<1> QED
    BY <1>1, <1>2, <1>3, <1>4 DEF IInv

(* What goes wrong is counted up to the bound. *)
LEMMA TroubleTyped ==
    ASSUME TypeOK, Smooth \/ Trouble \/ \E p \in Processes : LockLost(p)
    PROVE  torn' \in BOOLEAN /\ troubles' \in 0 .. MaxTroubles
<1>1. troubles \in Nat /\ MaxTroubles \in Nat /\ troubles <= MaxTroubles /\ torn \in BOOLEAN
    BY MigrateAssumption DEF TypeOK
<1>2. CASE Smooth
    BY <1>1, <1>2 DEF Smooth
<1>3. CASE Trouble
    BY <1>1, <1>3 DEF Trouble
<1>4. CASE \E p \in Processes : LockLost(p)
    BY <1>1, <1>4 DEF LockLost
<1> QED
    BY <1>2, <1>3, <1>4

(* Every step of every process, with the faults of connections and processes,
   keeps the types. *)
LEMMA TypeStep == TypeOK /\ [Next]_vars => TypeOK'
<1> SUFFICES ASSUME TypeOK, [Next]_vars PROVE TypeOK'
    OBVIOUS
<1> DEFINE Counted == torn' \in BOOLEAN /\ troubles' \in 0 .. MaxTroubles
<1>s. Smooth \/ Trouble => Counted
    BY TroubleTyped
<1> HIDE DEF Counted
<1> USE <1>s, MigrateAssumption DEF TypeOK, Working, Closing, Ends, Goto, local, database
<1>1. ASSUME NEW p \in Processes, Start(p) PROVE TypeOK'
    BY <1>1 DEF Start, Counted
<1>2. ASSUME NEW p \in Processes, Lock(p) PROVE TypeOK'
    BY <1>2 DEF Lock, Counted
<1>3. ASSUME NEW p \in Processes, Look(p) PROVE TypeOK'
    BY <1>3 DEF Look, Counted
<1>4. ASSUME NEW p \in Processes, CreateTable(p) PROVE TypeOK'
    BY <1>4 DEF CreateTable, Counted
<1>5. ASSUME NEW p \in Processes, ReadApplied(p) PROVE TypeOK'
    BY <1>5 DEF ReadApplied, Counted
<1>6. ASSUME NEW p \in Processes, NEW v \in Versions, Skip(p, v) PROVE TypeOK'
    BY <1>6 DEF Skip, Due, Pass, Counted
<1>7. ASSUME NEW p \in Processes, NEW v \in Versions, Modified(p, v) PROVE TypeOK'
    BY <1>7 DEF Modified, Due, Counted
<1>8. ASSUME NEW p \in Processes, NEW v \in Versions, Exec(p, v) PROVE TypeOK'
    BY <1>8 DEF Exec, Due, Counted
<1>9. ASSUME NEW p \in Processes, NEW v \in Versions, ExecFailed(p, v) PROVE TypeOK'
    BY <1>9 DEF ExecFailed, Due, Counted
<1>10. ASSUME NEW p \in Processes, Record(p) PROVE TypeOK'
    BY <1>10 DEF Record, Inserting, Counted
<1>11. ASSUME NEW p \in Processes, Committed(p)
       PROVE  table' \in Contents /\ runs' \in [Versions -> Nat]
    <2>1. files[p] \in Contents /\ at[p] \in Versions
        OBVIOUS
    <2>2. files[p][at[p]] \in Bodies \cup {None}
        BY <2>1 DEF Contents
    <2>3. table' \in Contents
        BY <1>11, <2>1, <2>2 DEF Contents, Committed
    <2>4. runs' = [runs EXCEPT ![at[p]] = runs[at[p]] + 1]
        BY <1>11 DEF Committed
    <2>5. runs \in [Versions -> Nat] /\ runs[at[p]] + 1 \in Nat
        <3>1. runs \in [Versions -> Nat]
            OBVIOUS
        <3>2. runs[at[p]] \in Nat
            BY ONLY <3>1, <2>1
        <3> QED
            BY ONLY <3>1, <3>2
    <2>6. runs' \in [Versions -> Nat]
        BY <2>4, <2>5
    <2> QED
        BY <2>3, <2>6
<1>12. ASSUME NEW p \in Processes, Commit(p) PROVE TypeOK'
    <2>1. Committed(p) /\ Counted /\ pc' = [pc EXCEPT ![p] = "loop"]
        BY <1>12 DEF Commit
    <2>2. passed[p] \cup {at[p]} \in SUBSET Versions
        OBVIOUS
    <2>3. passed' = [passed EXCEPT ![p] = passed[p] \cup {at[p]}]
        BY <1>12 DEF Commit, Pass
    <2>4. passed' \in [Processes -> SUBSET Versions]
        BY <2>2, <2>3
    <2> QED
        BY <2>1, <2>4, <1>11 DEF Committed, Counted
<1>13. ASSUME NEW p \in Processes, CommitLost(p) PROVE TypeOK'
    <2>1. Committed(p) /\ Counted /\ pc' = [pc EXCEPT ![p] = "close failed"] /\ passed' = passed
        BY <1>13 DEF CommitLost
    <2> QED
        BY <2>1, <1>11 DEF Committed, Counted
<1>14. ASSUME NEW p \in Processes, Failed(p) PROVE TypeOK'
    BY <1>14 DEF Failed, Counted
<1>15. ASSUME NEW p \in Processes, Finish(p) PROVE TypeOK'
    BY <1>15 DEF Finish, Counted
<1>16. ASSUME NEW p \in Processes, Unlock(p) PROVE TypeOK'
    BY <1>16 DEF Unlock, End, Counted
<1>17. ASSUME NEW p \in Processes, LockLost(p) PROVE TypeOK'
    <2>1. torn' \in BOOLEAN /\ troubles' \in 0 .. MaxTroubles
        BY <1>17, TroubleTyped
    <2> QED
        BY <1>17, <2>1 DEF LockLost
<1>18. ASSUME NEW p \in Processes, Crash(p) PROVE TypeOK'
    BY <1>18 DEF Crash, Counted
<1>19. CASE UNCHANGED vars
    BY <1>19 DEF vars
<1> QED
    BY <1>1, <1>2, <1>3, <1>4, <1>5, <1>6, <1>7, <1>8, <1>9, <1>10, <1>12, <1>13, <1>14,
       <1>15, <1>16, <1>17, <1>18, <1>19 DEF Next, Work

Act(p) == Start(p) \/ Lock(p) \/ Work(p) \/ LockLost(p) \/ Crash(p)

\* What a step of p leaves alone.
Alone(p) ==
    \A q \in Processes \ {p} :
        /\ pc'[q] = pc[q] /\ files'[q] = files[q] /\ at'[q] = at[q]
        /\ passed'[q] = passed[q] /\ applied'[q] = applied[q]

(* A process changes its own variables only. *)
LEMMA StepAlone ==
    ASSUME TypeOK, NEW p \in Processes, Act(p)
    PROVE  Alone(p)
<1> USE DEF TypeOK, Alone, Goto, local, database
<1>1. CASE Start(p)
    BY <1>1 DEF Start
<1>2. CASE Lock(p)
    BY <1>2 DEF Lock
<1>3. CASE Look(p)
    BY <1>3 DEF Look
<1>4. CASE CreateTable(p)
    BY <1>4 DEF CreateTable
<1>5. CASE ReadApplied(p)
    BY <1>5 DEF ReadApplied
<1>6. ASSUME NEW v \in Versions, Skip(p, v) PROVE Alone(p)
    BY <1>6 DEF Skip, Pass
<1>7. ASSUME NEW v \in Versions, Modified(p, v) PROVE Alone(p)
    BY <1>7 DEF Modified
<1>8. ASSUME NEW v \in Versions, Exec(p, v) PROVE Alone(p)
    BY <1>8 DEF Exec
<1>9. ASSUME NEW v \in Versions, ExecFailed(p, v) PROVE Alone(p)
    BY <1>9 DEF ExecFailed
<1>10. CASE Record(p)
    BY <1>10 DEF Record
<1>11. CASE Commit(p)
    BY <1>11 DEF Commit, Committed, Pass
<1>12. CASE CommitLost(p)
    BY <1>12 DEF CommitLost, Committed
<1>13. CASE Failed(p)
    BY <1>13 DEF Failed
<1>14. CASE Finish(p)
    BY <1>14 DEF Finish
<1>15. CASE Unlock(p)
    BY <1>15 DEF Unlock
<1>16. CASE LockLost(p)
    BY <1>16 DEF LockLost
<1>17. CASE Crash(p)
    BY <1>17 DEF Crash
<1> QED
    BY <1>1, <1>2, <1>3, <1>4, <1>5, <1>6, <1>7, <1>8, <1>9, <1>10, <1>11, <1>12,
       <1>13, <1>14, <1>15, <1>16, <1>17 DEF Act, Work

\* Steps that leave the rows alone, and enter a commit only by the INSERT.
Quiet(p) ==
    /\ table' = table /\ runs' = runs
    /\ pc'[p] = "commit" => at'[p] = at[p] /\ (pc[p] = "commit" \/ Record(p))

(* Every step leaves the rows alone, or commits the row a process inserted. *)
LEMMA QuietOrCommit ==
    ASSUME TypeOK, NEW p \in Processes, Act(p)
    PROVE  Quiet(p) \/ (Committed(p) /\ pc'[p] # "commit")
<1> USE DEF TypeOK, Quiet, Goto, local, database
<1>1. CASE Start(p)
    BY <1>1 DEF Start
<1>2. CASE Lock(p)
    BY <1>2 DEF Lock
<1>3. CASE Look(p)
    BY <1>3 DEF Look
<1>4. CASE CreateTable(p)
    BY <1>4 DEF CreateTable
<1>5. CASE ReadApplied(p)
    BY <1>5 DEF ReadApplied
<1>6. ASSUME NEW v \in Versions, Skip(p, v) PROVE Quiet(p)
    BY <1>6 DEF Skip, Due
<1>7. ASSUME NEW v \in Versions, Modified(p, v) PROVE Quiet(p)
    BY <1>7 DEF Modified
<1>8. ASSUME NEW v \in Versions, Exec(p, v) PROVE Quiet(p)
    BY <1>8 DEF Exec
<1>9. ASSUME NEW v \in Versions, ExecFailed(p, v) PROVE Quiet(p)
    BY <1>9 DEF ExecFailed
<1>10. CASE Record(p)
    BY <1>10 DEF Record
<1>11. CASE Commit(p)
    BY <1>11 DEF Commit
<1>12. CASE CommitLost(p)
    BY <1>12 DEF CommitLost
<1>13. CASE Failed(p)
    BY <1>13 DEF Failed
<1>14. CASE Finish(p)
    BY <1>14 DEF Finish
<1>15. CASE Unlock(p)
    BY <1>15 DEF Unlock, End
<1>16. CASE LockLost(p)
    BY <1>16 DEF LockLost
<1>17. CASE Crash(p)
    BY <1>17 DEF Crash
<1> QED
    BY <1>1, <1>2, <1>3, <1>4, <1>5, <1>6, <1>7, <1>8, <1>9, <1>10, <1>11, <1>12,
       <1>13, <1>14, <1>15, <1>16, <1>17 DEF Act, Work

(* What a transaction commits was not in the table, and its INSERT kept others
   with the same version waiting; so rows appear once and stay as they are. *)
LEMMA RowsStep ==
    ASSUME TypeOK, Rows, Known, NEW p \in Processes, Act(p)
    PROVE  Rows' /\ RowsStay
<1>a. Alone(p)
    BY StepAlone
<1>1. CASE Quiet(p)
    <2>1. table' = table /\ runs' = runs
        BY <1>1 DEF Quiet
    <2>2. AppliedOnce' /\ RowsStay
        BY <2>1 DEF Rows, AppliedOnce, RowsStay
    <2>3. ASSUME NEW q \in Processes, pc'[q] = "commit"
          PROVE  at'[q] = at[q] /\ table[at[q]] = None
        <3>1. CASE q = p
            <4>1. at'[p] = at[p] /\ (pc[p] = "commit" \/ Record(p))
                BY <1>1, <2>3, <3>1 DEF Quiet
            <4>2. CASE pc[p] = "commit"
                BY <3>1, <4>1, <4>2 DEF Rows
            <4>3. CASE Record(p)
                <5>1. pc'[p] = IF table[at[p]] = None THEN "commit" ELSE "close conflict"
                    BY <4>3 DEF Record, Goto, TypeOK
                <5> QED
                    BY <2>3, <3>1, <4>1, <5>1
            <4> QED
                BY <4>1, <4>2, <4>3
        <3>2. CASE q # p
            BY <1>a, <2>3, <3>2 DEF Alone, Rows
        <3> QED
            BY <3>1, <3>2
    <2>4. ASSUME NEW q \in Processes, q # p, pc'[q] = "commit", pc'[p] = "commit"
          PROVE  at'[q] # at'[p]
        <3>1. pc[q] = "commit" /\ at'[q] = at[q] /\ at'[p] = at[p]
            BY <1>a, <2>3, <2>4 DEF Alone
        <3>2. CASE pc[p] = "commit"
            BY <2>4, <3>1, <3>2 DEF Rows
        <3>3. CASE Record(p)
            BY <3>1, <3>3 DEF Record, Inserting
        <3> QED
            BY <1>1, <2>4, <3>2, <3>3 DEF Quiet
    <2>5. ASSUME NEW q \in Processes, NEW r \in Processes, q # r, q # p, r # p,
                 pc'[q] = "commit", pc'[r] = "commit"
          PROVE  at'[q] # at'[r]
        BY <1>a, <2>5 DEF Alone, Rows
    <2> QED
        BY <2>1, <2>2, <2>3, <2>4, <2>5 DEF Rows
<1>2. CASE Committed(p) /\ pc'[p] # "commit"
    <2>1. at[p] \in Versions /\ files[p] \in Contents
        BY MigrateAssumption DEF TypeOK
    <2>2. table[at[p]] = None /\ runs[at[p]] = 0
        BY <1>2, <2>1 DEF Rows, AppliedOnce, Committed
    <2>3. /\ \A v \in Versions \ {at[p]} : table'[v] = table[v] /\ runs'[v] = runs[v]
          /\ table'[at[p]] = files[p][at[p]] /\ runs'[at[p]] = 1
        BY <1>2, <2>1, <2>2 DEF Committed, TypeOK, Contents
    <2>4. RowsStay
        BY <2>2, <2>3 DEF RowsStay
    <2>5. table'[at[p]] # None
        BY <1>2, <2>3 DEF Known, Knows, InTx, Committed
    <2>6. AppliedOnce'
        BY <2>1, <2>3, <2>5 DEF Rows, AppliedOnce
    <2>7. ASSUME NEW q \in Processes, pc'[q] = "commit"
          PROVE  q # p /\ pc[q] = "commit" /\ at'[q] = at[q]
        BY <1>2, <1>a, <2>7 DEF Alone
    <2>8. ASSUME NEW q \in Processes, pc'[q] = "commit"
          PROVE  table'[at'[q]] = None
        <3>1. at[q] # at[p] /\ table[at[q]] = None /\ at[q] \in Versions
            BY <1>2, <2>7, <2>8 DEF Rows, Committed, TypeOK
        <3> QED
            BY <2>3, <2>7, <2>8, <3>1
    <2>9. ASSUME NEW q \in Processes, NEW r \in Processes,
                 pc'[q] = "commit", pc'[r] = "commit", at'[q] = at'[r]
          PROVE  q = r
        BY <2>7, <2>9 DEF Rows
    <2> QED
        BY <2>4, <2>6, <2>8, <2>9 DEF Rows
<1> QED
    BY <1>1, <1>2, QuietOrCommit

(* What the others know stays true: rows do not change. *)
LEMMA OthersKnow ==
    ASSUME TypeOK, NEW p \in Processes, NEW q \in Processes \ {p},
           Knows(q), Alone(p), RowsStay
    PROVE  Knows(q)'
<1>1. /\ pc'[q] = pc[q] /\ files'[q] = files[q] /\ at'[q] = at[q]
      /\ passed'[q] = passed[q] /\ applied'[q] = applied[q]
    BY DEF Alone
<1>2. passed[q] \subseteq Versions
    BY DEF TypeOK
<1> QED
    BY <1>1, <1>2 DEF Knows, RowsStay

\* The process is not, after the step, where Knows says anything of it.
Aside(p) == pc'[p] \notin Migrating \cup {"close done", "done"}

(* A process knows what it read, compared and committed. *)
LEMMA StepKnows ==
    ASSUME TypeOK, Rows, Known, NEW p \in Processes, Act(p)
    PROVE  Knows(p)'
<1>s. RowsStay
    BY RowsStep
<1>t. /\ pc \in [Processes -> {"idle", "locking"} \cup Working \cup Closing \cup Ends]
      /\ files[p] \in Contents /\ table \in Contents /\ at[p] \in Versions
      /\ passed[p] \subseteq Versions
    BY MigrateAssumption DEF TypeOK
<1>k. Knows(p)
    BY DEF Known
<1>a. ASSUME Aside(p) PROVE Knows(p)'
    BY <1>a DEF Aside, Knows, Migrating, InTx
\* A process that stays where it is, knows what it knew.
<1>b. ASSUME pc'[p] = pc[p], files'[p] = files[p], at'[p] = at[p],
             passed'[p] = passed[p], applied'[p] = applied[p]
      PROVE  Knows(p)'
    BY <1>b, <1>s, <1>k, <1>t DEF Knows, RowsStay
<1> USE DEF Goto, local, database
<1>1. CASE Start(p)
    BY <1>1, <1>t, <1>a DEF Start, Aside, Migrating
<1>2. CASE Lock(p)
    BY <1>2, <1>t, <1>a DEF Lock, Aside, Migrating
<1>3. CASE Look(p)
    BY <1>3, <1>t, <1>a DEF Look, Aside, Migrating
<1>4. CASE CreateTable(p)
    BY <1>4, <1>t, <1>a DEF CreateTable, Aside, Migrating
<1>5. CASE ReadApplied(p)
    <2>1. pc'[p] = "loop" /\ applied'[p] = table /\ passed'[p] = {} /\ table' = table
        BY <1>5, <1>t DEF ReadApplied, TypeOK
    <2> QED
        BY <2>1 DEF Knows, InTx
<1>6. ASSUME NEW v \in Versions, Skip(p, v) PROVE Knows(p)'
    <2>1. /\ pc[p] = "loop" /\ pc'[p] = "loop" /\ files[p][v] # None
          /\ applied[p][v] = files[p][v] /\ passed'[p] = passed[p] \cup {v}
          /\ applied'[p] = applied[p] /\ files'[p] = files[p] /\ table' = table
        BY <1>6 DEF Skip, Due, Ahead, Pass, TypeOK
    <2>2. /\ \A u \in Versions : applied[p][u] # None => table[u] = applied[p][u]
          /\ \A u \in passed[p] : files[p][u] # None /\ table[u] = files[p][u]
        BY <2>1, <1>k DEF Knows, Migrating
    <2> QED
        BY <2>1, <2>2 DEF Knows, InTx
<1>7. ASSUME NEW v \in Versions, Modified(p, v) PROVE Knows(p)'
    BY <1>7, <1>t, <1>a DEF Modified, Aside, Migrating
<1>8. ASSUME NEW v \in Versions, Exec(p, v) PROVE Knows(p)'
    <2>1. /\ pc[p] = "loop" /\ pc'[p] = "record" /\ at'[p] = v
          /\ passed'[p] = passed[p] /\ applied'[p] = applied[p] /\ files'[p] = files[p]
          /\ table' = table
        BY <1>8, <1>t DEF Exec, Due, TypeOK
    <2>2. /\ \A u \in Versions : applied[p][u] # None => table[u] = applied[p][u]
          /\ \A u \in passed[p] : files[p][u] # None /\ table[u] = files[p][u]
        BY <2>1, <1>k DEF Knows, Migrating
    <2>3. v \in Nat /\ \A u \in Versions : u \in Nat
        BY MigrateAssumption
    <2>4. files[p][v] # None /\ \A u \in Ahead(p) : v <= u
        BY <1>8 DEF Exec, Due, Ahead
    <2>5. ASSUME NEW u \in Versions, u < v, files[p][u] # None PROVE u \in passed[p]
        <3>0. v \in Nat /\ u \in Nat
            BY <2>3
        <3>1. ~(v <= u)
            BY ONLY <3>0, <2>5
        <3> QED
            BY <2>4, <2>5, <3>1 DEF Ahead
    <2> QED
        BY <2>1, <2>2, <2>4, <2>5 DEF Knows, InTx
<1>9. ASSUME NEW v \in Versions, ExecFailed(p, v) PROVE Knows(p)'
    BY <1>9, <1>t, <1>a DEF ExecFailed, Aside, Migrating
<1>10. CASE Record(p)
    <2>1. /\ pc[p] = "record" /\ pc'[p] \in {"commit", "close conflict"}
          /\ at'[p] = at[p] /\ passed'[p] = passed[p] /\ applied'[p] = applied[p]
          /\ files'[p] = files[p] /\ table' = table
        BY <1>10, <1>t DEF Record, Inserting
    <2> QED
        BY <2>1, <1>k DEF Knows, Migrating, InTx
<1>11. CASE Commit(p)
    <2>1. /\ pc[p] = "commit" /\ pc'[p] = "loop" /\ table' = [table EXCEPT ![at[p]] = files[p][at[p]]]
          /\ passed'[p] = passed[p] \cup {at[p]} /\ applied'[p] = applied[p]
          /\ files'[p] = files[p]
        BY <1>11, <1>t DEF Commit, Committed, Pass, TypeOK
    <2>2. table'[at[p]] = files[p][at[p]] /\ files[p][at[p]] # None
        BY <2>1, <1>t, <1>k DEF Knows, InTx, Contents
    <2>3. /\ \A u \in Versions : applied[p][u] # None => table[u] = applied[p][u]
          /\ \A u \in passed[p] : files[p][u] # None /\ table[u] = files[p][u]
        BY <2>1, <1>k DEF Knows, Migrating
    <2> QED
        BY <2>1, <2>2, <2>3, <1>s, <1>t DEF Knows, InTx, RowsStay
<1>12. CASE CommitLost(p)
    BY <1>12, <1>t, <1>a DEF CommitLost, Aside, Migrating
<1>13. CASE Failed(p)
    BY <1>13, <1>t, <1>a DEF Failed, Aside, Migrating
<1>14. CASE Finish(p)
    <2>1. /\ pc[p] = "loop" /\ pc'[p] = "close done" /\ Ahead(p) = {}
          /\ passed'[p] = passed[p] /\ files'[p] = files[p] /\ table' = table
        BY <1>14, <1>t DEF Finish
    <2>2. \A u \in passed[p] : files[p][u] # None /\ table[u] = files[p][u]
        BY <2>1, <1>k DEF Knows, Migrating
    <2> QED
        BY <2>1, <2>2 DEF Knows, Migrating, InTx, Ahead
<1>15. CASE Unlock(p)
    <2>1. /\ pc[p] \in Closing /\ pc'[p] = End(p) /\ table' = table
          /\ passed'[p] = passed[p] /\ files'[p] = files[p]
        BY <1>15, <1>t DEF Unlock
    <2> QED
        BY <2>1, <1>k DEF Knows, Migrating, InTx, End, Closing
<1>16. CASE LockLost(p)
    BY <1>16, <1>b DEF LockLost
<1>17. CASE Crash(p)
    BY <1>17, <1>t, <1>a DEF Crash, Aside, Migrating
<1> QED
    BY <1>1, <1>2, <1>3, <1>4, <1>5, <1>6, <1>7, <1>8, <1>9, <1>10, <1>11, <1>12,
       <1>13, <1>14, <1>15, <1>16, <1>17 DEF Act, Work

(* The lock keeps the others from the database while p is at work; and what is
   at work holds the lock. *)
LEMMA OthersWait ==
    ASSUME TypeOK, NEW p \in Processes, NEW q \in Processes \ {p},
           Turn(p), Turn(q), Act(p), Alone(p)
    PROVE  Turn(q)'
<1>1. /\ pc'[q] = pc[q] /\ files'[q] = files[q] /\ at'[q] = at[q]
      /\ passed'[q] = passed[q] /\ applied'[q] = applied[q]
    BY DEF Alone
<1>2. lock = p => pc[q] \notin Working \cup Closing
    BY DEF Turn
<1>3. lock = q => /\ pc[p] \notin Working \cup Closing
    BY DEF Turn
<1>4. pc[p] \in Working \cup Closing => lock = p
    BY DEF Turn
<1>n. q # Nobody /\ q # p
    BY MigrateAssumption
<1>5. CASE pc[q] \notin Working \cup Closing
    BY <1>1, <1>5 DEF Turn, Working, Closing, Migrating, InTx, Turn
<1>6. CASE pc[q] \in Working \cup Closing
    <2>1. lock = q /\ pc[p] \notin Working \cup Closing
        BY <1>3, <1>6 DEF Turn
    <2>2. Start(p) \/ Crash(p)
        <3>1. ~Lock(p) /\ ~LockLost(p)
            BY <2>1, <1>n DEF Lock, LockLost
        <3>2. ~Work(p)
            BY <2>1 DEF Work, Look, CreateTable, ReadApplied, Skip, Modified, Exec,
                ExecFailed, Due, Record, Inserting, Commit, CommitLost, Committed,
                Failed, Finish, Unlock, Working, Closing
        <3> QED
            BY <3>1, <3>2 DEF Act
    <2>3. lock' = lock /\ created' = created /\ table' = table
        BY <2>1, <2>2, <1>n DEF Start, Crash, database
    <2> QED
        BY <1>1, <2>3 DEF Turn
<1> QED
    BY <1>5, <1>6

(* While no lock connection breaks, a process finds the database as it left it:
   what it creates is not there, what it inserts is not recorded. *)
LEMMA StepTurn ==
    ASSUME TypeOK, NEW p \in Processes, Turn(p), Act(p), ~torn'
    PROVE  Turn(p)'
<1>t. /\ pc \in [Processes -> {"idle", "locking"} \cup Working \cup Closing \cup Ends]
      /\ at[p] \in Versions /\ passed[p] \subseteq Versions
    BY MigrateAssumption DEF TypeOK
\* Steps after which Turn asks for the lock at most.
<1>a. ASSUME pc'[p] \in {"look", "read", "close done", "close failed"}, lock' = p
      PROVE  Turn(p)'
    BY <1>a DEF Turn, Migrating, InTx
<1>b. ASSUME pc'[p] \in {"locking", "done", "failed"} PROVE Turn(p)'
    BY <1>b DEF Turn, Migrating, InTx, Working, Closing
<1> USE DEF Goto, local, database
<1>1. CASE Start(p)
    BY <1>1, <1>t, <1>b DEF Start
<1>2. CASE Lock(p)
    BY <1>2, <1>t, <1>a DEF Lock
<1>3. CASE Look(p)
    <2>1. lock' = p /\ created' = created /\ pc'[p] = IF created THEN "read" ELSE "create"
        BY <1>3, <1>t DEF Look, Turn, Working
    <2> QED
        BY <2>1, <1>a DEF Turn, Migrating, InTx
<1>4. CASE CreateTable(p)
    <2>1. lock' = p /\ pc'[p] = "read"
        BY <1>4, <1>t DEF CreateTable, Turn, Working
    <2> QED
        BY <2>1, <1>a
<1>5. CASE ReadApplied(p)
    <2>1. lock' = p /\ pc'[p] = "loop" /\ applied'[p] = table /\ table' = table
        BY <1>5, <1>t DEF ReadApplied, Turn, Working, TypeOK
    <2> QED
        BY <2>1 DEF Turn, InTx
<1>6. ASSUME NEW v \in Versions, Skip(p, v) PROVE Turn(p)'
    <2>1. /\ lock' = p /\ pc[p] = "loop" /\ pc'[p] = "loop" /\ table' = table
          /\ passed'[p] = passed[p] \cup {v} /\ applied'[p] = applied[p]
        BY <1>6, <1>t DEF Skip, Due, Pass, Turn, Working, TypeOK
    <2> QED
        BY <2>1 DEF Turn, Migrating, InTx
<1>7. ASSUME NEW v \in Versions, Modified(p, v) PROVE Turn(p)'
    <2>1. lock' = p /\ pc'[p] = "close failed"
        BY <1>7, <1>t DEF Modified, Due, Turn, Working
    <2> QED
        BY <2>1, <1>a
<1>8. ASSUME NEW v \in Versions, Exec(p, v) PROVE Turn(p)'
    <2>1. /\ lock' = p /\ pc[p] = "loop" /\ pc'[p] = "record" /\ table' = table
          /\ passed'[p] = passed[p] /\ applied'[p] = applied[p] /\ at'[p] = v
          /\ v \notin passed[p] /\ applied[p][v] = None
        BY <1>8, <1>t DEF Exec, Due, Ahead, Turn, Working, TypeOK
    <2> QED
        BY <2>1 DEF Turn, Migrating, InTx
<1>9. ASSUME NEW v \in Versions, ExecFailed(p, v) PROVE Turn(p)'
    <2>1. lock' = p /\ pc'[p] = "close failed"
        BY <1>9, <1>t DEF ExecFailed, Due, Turn, Working
    <2> QED
        BY <2>1, <1>a
<1>10. CASE Record(p)
    <2>1. pc[p] = "record" /\ table[at[p]] = None
        BY <1>10, <1>t DEF Record, Inserting, Turn, Migrating, InTx
    <2>2. /\ lock' = p /\ pc'[p] = "commit" /\ table' = table
          /\ passed'[p] = passed[p] /\ applied'[p] = applied[p] /\ at'[p] = at[p]
        BY <1>10, <1>t, <2>1 DEF Record, Turn, Working
    <2> QED
        BY <2>1, <2>2 DEF Turn, Migrating, InTx
<1>11. CASE Commit(p)
    <2>1. /\ lock' = p /\ pc[p] = "commit" /\ pc'[p] = "loop"
          /\ table' = [table EXCEPT ![at[p]] = files[p][at[p]]]
          /\ passed'[p] = passed[p] \cup {at[p]} /\ applied'[p] = applied[p]
        BY <1>11, <1>t DEF Commit, Committed, Pass, Turn, Working, TypeOK
    <2>2. \A v \in Versions \ passed'[p] : table'[v] = table[v]
        BY <2>1 DEF TypeOK, Contents
    <2> QED
        BY <2>1, <2>2 DEF Turn, Migrating, InTx
<1>12. CASE CommitLost(p)
    <2>1. lock' = p /\ pc'[p] = "close failed"
        BY <1>12, <1>t DEF CommitLost, Committed, Turn, Working
    <2> QED
        BY <2>1, <1>a
<1>13. CASE Failed(p)
    <2>1. lock' = p /\ pc'[p] = "close failed"
        BY <1>13, <1>t DEF Failed, Turn, Working
    <2> QED
        BY <2>1, <1>a
<1>14. CASE Finish(p)
    <2>1. lock' = p /\ pc'[p] = "close done"
        BY <1>14, <1>t DEF Finish, Turn, Working
    <2> QED
        BY <2>1, <1>a
<1>15. CASE Unlock(p)
    <2>1. pc[p] \in Closing /\ pc[p] # "close conflict" /\ pc'[p] = End(p)
        BY <1>15, <1>t DEF Unlock, Turn
    <2>2. pc'[p] \in {"done", "failed"}
        BY <2>1 DEF End, Closing
    <2> QED
        BY <2>2, <1>b
<1>16. CASE LockLost(p)
    BY <1>16 DEF LockLost
<1>17. CASE Crash(p)
    BY <1>17, <1>t, <1>b DEF Crash
<1> QED
    BY <1>1, <1>2, <1>3, <1>4, <1>5, <1>6, <1>7, <1>8, <1>9, <1>10, <1>11, <1>12,
       <1>13, <1>14, <1>15, <1>16, <1>17 DEF Act, Work

(* A lock connection that has broken, has broken. *)
LEMMA TornStays ==
    ASSUME NEW p \in Processes, Act(p)
    PROVE  torn => torn'
    BY DEF Act, Start, Lock, Work, Look, CreateTable, ReadApplied, Skip, Modified, Exec,
       ExecFailed, Record, Commit, CommitLost, Failed, Finish, Unlock, LockLost, Crash,
       Smooth, Trouble

LEMMA InvStep == IInv /\ [Next]_vars => IInv'
<1> SUFFICES ASSUME IInv, [Next]_vars PROVE IInv'
    OBVIOUS
<1> USE DEF IInv
<1>1. TypeOK'
    BY TypeStep
<1>2. ASSUME NEW p \in Processes, Act(p) PROVE (Rows /\ Known /\ Turns)'
    <2>1. Alone(p) /\ Rows' /\ RowsStay
        BY <1>2, StepAlone, RowsStep
    <2>2. Knows(p)'
        BY <1>2, StepKnows
    <2>3. ASSUME NEW q \in Processes \ {p} PROVE Knows(q)'
        BY <2>1, OthersKnow DEF Known
    <2>4. Known'
        BY <2>2, <2>3 DEF Known
    <2>5. ASSUME ~torn' PROVE \A q \in Processes : Turn(q)'
        <3>1. \A q \in Processes : Turn(q)
            BY <1>2, <2>5, TornStays DEF Turns
        <3>2. Turn(p)'
            BY <1>2, <2>5, <3>1, StepTurn
        <3>3. ASSUME NEW q \in Processes \ {p} PROVE Turn(q)'
            BY <1>2, <2>1, <3>1, OthersWait
        <3> QED
            BY <3>2, <3>3
    <2>6. Turns'
        BY <2>5 DEF Turns
    <2> QED
        BY <2>1, <2>4, <2>6
<1>3. CASE Next
    BY <1>1, <1>2, <1>3 DEF Next, Act
<1>4. CASE UNCHANGED vars
    <2> USE <1>4 DEF vars, local, database
    <2>1. Rows'
        BY DEF Rows, AppliedOnce
    <2>2. Known'
        BY DEF Known, Knows
    <2>3. Turns'
        BY DEF Turns, Turn
    <2> QED
        BY <1>1, <2>1, <2>2, <2>3
<1> QED
    BY <1>3, <1>4

(* The invariant holds for any number of processes and builds. *)
THEOREM Invariant == Spec => []IInv
<1>1. Init => IInv
    BY InitInv
<1>2. IInv /\ [Next]_vars => IInv'
    BY InvStep
<1> QED
    BY <1>1, <1>2, PTL DEF Spec

(* Every value stays of its type, and only a process between Lock and Unlock
   holds the advisory lock (migrate.go:48-53). *)
THEOREM TypeCorrect == Spec => []TypeOK
    BY Invariant, PTL DEF IInv

(* A migration takes effect once and is recorded then (migrate.go:115-133), with
   crashes, lost answers and two processes inside the lock. *)
THEOREM OnceApplied == Spec => []AppliedOnce
<1>1. IInv => AppliedOnce
    BY DEF IInv, Rows
<1> QED
    BY <1>1, Invariant, PTL

(* Whoever serves has compared or applied every file of its build
   (migrate.go:108-113), and no other process changes what it found. *)
THEOREM SchemaServed == Spec => []ServedSchema
<1>1. IInv => ServedSchema
    BY DEF IInv, Known, Knows, ServedSchema
<1> QED
    BY <1>1, Invariant, PTL

(* Unless its connection breaks, the advisory lock keeps processes from failing
   on each other's work (migrate.go:37-42). *)
THEOREM TakeTurns == Spec => []Serialized
<1>1. IInv => Serialized
    BY DEF IInv, Turns, Turn, Serialized
<1> QED
    BY <1>1, Invariant, PTL

(* What a process commits continues the schema its build describes. *)
LEMMA GrowStep ==
    ASSUME IInv, NEW p \in Processes, Committed(p), pc'[p] # "done", Alone(p)
    PROVE  History!Grow(files[p], at[p])
<1>1. /\ at[p] \in Versions /\ files[p] \in Contents /\ table \in Contents
      /\ pc[p] = "commit" /\ files' = files
      /\ table' = [table EXCEPT ![at[p]] = files[p][at[p]]]
      /\ runs' = [runs EXCEPT ![at[p]] = @ + 1]
    BY MigrateAssumption DEF IInv, TypeOK, Committed
<1>2. /\ files[p][at[p]] # None /\ table[at[p]] = None
      /\ \A u \in Versions : u < at[p] /\ files[p][u] # None => table[u] = files[p][u]
    BY <1>1 DEF IInv, Rows, Known, Knows, Migrating, InTx
<1>3. \A q \in Processes : pc'[q] = "done" <=> pc[q] = "done"
    BY <1>1 DEF Alone
<1>4. InService' = InService
    BY <1>1, <1>3 DEF InService
<1> QED
    BY <1>1, <1>2, <1>4 DEF History!Grow, History!Files, History!Agrees

(* A process that comes to serve has its whole build in the schema, and one that
   is started again, or stops, serves no more. *)
LEMMA ServeStep ==
    ASSUME IInv, NEW p \in Processes, Act(p), table' = table, runs' = runs
    PROVE  [History!Next]_<<table, runs, InService>>
<1>1. Alone(p)
    BY StepAlone DEF IInv
<1>2. /\ pc'[p] = "done" /\ pc[p] # "done" => files'[p] = files[p] /\ pc[p] = "close done"
      /\ pc'[p] = "done" /\ pc[p] = "done" => files'[p] = files[p]
    BY DEF IInv, TypeOK, Act, Start, Lock, Work, Look, CreateTable, ReadApplied, Skip, Modified,
           Exec, ExecFailed, Record, Commit, Committed, CommitLost, Failed, Finish, Unlock, End,
           LockLost, Crash, Due, Goto, local, database, Working
<1>3. CASE pc'[p] = "done" /\ pc[p] # "done"
    <2>1. files[p] \in Builds /\ files'[p] = files[p] /\ pc[p] = "close done"
        BY <1>2, <1>3 DEF IInv, TypeOK
    <2>2. \A v \in Versions : files[p][v] # None => table[v] = files[p][v]
        BY <2>1 DEF IInv, Known, Knows
    <2>3. InService' = InService \cup {[server |-> p, build |-> files[p]]}
        BY <1>1, <1>3, <2>1 DEF InService, Alone
    <2>4. History!Serve(p, files[p])
        BY <2>2, <2>3 DEF History!Serve, History!Agrees, History!Files
    <2> QED
        BY <2>1, <2>4 DEF History!Next
<1>4. CASE pc'[p] # "done"
    <2>1. InService' = {x \in InService : x.server # p}
        BY <1>1, <1>4 DEF InService, Alone
    <2>2. History!Stop(p)
        BY <2>1 DEF History!Stop
    <2> QED
        BY <2>2 DEF History!Next
<1>5. CASE pc'[p] = "done" /\ pc[p] = "done"
    <2>1. InService' = InService
        BY <1>1, <1>2, <1>5 DEF InService, Alone
    <2> QED
        BY <2>1
<1> QED
    BY <1>3, <1>4, <1>5

(* The processes implement SchemaHistory, with the lock or without: the schema grows
   in the order of the files of a build that agrees with it (migrate.go:96-133), and
   a server starts on one that agrees with its build and is on one while it serves. *)
THEOREM SchemaGrowsInOrder == Spec => ImplementsSchemaHistory
<1>1. Init => History!Init
    BY DEF Init, NoRows, History!Init, InService
<1>2. ASSUME IInv, [Next]_vars PROVE [History!Next]_<<table, runs, InService>>
    <2>1. CASE Next
        <3> PICK p \in Processes : Act(p)
            BY <2>1 DEF Next, Act
        <3>1. Alone(p) /\ (Quiet(p) \/ Committed(p))
            BY StepAlone, QuietOrCommit, <1>2 DEF IInv
        <3>2. CASE Quiet(p)
            BY <1>2, <3>2, ServeStep DEF Quiet
        <3>3. CASE Committed(p)
            <4>1. pc'[p] # "done" /\ files[p] \in Builds /\ at[p] \in Versions
                BY <1>2, <3>3 DEF Committed, Act, Start, Lock, Work, Look, CreateTable,
                   ReadApplied, Skip, Modified, Exec, ExecFailed, Record, Commit, CommitLost,
                   Failed, Finish, Unlock, LockLost, Crash, Due, Inserting, Goto, Closing,
                   Ends, Working, IInv, TypeOK
            <4>2. History!Grow(files[p], at[p])
                BY <1>2, <3>1, <3>3, <4>1, GrowStep
            <4> QED
                BY <4>1, <4>2 DEF History!Next
        <3> QED
            BY <3>1, <3>2, <3>3
    <2>2. CASE UNCHANGED vars
        BY <2>2 DEF vars, local, database, InService
    <2> QED
        BY <1>2, <2>1, <2>2
<1> QED
    BY <1>1, <1>2, Invariant, PTL DEF Spec, ImplementsSchemaHistory, History!Spec

(* The abstract history keeps what it promises, so whatever implements it does: once a
   row is there it stays, and a server starts only on the rows of its build. *)
THEOREM HistoryKeepsPromise == History!Spec => []History!Promise
<1> DEFINE Typed == /\ table \in [Versions -> Bodies \cup {None}]
                    /\ runs \in [Versions -> Nat]
           HInv == Typed /\ History!Promise
<1> USE DEF History!Promise, History!Agrees, History!Files
<1>1. History!Init => HInv
    BY DEF History!Init
<1>2. ASSUME HInv, History!Next PROVE HInv'
    <2>1. ASSUME NEW build \in Builds, NEW v \in Versions, History!Grow(build, v)
          PROVE  HInv'
        <3>1. build[v] \in Bodies /\ build[v] # None /\ table[v] = None /\ runs[v] = 0
            BY <1>2, <2>1, MigrateAssumption DEF History!Grow, Contents
        <3>2. /\ table' = [table EXCEPT ![v] = build[v]]
              /\ runs' = [runs EXCEPT ![v] = runs[v] + 1]
              /\ InService' = InService
            BY <2>1 DEF History!Grow
        <3>3. Typed'
            BY <1>2, <3>1, <3>2
        <3>4. \A u \in Versions : runs'[u] = IF table'[u] = None THEN 0 ELSE 1
            BY <1>2, <3>1, <3>2
        <3>5. \A u \in Versions : table[u] # None => table'[u] = table[u]
            BY <1>2, <3>1, <3>2
        <3>6. \A x \in InService' : \A u \in Versions :
                  x.build[u] # None => table'[u] = x.build[u]
            BY <1>2, <3>2, <3>5
        <3> QED
            BY <3>3, <3>4, <3>6
    <2>2. ASSUME NEW s \in Processes, History!Stop(s) PROVE HInv'
        BY <1>2, <2>2 DEF History!Stop
    <2>3. ASSUME NEW s \in Processes, NEW build \in Builds, History!Serve(s, build)
          PROVE  HInv'
        BY <1>2, <2>3 DEF History!Serve
    <2> QED
        BY <1>2, <2>1, <2>2, <2>3 DEF History!Next
<1>3. HInv /\ UNCHANGED <<table, runs, InService>> => HInv'
    OBVIOUS
<1> QED
    BY <1>1, <1>2, <1>3, PTL DEF History!Spec
=============================================================================
