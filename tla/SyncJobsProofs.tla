--------------------------- MODULE SyncJobsProofs ---------------------------
(***************************************************************************)
(* Syncs for any number of jobs, accounts, 42 users and clients, and any   *)
(* limits: data lands on its owner's account, a cooldown is earned and is  *)
(* not held twice, and no live sync is dropped to make room.               *)
(*                                                                         *)
(* Types says what a sync knows by how far it has come (Progress).  Owned  *)
(* and Earned rest on it and not on each other.                            *)
(***************************************************************************)
EXTENDS SyncJobs, TLAPS

Typed(f, D, S) == DOMAIN f \subseteq D /\ f \in [DOMAIN f -> S]

(* An upsert keeps a map typed. *)
LEMMA PutTyped ==
    ASSUME NEW D, NEW S, NEW f, Typed(f, D, S), NEW x \in D, NEW v \in S
    PROVE Typed(Put(f, x, v), D, S)
BY DEF Typed, Put

(* A deletion keeps a map typed. *)
LEMMA DropTyped ==
    ASSUME NEW D, NEW S, NEW f, Typed(f, D, S), NEW X
    PROVE Typed(Drop(f, X), D, S)
BY DEF Typed, Drop, Restrict

(* A change of an entry keeps a map typed. *)
LEMMA ExceptTyped ==
    ASSUME NEW D, NEW S, NEW f, Typed(f, D, S), NEW x \in DOMAIN f, NEW v \in S
    PROVE Typed([f EXCEPT ![x] = v], D, S)
BY DEF Typed

(* A setter keeps the registry typed, whether the job is still in it or not. *)
LEMMA UpdateTyped ==
    ASSUME Typed(jobs, JobIds, Job), NEW j, NEW job, j \in DOMAIN jobs => job \in Job
    PROVE Typed(Update(j, job), JobIds, Job)
BY DEF Typed, Update

\* The program counters of a sync that knows whom it fetches.
Late == {"fetch", "lookup", "update", "link", "finish", "release"}

\* How far a sync has come says what it knows.
Progress ==
    \A j \in DOMAIN pulls :
        /\ pulls[j].pc \in Late => pulls[j].ft \in FtIds
        /\ pulls[j].pc \in {"update", "link"} => pulls[j].target \in AccountIds

\* A finished job has the user it fetched.
DoneKnown == \A j \in DOMAIN jobs : jobs[j].status = "done" => jobs[j].ft \in FtIds

\* A step touches at most job j, or at most sync j.
JobsBut(j) == DOMAIN jobs' = DOMAIN jobs /\ \A i \in DOMAIN jobs \ {j} : jobs'[i] = jobs[i]
PullsBut(j) == DOMAIN pulls' = DOMAIN pulls /\ \A i \in DOMAIN pulls \ {j} : pulls'[i] = pulls[i]

\* p is the sync q with another program counter, user and target.
Moved(p, q, pc, f, a) ==
    /\ p \in Pull
    /\ p.pc = pc /\ p.ft = f /\ p.target = a
    /\ p.claim = q.claim /\ p.expect = q.expect

\* b is a job of the given status, user and matched account.
MadeJob(b, st, f, a) ==
    /\ b \in Job
    /\ b.status = st /\ b.ft = f /\ b.matched = a

(* The jobs that the registry and its setters make. *)
LEMMA JobTypes ==
    /\ \A k \in Keys \cup {NoKey} : MadeJob(NewJob(k), "running", NoFt, NoAccount)
    /\ \A q \in Job :
          /\ MadeJob([q EXCEPT !.status = "error", !.ended = 0], "error", q.ft, q.matched)
          /\ \A f \in FtIds : MadeJob([q EXCEPT !.status = "done", !.ended = 0, !.ft = f], "done", f, q.matched)
          /\ \A a \in AccountIds : MadeJob([q EXCEPT !.matched = a], q.status, q.ft, a)
<1>1. 0 \in 0 .. Ttl + 1 /\ 0 \in 0 .. Stuck + 1
    BY SyncAssumption DEF Stuck
<1>2. ASSUME NEW k \in Keys \cup {NoKey}
      PROVE MadeJob(NewJob(k), "running", NoFt, NoAccount)
    BY <1>1 DEF MadeJob, NewJob, Job
<1>3. ASSUME NEW q \in Job
      PROVE MadeJob([q EXCEPT !.status = "error", !.ended = 0], "error", q.ft, q.matched)
    BY <1>1 DEF MadeJob, Job
<1>4. ASSUME NEW q \in Job, NEW f \in FtIds
      PROVE MadeJob([q EXCEPT !.status = "done", !.ended = 0, !.ft = f], "done", f, q.matched)
    BY <1>1 DEF MadeJob, Job
<1>5. ASSUME NEW q \in Job, NEW a \in AccountIds
      PROVE MadeJob([q EXCEPT !.matched = a], q.status, q.ft, a)
    BY <1>1 DEF MadeJob, Job
<1> QED
    BY <1>2, <1>3, <1>4, <1>5

(* The values a step of a sync stores. *)
LEMMA PullTypes ==
    ASSUME Typed(pulls, JobIds, Pull), NEW j \in DOMAIN pulls
    PROVE LET q == pulls[j] IN
          /\ \A pc \in {"me", "release", "lookup", "link", "finish"} :
                Moved([q EXCEPT !.pc = pc], q, pc, q.ft, q.target)
          /\ \A f \in FtIds :
                Moved([q EXCEPT !.pc = "fetch", !.ft = f], q, "fetch", f, q.target)
          /\ \A a \in AccountIds \cup {NoAccount} :
                Moved([q EXCEPT !.pc = "update", !.target = a], q, "update", q.ft, a)
<1>1. pulls[j] \in Pull
    BY DEF Typed
<1> QED
    BY <1>1 DEF Moved, Pull

JobsOK == Typed(jobs, JobIds, Job) /\ DoneKnown
PullsOK == Typed(pulls, JobIds, Pull) /\ Progress

Types ==
    /\ JobsOK /\ PullsOK
    /\ Typed(slots, FtIds, 0 .. Cooldown + 1)
    /\ Typed(accounts, AccountIds, Account)
    /\ Typed(fetches, JobIds, Fetch)
    /\ claimed \subseteq JobIds
    /\ leaked \subseteq FtIds

(* A step that leaves jobs or syncs alone. *)
LEMMA Same ==
    /\ JobsOK /\ UNCHANGED jobs => JobsOK'
    /\ PullsOK /\ UNCHANGED pulls => PullsOK'
BY DEF JobsOK, PullsOK, DoneKnown, Progress

(* A job is created, and makes room by dropping a finished one at most. *)
LEMMA JobCreated ==
    ASSUME JobsOK, NEW j \in JobIds, NEW k \in Keys \cup {NoKey}, Create(j, k)
    PROVE /\ JobsOK'
          /\ j \in DOMAIN jobs'
          /\ jobs'[j].status = "running" /\ jobs'[j].matched = NoAccount
          /\ \A i \in DOMAIN jobs' \ {j} : i \in DOMAIN jobs /\ jobs'[i] = jobs[i]
          /\ \A i \in DOMAIN jobs : Running(i) => i \in DOMAIN jobs'
<1>1. NewJob(k) \in Job /\ NewJob(k).status = "running" /\ NewJob(k).matched = NoAccount
    BY JobTypes DEF MadeJob
<1>2. CASE \E old \in OldestFinished : jobs' = Put(Drop(jobs, {old}), j, NewJob(k))
    <2>1. PICK old \in OldestFinished : jobs' = Put(Drop(jobs, {old}), j, NewJob(k))
        BY <1>2
    <2>2. Typed(Drop(jobs, {old}), JobIds, Job)
        BY DropTyped DEF JobsOK
    <2>3. Typed(jobs', JobIds, Job)
        BY <1>1, <2>1, <2>2, PutTyped
    <2>4. DOMAIN jobs' = (DOMAIN jobs \ {old}) \cup {j} /\ jobs'[j] = NewJob(k)
        BY <2>1 DEF Put, Drop, Restrict
    <2>5. ASSUME NEW i \in DOMAIN jobs', i # j PROVE i \in DOMAIN jobs /\ jobs'[i] = jobs[i]
        BY <2>1, <2>5 DEF Put, Drop, Restrict
    <2>6. ~Running(old)
        BY DEF OldestFinished
    <2> QED
        BY <1>1, <2>3, <2>4, <2>5, <2>6 DEF JobsOK, DoneKnown
<1>3. CASE jobs' = Put(jobs, j, NewJob(k))
    <2>1. Typed(jobs', JobIds, Job)
        BY <1>1, <1>3, PutTyped DEF JobsOK
    <2>2. DOMAIN jobs' = DOMAIN jobs \cup {j} /\ jobs'[j] = NewJob(k)
        BY <1>3 DEF Put
    <2>3. ASSUME NEW i \in DOMAIN jobs', i # j PROVE i \in DOMAIN jobs /\ jobs'[i] = jobs[i]
        BY <1>3, <2>3 DEF Put
    <2> QED
        BY <1>1, <2>1, <2>2, <2>3 DEF JobsOK, DoneKnown
<1> QED
    BY <1>2, <1>3 DEF Create

(* Jobs are dropped. *)
LEMMA JobsDropped ==
    ASSUME JobsOK, NEW S, jobs' = Drop(jobs, S)
    PROVE /\ JobsOK'
          /\ DOMAIN jobs' = DOMAIN jobs \ S
          /\ \A i \in DOMAIN jobs' : jobs'[i] = jobs[i]
<1>1. Typed(jobs', JobIds, Job)
    BY DropTyped DEF JobsOK
<1>2. DOMAIN jobs' = DOMAIN jobs \ S /\ \A i \in DOMAIN jobs' : jobs'[i] = jobs[i]
    BY DEF Drop, Restrict
<1> QED
    BY <1>1, <1>2 DEF JobsOK, DoneKnown

(* A job is changed by a setter, which finishes it only with a user. *)
LEMMA JobUpdated ==
    ASSUME JobsOK, NEW j, NEW job, jobs' = Update(j, job),
           j \in DOMAIN jobs => job \in Job /\ (job.status = "done" => job.ft \in FtIds)
    PROVE JobsOK' /\ JobsBut(j) /\ (j \in DOMAIN jobs => jobs'[j] = job)
<1>1. Typed(jobs', JobIds, Job)
    BY UpdateTyped DEF JobsOK
<1>2. JobsBut(j) /\ (j \in DOMAIN jobs => jobs'[j] = job)
    BY DEF Update, JobsOK, Typed, JobsBut
<1> QED
    BY <1>1, <1>2 DEF JobsOK, DoneKnown, JobsBut

(* A job fails. *)
LEMMA JobFailed ==
    ASSUME JobsOK, NEW j, jobs' = Failed(j)
    PROVE /\ JobsOK'
          /\ JobsBut(j)
          /\ j \in DOMAIN jobs => jobs'[j].status = "error" /\ jobs'[j].matched = jobs[j].matched
<1> DEFINE job == [jobs[j] EXCEPT !.status = "error", !.ended = 0]
<1>1. j \in DOMAIN jobs => jobs[j] \in Job
    BY DEF JobsOK, Typed
<1>2. j \in DOMAIN jobs => MadeJob(job, "error", jobs[j].ft, jobs[j].matched)
    BY <1>1, JobTypes
<1>3. j \in DOMAIN jobs => job \in Job /\ job.status = "error" /\ job.matched = jobs[j].matched
    BY <1>2 DEF MadeJob
<1>4. jobs' = Update(j, job)
    BY DEF Failed
<1> HIDE DEF job
<1> QED
    BY <1>3, <1>4, JobUpdated

(* A sync begins. *)
LEMMA PullBegun ==
    ASSUME PullsOK, NEW j \in JobIds, NEW p \in Pull, p.pc \in {"check", "me"},
           pulls' = Put(pulls, j, p)
    PROVE /\ PullsOK'
          /\ DOMAIN pulls' = DOMAIN pulls \cup {j} /\ pulls'[j] = p
          /\ \A i \in DOMAIN pulls \ {j} : pulls'[i] = pulls[i]
<1>1. Typed(pulls', JobIds, Pull)
    BY PutTyped DEF PullsOK
<1>2. DOMAIN pulls' = DOMAIN pulls \cup {j} /\ pulls'[j] = p
    BY DEF Put
<1>3. \A i \in DOMAIN pulls \ {j} : pulls'[i] = pulls[i]
    BY DEF Put
<1> QED
    BY <1>1, <1>2, <1>3 DEF PullsOK, Progress, Late

(* A sync goes on. *)
LEMMA PullMoved ==
    ASSUME PullsOK, NEW j \in DOMAIN pulls, NEW p, NEW pc, NEW f, NEW a,
           Moved(p, pulls[j], pc, f, a),
           pc \in Late => f \in FtIds,
           pc \in {"update", "link"} => a \in AccountIds,
           pulls' = [pulls EXCEPT ![j] = p]
    PROVE PullsOK' /\ PullsBut(j) /\ Moved(pulls'[j], pulls[j], pc, f, a)
<1>1. Typed(pulls', JobIds, Pull)
    BY ExceptTyped DEF PullsOK, Moved
<1>2. PullsBut(j) /\ pulls'[j] = p
    BY DEF PullsOK, Typed, PullsBut
<1> QED
    BY <1>1, <1>2 DEF PullsOK, Progress, Moved, PullsBut

(* A sync moves on without learning anything new. *)
LEMMA PullGoes ==
    ASSUME PullsOK, NEW j \in DOMAIN pulls,
           NEW pc \in {"me", "release", "lookup", "link", "finish"}, Goto(j, pc),
           pc \in Late => pulls[j].ft \in FtIds,
           pc = "link" => pulls[j].target \in AccountIds
    PROVE /\ PullsOK' /\ PullsBut(j)
          /\ Moved(pulls'[j], pulls[j], pc, pulls[j].ft, pulls[j].target)
<1> DEFINE p == [pulls[j] EXCEPT !.pc = pc]
<1>1. Moved(p, pulls[j], pc, pulls[j].ft, pulls[j].target)
    BY PullTypes DEF PullsOK
<1>2. pulls' = [pulls EXCEPT ![j] = p]
    BY DEF Goto
<1> HIDE DEF p
<1> QED
    BY <1>1, <1>2, PullMoved

(* A sync goes to the account it refreshes. *)
LEMMA PullTargets ==
    ASSUME PullsOK, NEW j \in DOMAIN pulls, NEW a \in AccountIds, pulls[j].ft \in FtIds,
           pulls' = [pulls EXCEPT ![j].pc = "update", ![j].target = a]
    PROVE PullsOK' /\ PullsBut(j) /\ Moved(pulls'[j], pulls[j], "update", pulls[j].ft, a)
<1> DEFINE p == [pulls[j] EXCEPT !.pc = "update", !.target = a]
<1>1. Moved(p, pulls[j], "update", pulls[j].ft, a)
    BY PullTypes DEF PullsOK
<1>2. pulls' = [pulls EXCEPT ![j] = p]
    OBVIOUS
<1> HIDE DEF p
<1> QED
    BY <1>1, <1>2, PullMoved

(* A sync learns whom it fetches. *)
LEMMA PullReserves ==
    ASSUME PullsOK, NEW j \in DOMAIN pulls, NEW f \in FtIds,
           pulls' = [pulls EXCEPT ![j].pc = "fetch", ![j].ft = f]
    PROVE PullsOK' /\ PullsBut(j) /\ Moved(pulls'[j], pulls[j], "fetch", f, pulls[j].target)
<1> DEFINE p == [pulls[j] EXCEPT !.pc = "fetch", !.ft = f]
<1>1. Moved(p, pulls[j], "fetch", f, pulls[j].target)
    BY PullTypes DEF PullsOK
<1>2. pulls' = [pulls EXCEPT ![j] = p]
    OBVIOUS
<1> HIDE DEF p
<1> QED
    BY <1>1, <1>2, PullMoved

(* Syncs end. *)
LEMMA PullEnded ==
    ASSUME PullsOK, NEW S, pulls' = Drop(pulls, S)
    PROVE /\ PullsOK'
          /\ DOMAIN pulls' = DOMAIN pulls \ S
          /\ \A i \in DOMAIN pulls' : pulls'[i] = pulls[i]
<1>1. Typed(pulls', JobIds, Pull)
    BY DropTyped DEF PullsOK
<1>2. DOMAIN pulls' = DOMAIN pulls \ S /\ \A i \in DOMAIN pulls' : pulls'[i] = pulls[i]
    BY DEF Drop, Restrict
<1> QED
    BY <1>1, <1>2 DEF PullsOK, Progress

(* An UPDATE of a snapshot that takes effect or not. *)
LEMMA DataTyped ==
    ASSUME Types, NEW j \in DOMAIN pulls, pulls[j].pc = "update", WriteData(j) \/ UNCHANGED accounts
    PROVE /\ Typed(accounts', AccountIds, Account)
          /\ DOMAIN accounts' = DOMAIN accounts
          /\ \A b \in DOMAIN accounts : accounts'[b].ft = accounts[b].ft
          /\ UNCHANGED accounts \/ \A b \in DOMAIN accounts :
                 accounts'[b].data = IF b = pulls[j].target THEN pulls[j].ft ELSE accounts[b].data
<1>1. pulls[j].ft \in FtIds /\ \A b \in DOMAIN accounts : accounts[b] \in Account
    BY DEF Types, PullsOK, Progress, Late, Typed
<1> QED
    BY <1>1 DEF WriteData, Types, Typed, Account

(* The failure of a sync that holds a slot. *)
LEMMA FailLateTyped ==
    ASSUME Types, NEW j \in DOMAIN pulls, pulls[j].pc \in Late, FailLate(j),
           Typed(accounts', AccountIds, Account)
    PROVE Types'
<1>1. JobsOK'
    BY JobFailed DEF FailLate, Types
<1>2. pulls[j].ft \in FtIds
    BY DEF Types, PullsOK, Progress
<1>3. PullsOK'
    BY <1>2, PullGoes DEF FailLate, Types
<1>4. Typed(fetches', JobIds, Fetch)
    BY DropTyped DEF FailLate, Types
<1> QED
    BY <1>1, <1>3, <1>4 DEF FailLate, Types

(* The sync that a callback starts. *)
LEMMA CallbackPull ==
    ASSUME Types, NEW j \in JobIds, NEW k, Callback(j, k)
    PROVE /\ PullsOK'
          /\ DOMAIN pulls' = DOMAIN pulls \cup {j}
          /\ \A i \in DOMAIN pulls \ {j} : pulls'[i] = pulls[i]
          /\ pulls'[j].pc \in {"check", "me"}
          /\ pulls'[j].claim \in DOMAIN accounts => pulls'[j].expect = accounts[pulls'[j].claim].ft
<1>1. CASE pulls' = Put(pulls, j, NewPull("me", NoAccount, NoFt))
    <2> DEFINE p == NewPull("me", NoAccount, NoFt)
    <2>1. p \in Pull /\ p.pc = "me" /\ p.claim = NoAccount
        BY DEF Pull, NewPull
    <2>2. NoAccount \notin DOMAIN accounts
        BY SyncAssumption DEF Types, Typed
    <2>3. PullsOK /\ pulls' = Put(pulls, j, p)
        BY <1>1 DEF Types
    <2> HIDE DEF p
    <2> QED
        BY <2>1, <2>2, <2>3, PullBegun
<1>2. ASSUME NEW a \in DOMAIN accounts, pulls' = Put(pulls, j, NewPull("check", a, accounts[a].ft))
      PROVE /\ PullsOK'
            /\ DOMAIN pulls' = DOMAIN pulls \cup {j}
            /\ \A i \in DOMAIN pulls \ {j} : pulls'[i] = pulls[i]
            /\ pulls'[j].pc = "check" /\ pulls'[j].claim = a /\ pulls'[j].expect = accounts[a].ft
    <2> DEFINE p == NewPull("check", a, accounts[a].ft)
    <2>1. a \in AccountIds /\ accounts[a].ft \in FtIds
        BY DEF Types, Typed, Account
    <2>2. p \in Pull /\ p.pc = "check" /\ p.claim = a /\ p.expect = accounts[a].ft
        BY <2>1 DEF Pull, NewPull
    <2>3. PullsOK /\ pulls' = Put(pulls, j, p)
        BY <1>2 DEF Types
    <2> HIDE DEF p
    <2> QED
        BY <2>2, <2>3, PullBegun
<1> QED
    BY <1>1, <1>2 DEF Callback

(* A finished sync leaves its user in its job. *)
LEMMA JobFinished ==
    ASSUME JobsOK, PullsOK, NEW j \in DOMAIN pulls, Finish(j)
    PROVE /\ JobsOK' /\ JobsBut(j)
          /\ j \in DOMAIN jobs =>
                jobs'[j].status = "done" /\ jobs'[j].ft = pulls[j].ft /\ jobs'[j].matched = jobs[j].matched
<1> DEFINE job == [jobs[j] EXCEPT !.status = "done", !.ended = 0, !.ft = pulls[j].ft]
<1>1. pulls[j].ft \in FtIds
    BY DEF Finish, At, PullsOK, Progress, Late
<1>2. j \in DOMAIN jobs => jobs[j] \in Job
    BY DEF JobsOK, Typed
<1>3. j \in DOMAIN jobs => MadeJob(job, "done", pulls[j].ft, jobs[j].matched)
    BY <1>1, <1>2, JobTypes
<1>4. jobs' = Update(j, job)
    BY DEF Finish
<1> HIDE DEF job
<1>5. j \in DOMAIN jobs => /\ job \in Job /\ job.ft = pulls[j].ft
                          /\ job.status = "done" /\ job.matched = jobs[j].matched
    BY <1>3 DEF MadeJob
<1> QED
    BY <1>1, <1>4, <1>5, JobUpdated

(* LinkAccount marks the job with the account the sync refreshed. *)
LEMMA JobLinked ==
    ASSUME JobsOK, PullsOK, NEW j \in DOMAIN pulls, LinkAccount(j)
    PROVE /\ JobsOK' /\ JobsBut(j)
          /\ j \in DOMAIN jobs => /\ jobs'[j].status = jobs[j].status /\ jobs'[j].ft = jobs[j].ft
                                  /\ jobs'[j].matched = pulls[j].target
<1> DEFINE job == [jobs[j] EXCEPT !.matched = pulls[j].target]
<1>1. pulls[j].target \in AccountIds
    BY DEF LinkAccount, At, PullsOK, Progress
<1>2. j \in DOMAIN jobs => jobs[j] \in Job
    BY DEF JobsOK, Typed
<1>3. j \in DOMAIN jobs => MadeJob(job, jobs[j].status, jobs[j].ft, pulls[j].target)
    BY <1>1, <1>2, JobTypes
<1>4. jobs' = Update(j, job)
    BY DEF LinkAccount
<1> HIDE DEF job
<1>5. j \in DOMAIN jobs => /\ job \in Job /\ job.ft = jobs[j].ft
                          /\ job.status = jobs[j].status /\ job.matched = pulls[j].target
    BY <1>3 DEF MadeJob
<1>6. j \in DOMAIN jobs => (jobs[j].status = "done" => jobs[j].ft \in FtIds)
    BY DEF JobsOK, DoneKnown
<1> QED
    BY <1>4, <1>5, <1>6, JobUpdated

(* A tick ages the jobs and changes nothing else of them. *)
LEMMA JobsTicked ==
    ASSUME JobsOK, Tick
    PROVE /\ JobsOK'
          /\ DOMAIN jobs' = DOMAIN jobs
          /\ \A i \in DOMAIN jobs : /\ jobs'[i].status = jobs[i].status /\ jobs'[i].ft = jobs[i].ft
                                    /\ jobs'[i].matched = jobs[i].matched
<1>1. Ttl \in Nat /\ Stuck \in Nat
    BY SyncAssumption DEF Stuck
<1>2. DOMAIN jobs' = DOMAIN jobs /\ jobs' = [i \in DOMAIN jobs |-> jobs'[i]]
    BY DEF Tick
<1>3. ASSUME NEW i \in DOMAIN jobs
      PROVE /\ jobs'[i] \in Job
            /\ jobs'[i].status = jobs[i].status /\ jobs'[i].ft = jobs[i].ft
            /\ jobs'[i].matched = jobs[i].matched
    <2> DEFINE n == Older(jobs[i].age, Stuck + 1)
               e == IF Running(i) THEN jobs[i].ended ELSE Older(jobs[i].ended, Ttl + 1)
    <2>1. jobs[i] \in Job
        BY DEF JobsOK, Typed
    <2>2. n \in 0 .. Stuck + 1 /\ e \in 0 .. Ttl + 1
        BY <1>1, <2>1 DEF Job, Older
    <2>3. jobs'[i] = [jobs[i] EXCEPT !.age = n, !.ended = e]
        BY <2>1 DEF Tick, Job
    <2> HIDE DEF n, e
    <2> QED
        BY <2>1, <2>2, <2>3 DEF Job
<1> QED
    BY <1>2, <1>3 DEF JobsOK, Typed, DoneKnown

(* Types are kept by every step. *)
LEMMA TypesStep ==
    ASSUME Types, [Next]_vars
    PROVE Types'
<1>1. ASSUME NEW j \in JobIds, NEW k \in Keys \cup {NoKey}, Callback(j, k) PROVE Types'
    <2>1. Create(j, k)
        BY <1>1 DEF Callback
    <2>2. JobsOK'
        BY <2>1, JobCreated DEF Types
    <2>3. PullsOK'
        BY <1>1, CallbackPull
    <2> QED
        BY <1>1, <2>2, <2>3 DEF Callback, Types
<1>2. ASSUME NEW j \in JobIds, At(j, "check"), PreCheck(j) PROVE Types'
    <2>1. j \in DOMAIN pulls
        BY <1>2 DEF At
    <2>2. CASE jobs' = Failed(j) /\ pulls' = Drop(pulls, {j})
        <3>1. JobsOK' /\ PullsOK'
            BY <2>2, JobFailed, PullEnded DEF Types
        <3> QED
            BY <1>2, <3>1 DEF PreCheck, Types
    <2>3. CASE pulls' = [pulls EXCEPT ![j].pc = "me"] /\ UNCHANGED jobs
        <3>1. PullsOK'
            BY <2>1, <2>3, PullGoes DEF Types, Goto, Late
        <3>2. JobsOK'
            BY <2>3, Same DEF Types
        <3> QED
            BY <1>2, <3>1, <3>2 DEF PreCheck, Types
    <2> QED
        BY <1>2, <2>2, <2>3 DEF PreCheck
<1>3. ASSUME NEW j \in JobIds, FailEarly(j) PROVE Types'
    <2>1. JobsOK' /\ PullsOK'
        BY <1>3, JobFailed, PullEnded DEF FailEarly, End, Types
    <2> QED
        BY <1>3, <2>1 DEF FailEarly, Types
<1>4. ASSUME NEW j \in JobIds, Reserve(j) PROVE Types'
    <2>1. PICK f \in FtIds :
              /\ slots' = Put(slots, f, 0)
              /\ pulls' = [pulls EXCEPT ![j].pc = "fetch", ![j].ft = f]
              /\ fetches' = Put(fetches, j, [ft |-> f, age |-> 0, robbed |-> FALSE, killed |-> FALSE])
              /\ leaked' = leaked \ {f}
        BY <1>4 DEF Reserve
    <2>2. j \in DOMAIN pulls /\ UNCHANGED <<jobs, claimed, accounts>>
        BY <1>4 DEF Reserve, At
    <2>3. PullsOK' /\ JobsOK'
        BY <2>1, <2>2, PullReserves, Same DEF Types
    <2>4. 0 \in 0 .. Cooldown + 1 /\ [ft |-> f, age |-> 0, robbed |-> FALSE, killed |-> FALSE] \in Fetch
        BY SyncAssumption DEF Fetch
    <2>5. Typed(slots', FtIds, 0 .. Cooldown + 1) /\ Typed(fetches', JobIds, Fetch)
        BY <2>1, <2>4, PutTyped DEF Types
    <2> QED
        BY <2>1, <2>2, <2>3, <2>5 DEF Types
<1>5. ASSUME NEW j \in JobIds, FetchFails(j) \/ WrongIdentity(j) \/ UpdateFails(j) PROVE Types'
    <2>1. j \in DOMAIN pulls /\ pulls[j].pc \in Late /\ FailLate(j)
        BY <1>5 DEF FetchFails, WrongIdentity, UpdateFails, At, Late
    <2>2. Typed(accounts', AccountIds, Account)
        BY <1>5, <2>1, DataTyped DEF FetchFails, WrongIdentity, UpdateFails, At, Types
    <2> QED
        BY <2>1, <2>2, FailLateTyped
<1>6. ASSUME NEW j \in JobIds, Fetched(j) PROVE Types'
    <2>1. j \in DOMAIN pulls /\ pulls[j].ft \in FtIds /\ pulls[j].claim \in AccountIds \cup {NoAccount}
        BY <1>6 DEF Fetched, At, Types, PullsOK, Progress, Late, Typed, Pull
    <2>2. CASE Goto(j, "lookup")
        BY <1>6, <2>1, <2>2, PullGoes, Same DEF Fetched, Types
    <2>3. CASE pulls[j].claim # NoAccount /\ pulls' = [pulls EXCEPT ![j].pc = "update", ![j].target = pulls[j].claim]
        BY <1>6, <2>1, <2>3, PullTargets, Same DEF Fetched, Types
    <2> QED
        BY <1>6, <2>2, <2>3 DEF Fetched
<1>7. ASSUME NEW j \in JobIds, Lookup(j) PROVE Types'
    <2>1. j \in DOMAIN pulls /\ pulls[j].ft \in FtIds
        BY <1>7 DEF Lookup, At, Types, PullsOK, Progress, Late
    <2>2. CASE Goto(j, "finish")
        BY <1>7, <2>1, <2>2, PullGoes, Same DEF Lookup, Types
    <2>3. ASSUME NEW a \in DOMAIN accounts,
                 pulls' = [pulls EXCEPT ![j].pc = "update", ![j].target = a] PROVE Types'
        <3>1. a \in AccountIds
            BY DEF Types, Typed
        <3> QED
            BY <1>7, <2>1, <2>3, <3>1, PullTargets, Same DEF Lookup, Types
    <2> QED
        BY <1>7, <2>2, <2>3 DEF Lookup
<1>8. ASSUME NEW j \in JobIds, UpdateSnapshot(j) PROVE Types'
    <2>1. j \in DOMAIN pulls /\ pulls[j].ft \in FtIds /\ pulls[j].target \in AccountIds
        BY <1>8 DEF UpdateSnapshot, At, Types, PullsOK, Progress, Late
    <2>2. PullsOK' /\ JobsOK'
        BY <1>8, <2>1, PullGoes, Same DEF UpdateSnapshot, Types
    <2>3. Typed(accounts', AccountIds, Account)
        BY <1>8, <2>1, DataTyped DEF UpdateSnapshot, At
    <2> QED
        BY <1>8, <2>2, <2>3 DEF UpdateSnapshot, Types
<1>9. ASSUME NEW j \in JobIds, LinkAccount(j) PROVE Types'
    <2>1. j \in DOMAIN pulls /\ pulls[j].ft \in FtIds
        BY <1>9 DEF LinkAccount, At, Types, PullsOK, Progress, Late
    <2>2. PullsOK' /\ JobsOK'
        BY <1>9, <2>1, PullGoes, JobLinked DEF LinkAccount, Types
    <2> QED
        BY <1>9, <2>2 DEF LinkAccount, Types
<1>10. ASSUME NEW j \in JobIds, Finish(j) PROVE Types'
    <2>1. j \in DOMAIN pulls
        BY <1>10 DEF Finish, At
    <2>2. PullsOK' /\ JobsOK'
        BY <1>10, <2>1, PullEnded, JobFinished DEF Finish, End, Types
    <2> QED
        BY <1>10, <2>2 DEF Finish, Types
<1>11. ASSUME NEW j \in JobIds, Release(j) PROVE Types'
    <2>1. pulls[j].ft \in FtIds
        BY <1>11 DEF Release, At, Types, PullsOK, Progress, Late
    <2>2. PullsOK' /\ JobsOK'
        BY <1>11, PullEnded, Same DEF Release, End, Types
    <2>3. Typed(slots', FtIds, 0 .. Cooldown + 1)
        BY <1>11, DropTyped DEF Release, Types
    <2>4. Typed(fetches', JobIds, Fetch)
        <3>1. CASE UNCHANGED fetches
            BY <3>1 DEF Types
        <3>2. CASE fetches' = [i \in DOMAIN fetches |-> IF fetches[i].ft = pulls[j].ft
                                 THEN [fetches[i] EXCEPT !.robbed = TRUE] ELSE fetches[i]]
            BY <3>2 DEF Types, Typed, Fetch
        <3> QED
            BY <1>11, <3>1, <3>2 DEF Release
    <2> QED
        BY <1>11, <2>1, <2>2, <2>3, <2>4 DEF Release, Types
<1>12. ASSUME NEW j \in JobIds, Signup(j) PROVE Types'
    <2>1. PICK a \in AccountIds : accounts' = Put(accounts, a, [ft |-> jobs[j].ft, data |-> jobs[j].ft])
        BY <1>12 DEF Signup
    <2>2. [ft |-> jobs[j].ft, data |-> jobs[j].ft] \in Account
        BY <1>12 DEF Signup, Types, JobsOK, DoneKnown, Account
    <2>3. Typed(accounts', AccountIds, Account)
        BY <2>1, <2>2, PutTyped DEF Types
    <2> QED
        BY <1>12, <2>3, Same DEF Signup, Types
<1>13. ASSUME NEW j \in JobIds, SyncSignin(j) PROVE Types'
    BY <1>13, Same DEF SyncSignin, Types
<1>14. ASSUME NEW j \in JobIds, DeleteJob(j) PROVE Types'
    <2>1. JobsOK' /\ PullsOK'
        BY <1>14, JobsDropped, Same DEF DeleteJob, Types
    <2> QED
        BY <1>14, <2>1 DEF DeleteJob, Types
<1>15. CASE Sweep
    <2>1. JobsOK' /\ PullsOK'
        BY <1>15, JobsDropped, Same DEF Sweep, Types
    <2> QED
        BY <1>15, <2>1 DEF Sweep, Types
<1>16. CASE DeleteAccount
    <2>1. Typed(accounts', AccountIds, Account)
        BY <1>16, DropTyped DEF DeleteAccount, Types
    <2> QED
        BY <1>16, <2>1, Same DEF DeleteAccount, Types
<1>17. CASE PurgeStaleCooldowns
    <2>1. Typed(slots', FtIds, 0 .. Cooldown + 1)
        BY <1>17, DropTyped DEF PurgeStaleCooldowns, Types
    <2> QED
        BY <1>17, <2>1, Same DEF PurgeStaleCooldowns, Types
<1>18. CASE Tick
    <2>1. JobsOK' /\ PullsOK'
        BY <1>18, JobsTicked, Same DEF Tick, Types
    <2>2. Typed(slots', FtIds, 0 .. Cooldown + 1)
        <3>1. ASSUME NEW f \in DOMAIN slots PROVE Older(slots[f], Cooldown + 1) \in 0 .. Cooldown + 1
            <4>1. slots[f] \in 0 .. Cooldown + 1
                BY DEF Types, Typed
            <4> QED
                BY <4>1, SyncAssumption DEF Older
        <3>2. slots' = [f \in DOMAIN slots |-> Older(slots[f], Cooldown + 1)]
            BY <1>18 DEF Tick
        <3> QED
            BY <3>1, <3>2 DEF Types, Typed
    <2>3. Typed(fetches', JobIds, Fetch)
        <3> DEFINE Recent == {j \in DOMAIN fetches : fetches[j].age + 1 < Cooldown}
        <3>1. ASSUME NEW j \in Recent PROVE [fetches[j] EXCEPT !.age = @ + 1] \in Fetch
            <4>1. fetches[j] \in Fetch
                BY DEF Types, Typed
            <4>2. fetches[j].age + 1 \in 0 .. Cooldown
                BY <4>1, SyncAssumption DEF Fetch
            <4> QED
                BY <4>1, <4>2 DEF Fetch
        <3>2. fetches' = [j \in Recent |-> [fetches[j] EXCEPT !.age = @ + 1]]
            BY <1>18 DEF Tick
        <3>3. Recent \subseteq DOMAIN fetches
            OBVIOUS
        <3> HIDE DEF Recent
        <3> QED
            BY <3>1, <3>2, <3>3 DEF Types, Typed
    <2> QED
        BY <1>18, <2>1, <2>2, <2>3 DEF Tick, Types
<1>19. CASE Crash
    <2>1. JobsOK' /\ PullsOK'
        BY <1>19, JobsDropped, PullEnded DEF Crash, Types
    <2>2. leaked' \subseteq FtIds
        BY <1>19 DEF Crash, Types, PullsOK, Typed, Pull
    <2>3. Typed(fetches', JobIds, Fetch)
        BY <1>19 DEF Crash, Types, Typed, Fetch
    <2> QED
        BY <1>19, <2>1, <2>2, <2>3 DEF Crash, Types
<1>21. ASSUME NEW j \in JobIds, ReserveUnanswered(j) PROVE Types'
    <2>1. PICK f \in FtIds : slots' = Put(slots, f, 0) /\ leaked' = leaked \cup {f}
        BY <1>21 DEF ReserveUnanswered
    <2>2. JobsOK' /\ PullsOK'
        BY <1>21, JobFailed, PullEnded DEF ReserveUnanswered, End, Types
    <2>3. 0 \in 0 .. Cooldown + 1
        BY SyncAssumption
    <2>4. Typed(slots', FtIds, 0 .. Cooldown + 1)
        BY <2>1, <2>3, PutTyped DEF Types
    <2> QED
        BY <1>21, <2>1, <2>2, <2>4 DEF ReserveUnanswered, Types
<1>20. CASE UNCHANGED vars
    BY <1>20, Same DEF vars, Types
<1> QED
    BY <1>1, <1>2, <1>3, <1>4, <1>5, <1>6, <1>7, <1>8, <1>9, <1>10, <1>11, <1>12, <1>13,
       <1>14, <1>15, <1>16, <1>17, <1>18, <1>19, <1>20, <1>21 DEF Next, PullStep

(* Nothing is under way at first. *)
LEMMA TypesInit == Init => Types
BY DEF Init, Types, JobsOK, PullsOK, DoneKnown, Progress, Typed

(* TypeOK of every reachable state: the registry, the syncs and the tables only hold
   values of their types, and a sync never uses a user or an account it has not got. *)
THEOREM SyncTypes == Spec => []TypeOK
<1>1. Types => TypeOK
    BY DEF Types, TypeOK, JobsOK, PullsOK, Typed
<1> QED
    BY <1>1, TypesInit, TypesStep, PTL DEF Spec

-----------------------------------------------------------------------------
(* Whose data lands where.  A job runs exactly while its sync holds on to  *)
(* it; the account a sync asked for, the one it refreshes and the one its  *)
(* job is matched to are, as long as they exist, those of the user it      *)
(* expects, has fetched, and leaves in the job.                            *)

UnderWay == \A j \in DOMAIN jobs : Running(j) <=> j \in DOMAIN pulls /\ pulls[j].pc # "release"

ClaimKnown ==
    \A j \in DOMAIN pulls :
        pulls[j].claim \in DOMAIN accounts => accounts[pulls[j].claim].ft = pulls[j].expect

TargetKnown ==
    \A j \in DOMAIN pulls :
        pulls[j].pc \in {"update", "link"} /\ pulls[j].target \in DOMAIN accounts
            => accounts[pulls[j].target].ft = pulls[j].ft

\* A job is matched by the last step but one of its sync, and a failed one never is.
MatchedLast ==
    \A j \in DOMAIN jobs :
        jobs[j].matched # NoAccount =>
            \/ jobs[j].status = "done"
            \/ j \in DOMAIN pulls /\ pulls[j].pc = "finish"

Owned == SnapshotIsOwn /\ UnderWay /\ ClaimKnown /\ TargetKnown /\ MatchedLast /\ MatchedIsOwn

(* A sync that has not finished goes on: no job is matched to anything new. *)
LEMMA OwnedGoes ==
    ASSUME Types, Owned, NEW j \in DOMAIN pulls, pulls[j].pc \notin {"finish", "release"},
           NEW pc, NEW f, NEW a, Moved(pulls'[j], pulls[j], pc, f, a), PullsBut(j),
           pc # "release",
           pc \in {"update", "link"} /\ a \in DOMAIN accounts => accounts[a].ft = f,
           UNCHANGED jobs,
           DOMAIN accounts' = DOMAIN accounts,
           \A b \in DOMAIN accounts : accounts'[b].ft = accounts[b].ft,
           SnapshotIsOwn'
    PROVE Owned'
<1>1. UnderWay'
    BY DEF Owned, UnderWay, Running, Moved, PullsBut
<1>2. ClaimKnown'
    BY DEF Owned, ClaimKnown, Moved, PullsBut
<1>3. TargetKnown'
    BY DEF Owned, TargetKnown, Moved, PullsBut
<1>4. ASSUME NEW i \in DOMAIN jobs, jobs[i].matched # NoAccount, Running(i) PROVE i # j
    BY <1>4 DEF Owned, MatchedLast, Running
<1>5. ASSUME NEW i \in DOMAIN jobs, jobs[i].matched # NoAccount, ~Running(i) PROVE i # j
    BY <1>5 DEF Owned, UnderWay
<1>6. MatchedLast'
    BY <1>4, <1>5 DEF Owned, MatchedLast, PullsBut
<1>7. NoAccount \notin DOMAIN accounts
    BY SyncAssumption DEF Types, Typed
<1>8. \A i \in DOMAIN jobs : Running(i) => i \in DOMAIN pulls
    BY DEF Owned, UnderWay
<1>9. MatchedIsOwn'
    BY <1>4, <1>5, <1>7, <1>8 DEF Owned, MatchedIsOwn, PullsBut, Running
<1> QED
    BY <1>1, <1>2, <1>3, <1>6, <1>9 DEF Owned

(* A sync that has not finished fails. *)
LEMMA OwnedFails ==
    ASSUME Types, Owned, NEW j \in DOMAIN pulls, pulls[j].pc \notin {"finish", "release"},
           jobs' = Failed(j),
           DOMAIN pulls' \subseteq DOMAIN pulls,
           \A i \in DOMAIN pulls \ {j} : i \in DOMAIN pulls' /\ pulls'[i] = pulls[i],
           j \in DOMAIN pulls' => Moved(pulls'[j], pulls[j], "release", pulls[j].ft, pulls[j].target),
           DOMAIN accounts' = DOMAIN accounts,
           \A b \in DOMAIN accounts : accounts'[b].ft = accounts[b].ft,
           SnapshotIsOwn'
    PROVE Owned'
<1>1. /\ JobsBut(j)
      /\ j \in DOMAIN jobs => jobs'[j].status = "error" /\ jobs'[j].matched = jobs[j].matched
    BY JobFailed DEF Types
<1>2. UnderWay'
    BY <1>1 DEF Owned, UnderWay, Running, Moved, JobsBut
<1>3. ClaimKnown' /\ TargetKnown' /\ SnapshotIsOwn'
    BY DEF Owned, ClaimKnown, TargetKnown, SnapshotIsOwn, Moved
<1>4. j \in DOMAIN jobs => jobs[j].matched = NoAccount
    BY DEF Owned, MatchedLast, UnderWay, Running
<1>5. MatchedLast'
    BY <1>1, <1>4 DEF Owned, MatchedLast, JobsBut
<1>6. NoAccount \notin DOMAIN accounts
    BY SyncAssumption DEF Types, Typed
<1>7. \A i \in DOMAIN jobs : Running(i) => i \in DOMAIN pulls
    BY DEF Owned, UnderWay
<1>8. MatchedIsOwn'
    BY <1>1, <1>4, <1>6, <1>7 DEF Owned, MatchedIsOwn, JobsBut, Running
<1> QED
    BY <1>2, <1>3, <1>5, <1>8 DEF Owned

(* Jobs leave the map, or are only used up: nothing is matched anew. *)
LEMMA OwnedDrops ==
    ASSUME Owned, UNCHANGED <<pulls, accounts>>,
           DOMAIN jobs' \subseteq DOMAIN jobs,
           \A i \in DOMAIN jobs' : /\ jobs'[i].status = jobs[i].status
                                   /\ jobs'[i].ft = jobs[i].ft /\ jobs'[i].matched = jobs[i].matched
    PROVE Owned'
<1>1. UnderWay' /\ MatchedLast' /\ MatchedIsOwn'
    BY DEF Owned, UnderWay, MatchedLast, MatchedIsOwn, Running
<1>2. ClaimKnown' /\ TargetKnown' /\ SnapshotIsOwn'
    BY DEF Owned, ClaimKnown, TargetKnown, SnapshotIsOwn
<1> QED
    BY <1>1, <1>2 DEF Owned

(* Every step keeps data with its owner. *)
LEMMA OwnedStep ==
    ASSUME Types, Owned, [Next]_vars
    PROVE Owned'
<1> USE DEF Types
<1>0. /\ NoAccount \notin DOMAIN accounts
      /\ \A i \in DOMAIN jobs : Running(i) => i \in DOMAIN pulls
    BY SyncAssumption DEF Typed, Owned, UnderWay
<1>1. ASSUME NEW j \in JobIds, NEW k \in Keys \cup {NoKey}, Callback(j, k) PROVE Owned'
    <2>1. /\ Create(j, k) /\ j \notin DOMAIN jobs /\ j \notin DOMAIN pulls
          /\ UNCHANGED accounts
        BY <1>1 DEF Callback, Create, FreshJob
    <2>2. /\ j \in DOMAIN jobs'
          /\ jobs'[j].status = "running" /\ jobs'[j].matched = NoAccount
          /\ \A i \in DOMAIN jobs' \ {j} : i \in DOMAIN jobs /\ jobs'[i] = jobs[i]
        BY <2>1, JobCreated
    <2>3. /\ DOMAIN pulls' = DOMAIN pulls \cup {j}
          /\ \A i \in DOMAIN pulls \ {j} : pulls'[i] = pulls[i]
          /\ pulls'[j].pc \in {"check", "me"}
          /\ pulls'[j].claim \in DOMAIN accounts => pulls'[j].expect = accounts[pulls'[j].claim].ft
        BY <1>1, CallbackPull
    <2>4. UnderWay'
        BY <2>1, <2>2, <2>3 DEF Owned, UnderWay, Running
    <2>5. ClaimKnown' /\ TargetKnown' /\ SnapshotIsOwn'
        BY <2>1, <2>3 DEF Owned, ClaimKnown, TargetKnown, SnapshotIsOwn
    <2>6. MatchedLast'
        BY <2>1, <2>2, <2>3 DEF Owned, MatchedLast
    <2>7. MatchedIsOwn'
        BY <1>0, <2>1, <2>2, <2>3 DEF Owned, MatchedIsOwn, Running
    <2> QED
        BY <2>4, <2>5, <2>6, <2>7 DEF Owned
<1>2. ASSUME NEW j \in JobIds, At(j, "check"), PreCheck(j) PROVE Owned'
    <2>1. j \in DOMAIN pulls /\ pulls[j].pc = "check" /\ UNCHANGED accounts
        BY <1>2 DEF At, PreCheck
    <2>2. CASE jobs' = Failed(j) /\ pulls' = Drop(pulls, {j})
        <3>1. DOMAIN pulls' = DOMAIN pulls \ {j} /\ \A i \in DOMAIN pulls' : pulls'[i] = pulls[i]
            BY <2>2, PullEnded
        <3> QED
            BY <2>1, <2>2, <3>1, OwnedFails DEF Owned, SnapshotIsOwn
    <2>3. CASE pulls' = [pulls EXCEPT ![j].pc = "me"] /\ UNCHANGED jobs
        <3>1. PullsBut(j) /\ Moved(pulls'[j], pulls[j], "me", pulls[j].ft, pulls[j].target)
            BY <2>1, <2>3, PullGoes DEF Goto, Late
        <3>2. SnapshotIsOwn'
            BY <2>1 DEF Owned, SnapshotIsOwn
        <3> QED
            BY <2>1, <2>3, <3>1, <3>2, OwnedGoes
    <2> QED
        BY <1>2, <2>2, <2>3 DEF PreCheck
<1>3. ASSUME NEW j \in JobIds, FailEarly(j) \/ ReserveUnanswered(j) PROVE Owned'
    <2>1. /\ j \in DOMAIN pulls /\ pulls[j].pc = "me" /\ UNCHANGED accounts
          /\ jobs' = Failed(j) /\ pulls' = Drop(pulls, {j})
        BY <1>3 DEF At, FailEarly, ReserveUnanswered, End
    <2>2. DOMAIN pulls' = DOMAIN pulls \ {j} /\ \A i \in DOMAIN pulls' : pulls'[i] = pulls[i]
        BY <2>1, PullEnded
    <2> QED
        BY <2>1, <2>2, OwnedFails DEF Owned, SnapshotIsOwn
<1>4. ASSUME NEW j \in JobIds, Reserve(j) PROVE Owned'
    <2>1. PICK f \in FtIds : pulls' = [pulls EXCEPT ![j].pc = "fetch", ![j].ft = f]
        BY <1>4 DEF Reserve
    <2>2. j \in DOMAIN pulls /\ pulls[j].pc = "me" /\ UNCHANGED <<jobs, accounts>>
        BY <1>4 DEF Reserve, At
    <2>3. PullsBut(j) /\ Moved(pulls'[j], pulls[j], "fetch", f, pulls[j].target)
        BY <2>1, <2>2, PullReserves
    <2>4. SnapshotIsOwn'
        BY <2>2 DEF Owned, SnapshotIsOwn
    <2> QED
        BY <2>2, <2>3, <2>4, OwnedGoes
<1>5. ASSUME NEW j \in JobIds, FetchFails(j) \/ WrongIdentity(j) \/ UpdateFails(j) PROVE Owned'
    <2>1. /\ j \in DOMAIN pulls /\ pulls[j].pc \in {"fetch", "update"}
          /\ jobs' = Failed(j) /\ Goto(j, "release")
          /\ UNCHANGED accounts \/ (pulls[j].pc = "update" /\ WriteData(j))
        BY <1>5 DEF FetchFails, WrongIdentity, UpdateFails, At, FailLate
    <2>2. pulls[j].ft \in FtIds
        BY <2>1 DEF PullsOK, Progress, Late
    <2>3. PullsBut(j) /\ Moved(pulls'[j], pulls[j], "release", pulls[j].ft, pulls[j].target)
        BY <2>1, <2>2, PullGoes
    <2>4. /\ DOMAIN accounts' = DOMAIN accounts
          /\ \A b \in DOMAIN accounts : accounts'[b].ft = accounts[b].ft
          /\ SnapshotIsOwn'
        BY <2>1, DataTyped DEF Owned, TargetKnown, SnapshotIsOwn
    <2> QED
        BY <2>1, <2>3, <2>4, OwnedFails DEF PullsBut
<1>6. ASSUME NEW j \in JobIds, Fetched(j) PROVE Owned'
    <2>1. /\ j \in DOMAIN pulls /\ pulls[j].pc = "fetch" /\ UNCHANGED <<jobs, accounts>>
          /\ pulls[j].ft \in FtIds /\ pulls[j].claim \in AccountIds \cup {NoAccount}
        BY <1>6 DEF Fetched, At, PullsOK, Progress, Late, Typed, Pull
    <2>2. SnapshotIsOwn'
        BY <2>1 DEF Owned, SnapshotIsOwn
    <2>3. CASE Goto(j, "lookup")
        <3>1. PullsBut(j) /\ Moved(pulls'[j], pulls[j], "lookup", pulls[j].ft, pulls[j].target)
            BY <2>1, <2>3, PullGoes
        <3> QED
            BY <2>1, <2>2, <3>1, OwnedGoes
    <2>4. CASE /\ pulls[j].claim # NoAccount /\ pulls[j].ft = pulls[j].expect
               /\ pulls' = [pulls EXCEPT ![j].pc = "update", ![j].target = pulls[j].claim]
        <3>1. PullsBut(j) /\ Moved(pulls'[j], pulls[j], "update", pulls[j].ft, pulls[j].claim)
            BY <2>1, <2>4, PullTargets
        <3>2. pulls[j].claim \in DOMAIN accounts => accounts[pulls[j].claim].ft = pulls[j].ft
            BY <2>1, <2>4 DEF Owned, ClaimKnown
        <3> QED
            BY <2>1, <2>2, <3>1, <3>2, OwnedGoes
    <2> QED
        BY <1>6, <2>3, <2>4 DEF Fetched
<1>7. ASSUME NEW j \in JobIds, Lookup(j) PROVE Owned'
    <2>1. /\ j \in DOMAIN pulls /\ pulls[j].pc = "lookup" /\ UNCHANGED <<jobs, accounts>>
          /\ pulls[j].ft \in FtIds
        BY <1>7 DEF Lookup, At, PullsOK, Progress, Late
    <2>2. SnapshotIsOwn'
        BY <2>1 DEF Owned, SnapshotIsOwn
    <2>3. CASE Goto(j, "finish")
        <3>1. PullsBut(j) /\ Moved(pulls'[j], pulls[j], "finish", pulls[j].ft, pulls[j].target)
            BY <2>1, <2>3, PullGoes
        <3> QED
            BY <2>1, <2>2, <3>1, OwnedGoes
    <2>4. ASSUME NEW a \in DOMAIN accounts, accounts[a].ft = pulls[j].ft,
                 pulls' = [pulls EXCEPT ![j].pc = "update", ![j].target = a] PROVE Owned'
        <3>1. a \in AccountIds
            BY DEF Typed
        <3>2. PullsBut(j) /\ Moved(pulls'[j], pulls[j], "update", pulls[j].ft, a)
            BY <2>1, <2>4, <3>1, PullTargets
        <3> QED
            BY <2>1, <2>2, <2>4, <3>2, OwnedGoes
    <2> QED
        BY <1>7, <2>3, <2>4 DEF Lookup
<1>8. ASSUME NEW j \in JobIds, UpdateSnapshot(j) PROVE Owned'
    <2>1. /\ j \in DOMAIN pulls /\ pulls[j].pc = "update" /\ UNCHANGED jobs
          /\ pulls[j].ft \in FtIds /\ pulls[j].target \in AccountIds
        BY <1>8 DEF UpdateSnapshot, At, PullsOK, Progress, Late
    <2>2. pulls[j].target \in DOMAIN accounts => accounts[pulls[j].target].ft = pulls[j].ft
        BY <2>1 DEF Owned, TargetKnown
    <2>3. PICK pc \in {"link", "finish"} :
              PullsBut(j) /\ Moved(pulls'[j], pulls[j], pc, pulls[j].ft, pulls[j].target)
        BY <1>8, <2>1, PullGoes DEF UpdateSnapshot
    <2>4. /\ DOMAIN accounts' = DOMAIN accounts
          /\ \A b \in DOMAIN accounts : accounts'[b].ft = accounts[b].ft
          /\ SnapshotIsOwn'
        BY <1>8, <2>1, <2>2, DataTyped DEF UpdateSnapshot, Owned, SnapshotIsOwn
    <2> QED
        BY <2>1, <2>2, <2>3, <2>4, OwnedGoes
<1>9. ASSUME NEW j \in JobIds, LinkAccount(j) PROVE Owned'
    <2>1. /\ j \in DOMAIN pulls /\ pulls[j].pc = "link" /\ UNCHANGED accounts
          /\ pulls[j].ft \in FtIds /\ Goto(j, "finish")
        BY <1>9 DEF LinkAccount, At, PullsOK, Progress, Late
    <2>2. PullsBut(j) /\ Moved(pulls'[j], pulls[j], "finish", pulls[j].ft, pulls[j].target)
        BY <2>1, PullGoes
    <2>3. /\ JobsBut(j)
          /\ j \in DOMAIN jobs => /\ jobs'[j].status = jobs[j].status /\ jobs'[j].ft = jobs[j].ft
                                  /\ jobs'[j].matched = pulls[j].target
        BY <1>9, <2>1, JobLinked
    <2>4. pulls[j].target \in DOMAIN accounts => accounts[pulls[j].target].ft = pulls[j].ft
        BY <2>1 DEF Owned, TargetKnown
    <2>5. UnderWay'
        BY <2>1, <2>2, <2>3 DEF Owned, UnderWay, Running, Moved, JobsBut, PullsBut
    <2>6. ClaimKnown' /\ TargetKnown' /\ SnapshotIsOwn'
        BY <2>1, <2>2 DEF Owned, ClaimKnown, TargetKnown, SnapshotIsOwn, Moved, PullsBut
    <2>7. MatchedLast'
        BY <2>1, <2>2, <2>3 DEF Owned, MatchedLast, Moved, JobsBut, PullsBut
    <2>8. j \in DOMAIN jobs => Running(j)
        BY <2>1 DEF Owned, UnderWay
    <2>9. MatchedIsOwn'
        BY <1>0, <2>1, <2>2, <2>3, <2>4, <2>8
           DEF Owned, MatchedIsOwn, Running, Moved, JobsBut, PullsBut
    <2> QED
        BY <2>5, <2>6, <2>7, <2>9 DEF Owned
<1>10. ASSUME NEW j \in JobIds, Finish(j) PROVE Owned'
    <2>1. /\ j \in DOMAIN pulls /\ pulls[j].pc = "finish" /\ UNCHANGED accounts
          /\ pulls' = Drop(pulls, {j})
        BY <1>10 DEF Finish, At, End
    <2>2. DOMAIN pulls' = DOMAIN pulls \ {j} /\ \A i \in DOMAIN pulls' : pulls'[i] = pulls[i]
        BY <2>1, PullEnded
    <2>3. /\ JobsBut(j)
          /\ j \in DOMAIN jobs => /\ jobs'[j].status = "done" /\ jobs'[j].ft = pulls[j].ft
                                  /\ jobs'[j].matched = jobs[j].matched
        BY <1>10, <2>1, JobFinished
    <2>4. UnderWay' /\ MatchedLast'
        BY <2>2, <2>3 DEF Owned, UnderWay, MatchedLast, Running, JobsBut
    <2>5. ClaimKnown' /\ TargetKnown' /\ SnapshotIsOwn'
        BY <2>1, <2>2 DEF Owned, ClaimKnown, TargetKnown, SnapshotIsOwn
    <2>6. j \in DOMAIN jobs => Running(j)
        BY <2>1 DEF Owned, UnderWay
    <2>7. ASSUME NEW i \in DOMAIN jobs', jobs'[i].matched \in DOMAIN accounts
          PROVE accounts[jobs'[i].matched].ft = IF jobs'[i].status = "running" THEN pulls'[i].ft
                                                ELSE jobs'[i].ft
        <3>1. CASE i = j
            BY <2>1, <2>3, <2>6, <2>7, <3>1 DEF Owned, MatchedIsOwn, JobsBut
        <3>2. CASE i # j
            BY <1>0, <2>2, <2>3, <2>7, <3>2 DEF Owned, MatchedIsOwn, Running, JobsBut
        <3> QED
            BY <3>1, <3>2
    <2>8. MatchedIsOwn'
        BY <2>1, <2>7 DEF MatchedIsOwn, Running
    <2> QED
        BY <2>4, <2>5, <2>8 DEF Owned
<1>11. ASSUME NEW j \in JobIds, Release(j) PROVE Owned'
    <2>1. /\ j \in DOMAIN pulls /\ pulls[j].pc = "release" /\ UNCHANGED <<jobs, accounts>>
          /\ pulls' = Drop(pulls, {j})
        BY <1>11 DEF Release, At, End
    <2>2. DOMAIN pulls' = DOMAIN pulls \ {j} /\ \A i \in DOMAIN pulls' : pulls'[i] = pulls[i]
        BY <2>1, PullEnded
    <2>3. j \in DOMAIN jobs => ~Running(j)
        BY <2>1 DEF Owned, UnderWay
    <2>4. UnderWay' /\ MatchedLast'
        BY <2>1, <2>2, <2>3 DEF Owned, UnderWay, MatchedLast, Running
    <2>5. ClaimKnown' /\ TargetKnown' /\ SnapshotIsOwn'
        BY <2>1, <2>2 DEF Owned, ClaimKnown, TargetKnown, SnapshotIsOwn
    <2>6. MatchedIsOwn'
        BY <1>0, <2>1, <2>2, <2>3 DEF Owned, MatchedIsOwn, Running
    <2> QED
        BY <2>4, <2>5, <2>6 DEF Owned
<1>12. ASSUME NEW j \in JobIds, Signup(j) PROVE Owned'
    <2>1. PICK a \in AccountIds : /\ FreshAccount(a)
                                  /\ accounts' = Put(accounts, a, [ft |-> jobs[j].ft, data |-> jobs[j].ft])
        BY <1>12 DEF Signup
    <2>2. /\ \A b \in DOMAIN accounts : accounts'[b] = accounts[b]
          /\ DOMAIN accounts' = DOMAIN accounts \cup {a}
          /\ accounts'[a].data = accounts'[a].ft
        BY <2>1 DEF Put, FreshAccount
    <2>3. UNCHANGED <<jobs, pulls>>
        BY <1>12 DEF Signup
    <2>4. SnapshotIsOwn' /\ UnderWay' /\ MatchedLast'
        BY <2>2, <2>3 DEF Owned, SnapshotIsOwn, UnderWay, MatchedLast, Running
    <2>5. ClaimKnown' /\ TargetKnown' /\ MatchedIsOwn'
        BY <2>1, <2>2, <2>3 DEF Owned, ClaimKnown, TargetKnown, MatchedIsOwn, Running, FreshAccount
    <2> QED
        BY <2>4, <2>5 DEF Owned
<1>13. ASSUME NEW j \in JobIds, SyncSignin(j) PROVE Owned'
    BY <1>13, OwnedDrops DEF SyncSignin
<1>14. ASSUME NEW j \in JobIds, DeleteJob(j) PROVE Owned'
    <2>1. DOMAIN jobs' = DOMAIN jobs \ {j} /\ \A i \in DOMAIN jobs' : jobs'[i] = jobs[i]
        BY <1>14, JobsDropped DEF DeleteJob
    <2> QED
        BY <1>14, <2>1, OwnedDrops DEF DeleteJob
<1>15. CASE Sweep
    <2>1. PICK S : jobs' = Drop(jobs, S)
        BY <1>15 DEF Sweep
    <2>2. DOMAIN jobs' = DOMAIN jobs \ S /\ \A i \in DOMAIN jobs' : jobs'[i] = jobs[i]
        BY <2>1, JobsDropped
    <2> QED
        BY <1>15, <2>2, OwnedDrops DEF Sweep
<1>16. CASE DeleteAccount
    <2>1. /\ UNCHANGED <<jobs, pulls>>
          /\ DOMAIN accounts' \subseteq DOMAIN accounts
          /\ \A b \in DOMAIN accounts' : accounts'[b] = accounts[b]
        BY <1>16 DEF DeleteAccount, Drop, Restrict
    <2>2. SnapshotIsOwn' /\ UnderWay' /\ MatchedLast'
        BY <2>1 DEF Owned, SnapshotIsOwn, UnderWay, MatchedLast, Running
    <2>3. ClaimKnown' /\ TargetKnown' /\ MatchedIsOwn'
        BY <2>1 DEF Owned, ClaimKnown, TargetKnown, MatchedIsOwn, Running
    <2> QED
        BY <2>2, <2>3 DEF Owned
<1>17. CASE PurgeStaleCooldowns
    BY <1>17, OwnedDrops DEF PurgeStaleCooldowns
<1>18. CASE Tick
    BY <1>18, JobsTicked, OwnedDrops DEF Tick
<1>19. CASE Crash
    <2>1. DOMAIN jobs' = {} /\ DOMAIN pulls' = {} /\ UNCHANGED accounts
        BY <1>19 DEF Crash, Drop, Restrict, JobsOK, PullsOK, Typed
    <2> QED
        BY <2>1 DEF Owned, SnapshotIsOwn, UnderWay, ClaimKnown, TargetKnown, MatchedLast, MatchedIsOwn
<1>20. CASE UNCHANGED vars
    BY <1>20, OwnedDrops DEF vars
<1> QED
    BY <1>1, <1>2, <1>3, <1>4, <1>5, <1>6, <1>7, <1>8, <1>9, <1>10, <1>11, <1>12, <1>13,
       <1>14, <1>15, <1>16, <1>17, <1>18, <1>19, <1>20 DEF Next, PullStep

(* SnapshotIsOwn of every reachable state: whatever becomes of accounts, jobs and
   slots meanwhile, a sync writes what it fetched to nobody else's account. *)
THEOREM SnapshotsStayHome == Spec => []SnapshotIsOwn
<1>1. Init => Owned
    BY DEF Init, Owned, SnapshotIsOwn, UnderWay, ClaimKnown, TargetKnown, MatchedLast, MatchedIsOwn
<1>2. Owned => SnapshotIsOwn
    BY DEF Owned
<1> QED
    BY <1>1, <1>2, TypesInit, TypesStep, OwnedStep, PTL DEF Spec

(* MatchedIsOwn of every reachable state: a sync sign-in leads into the account of
   the 42 user who consented, if it still exists. *)
THEOREM SigninIsOwn == Spec => []MatchedIsOwn
<1>1. Init => Owned
    BY DEF Init, Owned, SnapshotIsOwn, UnderWay, ClaimKnown, TargetKnown, MatchedLast, MatchedIsOwn
<1>2. Owned => MatchedIsOwn
    BY DEF Owned
<1> QED
    BY <1>1, <1>2, TypesInit, TypesStep, OwnedStep, PTL DEF Spec

-----------------------------------------------------------------------------
(* The cooldown.  A sync that holds a slot is counted as a fetch of the    *)
(* user it reserved for; a counted fetch whose slot nobody deleted has it  *)
(* still, no older than itself, so that nobody else could reserve.         *)

NotYetCounted == \A j \in DOMAIN pulls : pulls[j].pc \in {"check", "me"} => j \notin DOMAIN fetches

CountedAsOwn == \A j \in DOMAIN pulls \cap DOMAIN fetches : fetches[j].ft = pulls[j].ft

SlotHeld ==
    \A i \in DOMAIN fetches :
        ~fetches[i].robbed =>
            /\ fetches[i].ft \in DOMAIN slots
            /\ slots[fetches[i].ft] <= fetches[i].age /\ fetches[i].age < Cooldown

Earned == NotYetCounted /\ CountedAsOwn /\ SlotHeld /\ CooldownIsEarned /\ RefetchOnlyIfRobbed

(* Slots and counts are left alone, and nobody who is releasing a slot is forgotten. *)
LEMMA EarnedStays ==
    ASSUME Earned, UNCHANGED <<slots, fetches>>, leaked \subseteq leaked',
           \A i \in DOMAIN pulls' :
               \/ i \notin DOMAIN fetches
               \/ /\ i \in DOMAIN pulls /\ pulls'[i].ft = pulls[i].ft
                  /\ pulls'[i].pc \in {"check", "me"} => pulls[i].pc \in {"check", "me"},
           \A i \in DOMAIN pulls :
               pulls[i].pc = "release" => \/ i \in DOMAIN pulls' /\ pulls'[i] = pulls[i]
                                         \/ pulls[i].ft \in leaked'
    PROVE Earned'
<1>1. NotYetCounted' /\ CountedAsOwn'
    BY DEF Earned, NotYetCounted, CountedAsOwn
<1>2. SlotHeld' /\ RefetchOnlyIfRobbed'
    BY DEF Earned, SlotHeld, RefetchOnlyIfRobbed
<1>3. ASSUME NEW f \in DOMAIN slots, Active(f)
      PROVE \/ \E i \in DOMAIN fetches : ~fetches[i].killed /\ fetches[i].ft = f /\ fetches[i].age = slots[f]
            \/ \E i \in DOMAIN pulls' : pulls'[i].pc = "release" /\ pulls'[i].ft = f
            \/ f \in leaked'
    BY <1>3 DEF Earned, CooldownIsEarned, At
<1>4. CooldownIsEarned'
    BY <1>3 DEF CooldownIsEarned, Active, At
<1> QED
    BY <1>1, <1>2, <1>4 DEF Earned

(* A sync moves on, short of a release and not back before its reservation. *)
LEMMA EarnedGoes ==
    ASSUME Earned, NEW j \in DOMAIN pulls, NEW pc, NEW a, PullsBut(j),
           Moved(pulls'[j], pulls[j], pc, pulls[j].ft, a),
           pc = "me" => pulls[j].pc = "check", pc # "check",
           pulls[j].pc # "release",
           UNCHANGED <<slots, fetches, leaked>>
    PROVE Earned'
<1>1. \A i \in DOMAIN pulls' :
          /\ i \in DOMAIN pulls /\ pulls'[i].ft = pulls[i].ft
          /\ pulls'[i].pc \in {"check", "me"} => pulls[i].pc \in {"check", "me"}
    BY DEF PullsBut, Moved
<1>2. \A i \in DOMAIN pulls :
          pulls[i].pc = "release" => i \in DOMAIN pulls' /\ pulls'[i] = pulls[i]
    BY DEF PullsBut
<1> QED
    BY <1>1, <1>2, EarnedStays

(* A sync ends that holds no slot to give back. *)
LEMMA EarnedEnds ==
    ASSUME PullsOK, Earned, NEW j \in DOMAIN pulls, pulls' = Drop(pulls, {j}),
           UNCHANGED <<slots, fetches>>, leaked \subseteq leaked',
           pulls[j].pc = "release" => pulls[j].ft \in leaked'
    PROVE Earned'
<1>1. DOMAIN pulls' = DOMAIN pulls \ {j} /\ \A i \in DOMAIN pulls' : pulls'[i] = pulls[i]
    BY PullEnded
<1>2. \A i \in DOMAIN pulls' :
          /\ i \in DOMAIN pulls /\ pulls'[i].ft = pulls[i].ft
          /\ pulls'[i].pc \in {"check", "me"} => pulls[i].pc \in {"check", "me"}
    BY <1>1
<1>3. \A i \in DOMAIN pulls :
          pulls[i].pc = "release" => \/ i \in DOMAIN pulls' /\ pulls'[i] = pulls[i]
                                    \/ pulls[i].ft \in leaked'
    BY <1>1
<1> QED
    BY <1>2, <1>3, EarnedStays

(* A reservation finds no counted fetch of the user that has its slot still. *)
LEMMA EarnedReserve ==
    ASSUME Types, Earned, NEW j \in JobIds, Reserve(j)
    PROVE Earned'
<1>1. PICK f \in FtIds :
          /\ ~Active(f)
          /\ slots' = Put(slots, f, 0)
          /\ pulls' = [pulls EXCEPT ![j].pc = "fetch", ![j].ft = f]
          /\ fetches' = Put(fetches, j, [ft |-> f, age |-> 0, robbed |-> FALSE, killed |-> FALSE])
          /\ leaked' = leaked \ {f}
    BY DEF Reserve
<1>2. j \in DOMAIN pulls /\ pulls[j].pc = "me" /\ j \notin DOMAIN fetches
    BY DEF Reserve, At, Earned, NotYetCounted
<1>3. PullsBut(j) /\ pulls'[j].pc = "fetch" /\ pulls'[j].ft = f
    BY <1>1, <1>2, PullReserves DEF Types, Moved
<1>4. /\ DOMAIN fetches' = DOMAIN fetches \cup {j}
      /\ fetches'[j].ft = f /\ fetches'[j].age = 0 /\ ~fetches'[j].killed
      /\ \A i \in DOMAIN fetches : fetches'[i] = fetches[i]
    BY <1>1, <1>2 DEF Put
<1>5. /\ DOMAIN slots' = DOMAIN slots \cup {f} /\ slots'[f] = 0
      /\ \A g \in DOMAIN slots \ {f} : slots'[g] = slots[g]
    BY <1>1 DEF Put
<1>6. ASSUME NEW i \in DOMAIN fetches, fetches[i].ft = f PROVE fetches[i].robbed
    <2> SUFFICES ASSUME ~fetches[i].robbed PROVE FALSE
        OBVIOUS
    <2>1. f \in DOMAIN slots /\ slots[f] <= fetches[i].age /\ fetches[i].age < Cooldown
        BY <1>6 DEF Earned, SlotHeld
    <2>2. slots[f] \in Int /\ fetches[i].age \in Int /\ Cooldown \in Int
        BY <2>1, SyncAssumption DEF Types, Typed, Fetch
    <2> QED
        BY <1>1, <2>1, <2>2 DEF Active
<1>7. NotYetCounted'
    BY <1>2, <1>3, <1>4 DEF Earned, NotYetCounted, PullsBut
<1>8. CountedAsOwn'
    BY <1>3, <1>4 DEF Earned, CountedAsOwn, PullsBut
<1>9. SlotHeld'
    BY <1>4, <1>5, <1>6, SyncAssumption DEF Earned, SlotHeld
<1>10. RefetchOnlyIfRobbed'
    BY <1>4, <1>6 DEF Earned, RefetchOnlyIfRobbed
<1>11. ASSUME NEW g \in DOMAIN slots', slots'[g] < Cooldown
       PROVE \/ \E i \in DOMAIN fetches' : ~fetches'[i].killed /\ fetches'[i].ft = g /\ fetches'[i].age = slots'[g]
             \/ \E i \in DOMAIN pulls' : pulls'[i].pc = "release" /\ pulls'[i].ft = g
             \/ g \in leaked'
    <2>1. CASE g = f
        BY <1>4, <1>5, <2>1
    <2>2. CASE g # f
        <3>1. g \in DOMAIN slots /\ Active(g) /\ slots'[g] = slots[g]
            BY <1>5, <1>11, <2>2 DEF Active
        <3>2. \/ \E i \in DOMAIN fetches : ~fetches[i].killed /\ fetches[i].ft = g /\ fetches[i].age = slots[g]
              \/ \E i \in DOMAIN pulls : pulls[i].pc = "release" /\ pulls[i].ft = g
              \/ g \in leaked
            BY <3>1 DEF Earned, CooldownIsEarned, At
        <3> QED
            BY <1>1, <1>2, <1>3, <1>4, <2>2, <3>1, <3>2 DEF PullsBut
    <2> QED
        BY <2>1, <2>2
<1>12. CooldownIsEarned'
    BY <1>11 DEF CooldownIsEarned, Active, At
<1> QED
    BY <1>7, <1>8, <1>9, <1>10, <1>12 DEF Earned

(* A reservation whose answer is lost takes a free slot, counts as no fetch and is not
   given back. *)
LEMMA EarnedUnanswered ==
    ASSUME Types, Earned, NEW j \in JobIds, ReserveUnanswered(j)
    PROVE Earned'
<1>1. PICK f \in FtIds :
          /\ ~Active(f)
          /\ slots' = Put(slots, f, 0)
          /\ leaked' = leaked \cup {f}
    BY DEF ReserveUnanswered
<1>2. j \in DOMAIN pulls /\ pulls[j].pc = "me" /\ UNCHANGED fetches
    BY DEF ReserveUnanswered, At
<1>3. DOMAIN pulls' = DOMAIN pulls \ {j} /\ \A i \in DOMAIN pulls' : pulls'[i] = pulls[i]
    BY PullEnded DEF ReserveUnanswered, End, Types
<1>4. NotYetCounted' /\ CountedAsOwn' /\ RefetchOnlyIfRobbed'
    BY <1>2, <1>3 DEF Earned, NotYetCounted, CountedAsOwn, RefetchOnlyIfRobbed
<1>5. /\ DOMAIN slots' = DOMAIN slots \cup {f} /\ slots'[f] = 0
      /\ \A g \in DOMAIN slots \ {f} : slots'[g] = slots[g]
    BY <1>1 DEF Put
<1>6. ASSUME NEW i \in DOMAIN fetches, fetches[i].ft = f PROVE fetches[i].robbed
    <2> SUFFICES ASSUME ~fetches[i].robbed PROVE FALSE
        OBVIOUS
    <2>1. f \in DOMAIN slots /\ slots[f] <= fetches[i].age /\ fetches[i].age < Cooldown
        BY <1>6 DEF Earned, SlotHeld
    <2>2. slots[f] \in Int /\ fetches[i].age \in Int /\ Cooldown \in Int
        BY <2>1, SyncAssumption DEF Types, Typed, Fetch
    <2> QED
        BY <1>1, <2>1, <2>2 DEF Active
<1>7. SlotHeld'
    BY <1>2, <1>5, <1>6 DEF Earned, SlotHeld
<1>8. ASSUME NEW g \in DOMAIN slots', slots'[g] < Cooldown
      PROVE \/ \E i \in DOMAIN fetches : ~fetches[i].killed /\ fetches[i].ft = g /\ fetches[i].age = slots'[g]
            \/ \E i \in DOMAIN pulls' : pulls'[i].pc = "release" /\ pulls'[i].ft = g
            \/ g \in leaked'
    <2>1. CASE g = f
        BY <1>1, <2>1
    <2>2. CASE g # f
        <3>1. g \in DOMAIN slots /\ Active(g) /\ slots'[g] = slots[g]
            BY <1>5, <1>8, <2>2 DEF Active
        <3>2. \/ \E i \in DOMAIN fetches : ~fetches[i].killed /\ fetches[i].ft = g /\ fetches[i].age = slots[g]
              \/ \E i \in DOMAIN pulls : pulls[i].pc = "release" /\ pulls[i].ft = g
              \/ g \in leaked
            BY <3>1 DEF Earned, CooldownIsEarned, At
        <3> QED
            BY <1>1, <1>2, <1>3, <3>1, <3>2
    <2> QED
        BY <2>1, <2>2
<1>9. CooldownIsEarned'
    BY <1>2, <1>8 DEF CooldownIsEarned, Active, At
<1> QED
    BY <1>4, <1>7, <1>9 DEF Earned

(* A restart forgets the syncs under way: what they had reserved is left behind. *)
LEMMA EarnedCrash ==
    ASSUME Types, Earned, Crash
    PROVE Earned'
<1>1. DOMAIN pulls' = {} /\ UNCHANGED slots
    BY DEF Crash, Drop, Restrict, Types, PullsOK, Typed
<1>2. /\ leaked \subseteq leaked'
      /\ \A i \in DOMAIN pulls : pulls[i].ft \in FtIds => pulls[i].ft \in leaked'
    BY SyncAssumption DEF Crash
<1>3. /\ DOMAIN fetches' = DOMAIN fetches
      /\ \A i \in DOMAIN fetches : /\ fetches'[i].ft = fetches[i].ft
                                   /\ fetches'[i].age = fetches[i].age
                                   /\ fetches'[i].robbed = fetches[i].robbed
                                   /\ i \notin DOMAIN pulls => fetches'[i] = fetches[i]
    BY DEF Crash, Types, Typed, Fetch
<1>4. NotYetCounted' /\ CountedAsOwn'
    BY <1>1 DEF NotYetCounted, CountedAsOwn
<1>5. SlotHeld' /\ RefetchOnlyIfRobbed'
    BY <1>1, <1>3 DEF Earned, SlotHeld, RefetchOnlyIfRobbed
<1>6. ASSUME NEW g \in DOMAIN slots, slots[g] < Cooldown
      PROVE \/ \E i \in DOMAIN fetches' : ~fetches'[i].killed /\ fetches'[i].ft = g /\ fetches'[i].age = slots[g]
            \/ g \in leaked'
    <2>1. \/ \E i \in DOMAIN fetches : ~fetches[i].killed /\ fetches[i].ft = g /\ fetches[i].age = slots[g]
          \/ \E i \in DOMAIN pulls : pulls[i].pc = "release" /\ pulls[i].ft = g
          \/ g \in leaked
        BY <1>6 DEF Earned, CooldownIsEarned, Active, At
    <2>2. ASSUME NEW i \in DOMAIN pulls, i \in DOMAIN fetches, fetches[i].ft = g PROVE g \in leaked'
        <3>1. pulls[i].ft = g /\ g \in FtIds
            BY <2>2 DEF Earned, CountedAsOwn, Types, Typed
        <3> QED
            BY <1>2, <3>1
    <2>3. ASSUME NEW i \in DOMAIN pulls, pulls[i].pc = "release", pulls[i].ft = g PROVE g \in leaked'
        BY <1>2, <2>3 DEF Types, PullsOK, Progress, Late
    <2> QED
        BY <1>2, <1>3, <2>1, <2>2, <2>3
<1>7. CooldownIsEarned'
    BY <1>1, <1>6 DEF CooldownIsEarned, Active
<1> QED
    BY <1>4, <1>5, <1>7 DEF Earned

(* A failure stops counting the fetch, and is about to give back its slot. *)
LEMMA EarnedFailLate ==
    ASSUME Types, Earned, NEW j \in DOMAIN pulls, pulls[j].pc \in {"fetch", "update"}, FailLate(j)
    PROVE Earned'
<1>1. pulls[j].ft \in FtIds
    BY DEF Types, PullsOK, Progress, Late
<1>2. PullsBut(j) /\ pulls'[j].pc = "release" /\ pulls'[j].ft = pulls[j].ft
    BY <1>1, PullGoes DEF FailLate, Types, Moved
<1>3. /\ DOMAIN fetches' = DOMAIN fetches \ {j} /\ \A i \in DOMAIN fetches' : fetches'[i] = fetches[i]
      /\ UNCHANGED <<slots, leaked>>
    BY DEF FailLate, Drop, Restrict
<1>4. NotYetCounted' /\ CountedAsOwn'
    BY <1>2, <1>3 DEF Earned, NotYetCounted, CountedAsOwn, PullsBut
<1>5. SlotHeld' /\ RefetchOnlyIfRobbed'
    BY <1>3 DEF Earned, SlotHeld, RefetchOnlyIfRobbed
<1>6. ASSUME NEW g \in DOMAIN slots, slots[g] < Cooldown
      PROVE \/ \E i \in DOMAIN fetches' : ~fetches'[i].killed /\ fetches'[i].ft = g /\ fetches'[i].age = slots[g]
            \/ \E i \in DOMAIN pulls' : pulls'[i].pc = "release" /\ pulls'[i].ft = g
            \/ g \in leaked
    <2>1. \/ \E i \in DOMAIN fetches : ~fetches[i].killed /\ fetches[i].ft = g /\ fetches[i].age = slots[g]
          \/ \E i \in DOMAIN pulls : pulls[i].pc = "release" /\ pulls[i].ft = g
          \/ g \in leaked
        BY <1>6 DEF Earned, CooldownIsEarned, Active, At
    <2>2. CASE j \in DOMAIN fetches /\ fetches[j].ft = g
        BY <1>2, <2>2 DEF Earned, CountedAsOwn, PullsBut
    <2>3. ASSUME NEW i \in DOMAIN fetches, i # j, ~fetches[i].killed, fetches[i].ft = g, fetches[i].age = slots[g]
          PROVE \E n \in DOMAIN fetches' : ~fetches'[n].killed /\ fetches'[n].ft = g /\ fetches'[n].age = slots[g]
        BY <1>3, <2>3
    <2>4. ASSUME NEW i \in DOMAIN pulls, pulls[i].pc = "release", pulls[i].ft = g
          PROVE \E n \in DOMAIN pulls' : pulls'[n].pc = "release" /\ pulls'[n].ft = g
        BY <1>2, <2>4 DEF PullsBut
    <2> QED
        BY <2>1, <2>2, <2>3, <2>4
<1>7. CooldownIsEarned'
    BY <1>3, <1>6 DEF CooldownIsEarned, Active, At
<1> QED
    BY <1>4, <1>5, <1>7 DEF Earned

(* A release takes the slot of its user from whoever holds it, or is lost. *)
LEMMA EarnedRelease ==
    ASSUME Types, Earned, NEW j \in JobIds, Release(j)
    PROVE Earned'
<1> DEFINE f == pulls[j].ft
<1>1. j \in DOMAIN pulls /\ pulls[j].pc = "release" /\ pulls' = Drop(pulls, {j})
    BY DEF Release, At, End
<1>2. CASE leaked' = leaked \cup {f} /\ UNCHANGED <<slots, fetches>>
    BY <1>1, <1>2, EarnedEnds DEF Types
<1>3. CASE /\ slots' = Drop(slots, {f})
           /\ fetches' = [i \in DOMAIN fetches |->
                            IF fetches[i].ft = f THEN [fetches[i] EXCEPT !.robbed = TRUE]
                                                 ELSE fetches[i]]
           /\ leaked' = leaked \ {f}
    <2>1. DOMAIN pulls' = DOMAIN pulls \ {j} /\ \A i \in DOMAIN pulls' : pulls'[i] = pulls[i]
        BY <1>1, PullEnded DEF Types
    <2>2. DOMAIN slots' = DOMAIN slots \ {f} /\ \A g \in DOMAIN slots' : slots'[g] = slots[g]
        BY <1>3 DEF Drop, Restrict
    <2>3. /\ DOMAIN fetches' = DOMAIN fetches
          /\ \A i \in DOMAIN fetches : /\ fetches'[i].ft = fetches[i].ft
                                       /\ fetches'[i].age = fetches[i].age
                                       /\ fetches'[i].killed = fetches[i].killed
                                       /\ fetches[i].ft = f => fetches'[i].robbed
                                       /\ fetches[i].ft # f => fetches'[i] = fetches[i]
        BY <1>3 DEF Types, Typed, Fetch
    <2>4. NotYetCounted' /\ CountedAsOwn'
        BY <2>1, <2>3 DEF Earned, NotYetCounted, CountedAsOwn
    <2>5. SlotHeld'
        BY <2>2, <2>3 DEF Earned, SlotHeld
    <2>6. RefetchOnlyIfRobbed'
        BY <2>3 DEF Earned, RefetchOnlyIfRobbed
    <2>7. ASSUME NEW g \in DOMAIN slots', slots'[g] < Cooldown
          PROVE \/ \E i \in DOMAIN fetches' : ~fetches'[i].killed /\ fetches'[i].ft = g /\ fetches'[i].age = slots'[g]
                \/ \E i \in DOMAIN pulls' : pulls'[i].pc = "release" /\ pulls'[i].ft = g
                \/ g \in leaked'
        <3>1. g \in DOMAIN slots /\ g # f /\ slots'[g] = slots[g] /\ slots[g] < Cooldown
            BY <2>2, <2>7
        <3>2. \/ \E i \in DOMAIN fetches : ~fetches[i].killed /\ fetches[i].ft = g /\ fetches[i].age = slots[g]
              \/ \E i \in DOMAIN pulls : pulls[i].pc = "release" /\ pulls[i].ft = g
              \/ g \in leaked
            BY <3>1 DEF Earned, CooldownIsEarned, Active, At
        <3> QED
            BY <1>3, <2>1, <2>3, <3>1, <3>2
    <2>8. CooldownIsEarned'
        BY <2>7 DEF CooldownIsEarned, Active, At
    <2> QED
        BY <2>4, <2>5, <2>6, <2>8 DEF Earned
<1> QED
    BY <1>2, <1>3 DEF Release

(* Time passes: slots and counts age together until the cooldown ends. *)
LEMMA EarnedTick ==
    ASSUME Types, Earned, Tick
    PROVE Earned'
<1>1. /\ DOMAIN slots' = DOMAIN slots
      /\ \A g \in DOMAIN slots : /\ slots[g] \in 0 .. Cooldown + 1
                                 /\ slots'[g] = IF slots[g] < Cooldown + 1 THEN slots[g] + 1 ELSE slots[g]
    BY DEF Tick, Types, Typed, Older
<1>2. /\ DOMAIN fetches' = {i \in DOMAIN fetches : fetches[i].age + 1 < Cooldown}
      /\ \A i \in DOMAIN fetches' : /\ fetches'[i].ft = fetches[i].ft
                                    /\ fetches'[i].age = fetches[i].age + 1
                                    /\ fetches'[i].robbed = fetches[i].robbed
                                    /\ fetches'[i].killed = fetches[i].killed
                                    /\ fetches[i].age \in 0 .. Cooldown
    <2> DEFINE Recent == {i \in DOMAIN fetches : fetches[i].age + 1 < Cooldown}
    <2>1. fetches' = [i \in Recent |-> [fetches[i] EXCEPT !.age = @ + 1]]
        BY DEF Tick
    <2>2. \A i \in DOMAIN fetches : fetches[i] \in Fetch
        BY DEF Types, Typed
    <2> QED
        BY <2>1, <2>2 DEF Fetch
<1>3. Cooldown \in Nat /\ UNCHANGED <<pulls, leaked>>
    BY SyncAssumption DEF Tick
<1>4. NotYetCounted' /\ CountedAsOwn' /\ RefetchOnlyIfRobbed'
    BY <1>2, <1>3 DEF Earned, NotYetCounted, CountedAsOwn, RefetchOnlyIfRobbed
<1>5. ASSUME NEW i \in DOMAIN fetches', ~fetches'[i].robbed
      PROVE /\ fetches'[i].ft \in DOMAIN slots'
            /\ slots'[fetches'[i].ft] <= fetches'[i].age /\ fetches'[i].age < Cooldown
    <2>1. /\ i \in DOMAIN fetches /\ fetches[i].age + 1 < Cooldown
          /\ fetches[i].ft \in DOMAIN slots /\ slots[fetches[i].ft] <= fetches[i].age
        BY <1>2, <1>5 DEF Earned, SlotHeld
    <2> QED
        BY <1>1, <1>2, <1>3, <2>1
<1>6. SlotHeld'
    BY <1>5 DEF SlotHeld
<1>7. ASSUME NEW g \in DOMAIN slots', slots'[g] < Cooldown
      PROVE \/ \E i \in DOMAIN fetches' : ~fetches'[i].killed /\ fetches'[i].ft = g /\ fetches'[i].age = slots'[g]
            \/ \E i \in DOMAIN pulls : pulls[i].pc = "release" /\ pulls[i].ft = g
            \/ g \in leaked
    <2>1. g \in DOMAIN slots /\ slots'[g] = slots[g] + 1 /\ slots[g] < Cooldown
        BY <1>1, <1>3, <1>7
    <2>2. \/ \E i \in DOMAIN fetches : ~fetches[i].killed /\ fetches[i].ft = g /\ fetches[i].age = slots[g]
          \/ \E i \in DOMAIN pulls : pulls[i].pc = "release" /\ pulls[i].ft = g
          \/ g \in leaked
        BY <2>1 DEF Earned, CooldownIsEarned, Active, At
    <2>3. ASSUME NEW i \in DOMAIN fetches, ~fetches[i].killed, fetches[i].ft = g, fetches[i].age = slots[g]
          PROVE i \in DOMAIN fetches' /\ ~fetches'[i].killed /\ fetches'[i].ft = g /\ fetches'[i].age = slots'[g]
        BY <1>2, <1>7, <2>1, <2>3
    <2> QED
        BY <2>2, <2>3
<1>8. CooldownIsEarned'
    BY <1>3, <1>7 DEF CooldownIsEarned, Active, At
<1> QED
    BY <1>4, <1>6, <1>8 DEF Earned

(* Every step keeps the cooldown earned and held once. *)
LEMMA EarnedStep ==
    ASSUME Types, Earned, [Next]_vars
    PROVE Earned'
<1> USE DEF Types
<1>1. ASSUME NEW j \in JobIds, NEW k \in Keys \cup {NoKey}, Callback(j, k) PROVE Earned'
    <2>1. /\ j \notin DOMAIN pulls /\ j \notin DOMAIN fetches
          /\ UNCHANGED <<slots, fetches, leaked>>
        BY <1>1 DEF Callback, Create, FreshJob
    <2>2. DOMAIN pulls' = DOMAIN pulls \cup {j} /\ \A i \in DOMAIN pulls \ {j} : pulls'[i] = pulls[i]
        BY <1>1, CallbackPull
    <2>3. \A i \in DOMAIN pulls' :
              \/ i \notin DOMAIN fetches
              \/ i \in DOMAIN pulls /\ pulls'[i] = pulls[i]
        BY <2>1, <2>2
    <2> QED
        BY <2>1, <2>2, <2>3, EarnedStays
<1>2. ASSUME NEW j \in JobIds, At(j, "check"), PreCheck(j) PROVE Earned'
    <2>1. j \in DOMAIN pulls /\ pulls[j].pc = "check" /\ UNCHANGED <<slots, fetches, leaked>>
        BY <1>2 DEF At, PreCheck
    <2>2. CASE pulls' = Drop(pulls, {j})
        BY <2>1, <2>2, EarnedEnds
    <2>3. CASE pulls' = [pulls EXCEPT ![j].pc = "me"]
        <3>1. PullsBut(j) /\ Moved(pulls'[j], pulls[j], "me", pulls[j].ft, pulls[j].target)
            BY <2>1, <2>3, PullGoes DEF Goto, Late
        <3> QED
            BY <2>1, <3>1, EarnedGoes
    <2> QED
        BY <1>2, <2>2, <2>3 DEF PreCheck
<1>3. ASSUME NEW j \in JobIds, FailEarly(j) \/ Finish(j) PROVE Earned'
    <2>1. /\ j \in DOMAIN pulls /\ pulls[j].pc \in {"me", "finish"} /\ pulls' = Drop(pulls, {j})
          /\ UNCHANGED <<slots, fetches, leaked>>
        BY <1>3 DEF At, FailEarly, Finish, End
    <2> QED
        BY <2>1, EarnedEnds
<1>4. ASSUME NEW j \in JobIds, Reserve(j) PROVE Earned'
    BY <1>4, EarnedReserve
<1>5. ASSUME NEW j \in JobIds, FetchFails(j) \/ WrongIdentity(j) \/ UpdateFails(j) PROVE Earned'
    <2>1. j \in DOMAIN pulls /\ pulls[j].pc \in {"fetch", "update"} /\ FailLate(j)
        BY <1>5 DEF FetchFails, WrongIdentity, UpdateFails, At
    <2> QED
        BY <2>1, EarnedFailLate
<1>6. ASSUME NEW j \in JobIds, Fetched(j) \/ Lookup(j) \/ UpdateSnapshot(j) \/ LinkAccount(j)
      PROVE Earned'
    <2>1. /\ j \in DOMAIN pulls /\ pulls[j].pc \in {"fetch", "lookup", "update", "link"}
          /\ UNCHANGED <<slots, fetches, leaked>>
        BY <1>6 DEF Fetched, Lookup, UpdateSnapshot, LinkAccount, At
    <2>2. pulls[j].ft \in FtIds /\ (pulls[j].pc = "update" => pulls[j].target \in AccountIds)
        BY <2>1 DEF PullsOK, Progress, Late
    <2>3. ASSUME NEW pc \in {"lookup", "update", "link", "finish"}, NEW a, PullsBut(j),
                 Moved(pulls'[j], pulls[j], pc, pulls[j].ft, a)
          PROVE Earned'
        BY <2>1, <2>3, EarnedGoes
    <2>4. ASSUME NEW pc \in {"lookup", "link", "finish"}, Goto(j, pc),
                 pc = "link" => pulls[j].target \in AccountIds
          PROVE Earned'
        BY <2>1, <2>2, <2>3, <2>4, PullGoes
    <2>5. ASSUME NEW a \in AccountIds, pulls' = [pulls EXCEPT ![j].pc = "update", ![j].target = a]
          PROVE Earned'
        BY <2>1, <2>2, <2>3, <2>5, PullTargets
    <2>6. DOMAIN accounts \subseteq AccountIds /\ pulls[j].claim \in AccountIds \cup {NoAccount}
        BY <2>1 DEF Typed, PullsOK, Pull
    <2> QED
        BY <1>6, <2>1, <2>2, <2>4, <2>5, <2>6 DEF Fetched, Lookup, UpdateSnapshot, LinkAccount, At
<1>7. ASSUME NEW j \in JobIds, Release(j) PROVE Earned'
    BY <1>7, EarnedRelease
<1>8. CASE UNCHANGED <<pulls, slots, fetches, leaked>>
    BY <1>8, EarnedStays
<1>9. ASSUME NEW j \in JobIds, Signup(j) \/ SyncSignin(j) \/ DeleteJob(j) PROVE Earned'
    BY <1>8, <1>9 DEF Signup, SyncSignin, DeleteJob
<1>10. CASE Sweep \/ DeleteAccount \/ UNCHANGED vars
    BY <1>8, <1>10 DEF Sweep, DeleteAccount, vars
<1>11. CASE PurgeStaleCooldowns
    <2>1. /\ UNCHANGED <<pulls, fetches, leaked>>
          /\ DOMAIN slots' = {g \in DOMAIN slots : ~(slots[g] > Cooldown)}
          /\ \A g \in DOMAIN slots' : slots'[g] = slots[g]
        BY <1>11 DEF PurgeStaleCooldowns, Drop, Restrict
    <2>2. NotYetCounted' /\ CountedAsOwn' /\ RefetchOnlyIfRobbed'
        BY <2>1 DEF Earned, NotYetCounted, CountedAsOwn, RefetchOnlyIfRobbed
    <2>3. ASSUME NEW i \in DOMAIN fetches, ~fetches[i].robbed
          PROVE /\ fetches[i].ft \in DOMAIN slots' /\ slots'[fetches[i].ft] = slots[fetches[i].ft]
                /\ slots[fetches[i].ft] <= fetches[i].age /\ fetches[i].age < Cooldown
        <3>1. /\ fetches[i].ft \in DOMAIN slots
              /\ slots[fetches[i].ft] <= fetches[i].age /\ fetches[i].age < Cooldown
            BY <2>3 DEF Earned, SlotHeld
        <3>2. slots[fetches[i].ft] \in 0 .. Cooldown + 1 /\ fetches[i] \in Fetch
            BY <3>1 DEF Typed
        <3>3. slots[fetches[i].ft] \in Int /\ fetches[i].age \in Int /\ Cooldown \in Int
            BY <3>2, SyncAssumption DEF Fetch
        <3> QED
            BY <2>1, <3>1, <3>3
    <2>4. SlotHeld'
        BY <2>1, <2>3 DEF SlotHeld
    <2>5. CooldownIsEarned'
        BY <2>1 DEF Earned, CooldownIsEarned, Active, At
    <2> QED
        BY <2>2, <2>4, <2>5 DEF Earned
<1>12. CASE Tick
    BY <1>12, EarnedTick
<1>13. CASE Crash
    BY <1>13, EarnedCrash
<1>14. ASSUME NEW j \in JobIds, ReserveUnanswered(j) PROVE Earned'
    BY <1>14, EarnedUnanswered
<1> QED
    BY <1>1, <1>2, <1>3, <1>4, <1>5, <1>6, <1>7, <1>9, <1>10, <1>11, <1>12, <1>13, <1>14
       DEF Next, PullStep

(* Earned holds at first and is kept, given the types. *)
LEMMA EarnedAlways == Spec => []Earned
<1>1. Init => Earned
    BY DEF Init, Earned, NotYetCounted, CountedAsOwn, SlotHeld, CooldownIsEarned, RefetchOnlyIfRobbed
<1> QED
    BY <1>1, TypesInit, TypesStep, EarnedStep, PTL DEF Spec

(* CooldownIsEarned of every reachable state: nobody waits for a sync that came to
   nothing, unless its release or the answer of its reservation was lost (startSync's
   reservedID), or the process went down under it. *)
THEOREM CooldownsAreEarned == Spec => []CooldownIsEarned
<1>1. Earned => CooldownIsEarned
    BY DEF Earned
<1> QED
    BY <1>1, EarnedAlways, PTL

(* RefetchOnlyIfRobbed of every reachable state: one statement decides who fetches a
   user, whatever the number of syncs; only a release by another can undo it. *)
THEOREM OneFetchPerCooldown == Spec => []RefetchOnlyIfRobbed
<1>1. Earned => RefetchOnlyIfRobbed
    BY DEF Earned
<1> QED
    BY <1>1, EarnedAlways, PTL

-----------------------------------------------------------------------------

(* LiveSyncKept: the map at its limit, the sweep and the deletion of used jobs leave
   a running job alone until it is stuck. *)
THEOREM LiveSyncsAreKept == Spec => LiveSyncKept
<1> DEFINE Kept == \A j \in DOMAIN jobs \ DOMAIN jobs' :
                       Running(j) => jobs[j].age > Stuck \/ j \in claimed \/ j \notin DOMAIN pulls'
<1>1. ASSUME Types, Next PROVE Kept
    <2> USE DEF Types
    <2>1. CASE \E i \in JobIds, k \in Keys \cup {NoKey} : Callback(i, k)
        BY <1>1, <2>1, JobCreated DEF Callback
    <2>2. ASSUME NEW i \in JobIds, PullStep(i) PROVE Kept
        <3>1. CASE UNCHANGED jobs
            BY <3>1
        <3>2. CASE jobs' = Failed(i)
            BY <1>1, <3>2, JobFailed DEF JobsBut
        <3>3. CASE Finish(i) \/ LinkAccount(i)
            <4>1. i \in DOMAIN pulls
                BY <3>3 DEF Finish, LinkAccount, At
            <4> QED
                BY <1>1, <3>3, <4>1, JobFinished, JobLinked DEF JobsBut
        <3> QED
            BY <2>2, <3>1, <3>2, <3>3
               DEF PullStep, PreCheck, FailEarly, Reserve, ReserveUnanswered, FetchFails, WrongIdentity, FailLate,
                   Fetched, Lookup, UpdateSnapshot, UpdateFails, Release
    <2>3. CASE \E i \in JobIds : DeleteJob(i)
        BY <1>1, <2>3, JobsDropped DEF DeleteJob
    <2>4. CASE \E i \in JobIds : Signup(i) \/ SyncSignin(i)
        BY <2>4 DEF Signup, SyncSignin
    <2>5. CASE Sweep
        <3> DEFINE Expired == {j \in DOMAIN jobs : \/ ~Running(j) /\ jobs[j].ended > Ttl
                                                   \/ jobs[j].age > Stuck}
        <3>1. jobs' = Drop(jobs, Expired)
            BY <2>5 DEF Sweep
        <3>2. DOMAIN jobs' = DOMAIN jobs \ Expired
            BY <1>1, <3>1, JobsDropped
        <3> QED
            BY <3>2
    <2>6. CASE Tick
        BY <1>1, <2>6, JobsTicked
    <2>7. CASE Crash
        <3>1. DOMAIN pulls' = {}
            BY <1>1, <2>7 DEF Crash, Drop, Restrict, PullsOK, Typed
        <3> QED
            BY <3>1
    <2>8. CASE DeleteAccount \/ PurgeStaleCooldowns
        BY <2>8 DEF DeleteAccount, PurgeStaleCooldowns
    <2> QED
        BY <1>1, <2>1, <2>2, <2>3, <2>4, <2>5, <2>6, <2>7, <2>8 DEF Next
<1>2. Types /\ [Next]_vars => [Kept]_vars
    BY <1>1
<1> QED
    BY <1>2, TypesInit, TypesStep, PTL DEF Spec, LiveSyncKept
=============================================================================
