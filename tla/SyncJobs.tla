------------------------------ MODULE SyncJobs ------------------------------
(***************************************************************************)
(* Syncing 42 data: the in-memory job registry (web/jobs.go), the callback *)
(* that creates a job (web/oauth.go), the background goroutine of a job    *)
(* (startSync in web/handlers.go), and the table sync_cooldowns that       *)
(* allows one fetch per 42 user and cooldown (store.go).                   *)
(*                                                                         *)
(* The registry and the goroutines are separate: a job dropped from the    *)
(* map is unreachable for the browser while its goroutine goes on writing  *)
(* to the database.  Each database statement and each critical section of  *)
(* the registry is an action.                                              *)
(*                                                                         *)
(* A statement that reports an error may have been committed all the same  *)
(* (the answer was lost), unless no later step can tell.                   *)
(*                                                                         *)
(* Time is the age of things in ticks, capped where the code cannot tell   *)
(* ages apart any more: a tick stands for the syncCooldown of 15 minutes   *)
(* divided by Cooldown.  Accounts are reduced to the 42 identity they are  *)
(* bound to and the identity whose snapshot they hold; the snapshot's      *)
(* content, photos and progress are left out.                              *)
(***************************************************************************)
EXTENDS Functions, FiniteSets

CONSTANTS
    JobIds, AccountIds, FtIds,
    Keys,              \* client keys: a session or an IP address
    NoKey,             \* a client that cannot be identified
    NoAccount, NoFt,
    MaxJobs,           \* jobRegistry.maxJobs
    Ttl,               \* jobRegistry.ttl, in ticks
    Cooldown           \* syncCooldown, in ticks

ASSUME SyncAssumption ==
    /\ NoKey \notin Keys /\ NoAccount \notin AccountIds /\ NoFt \notin FtIds
    /\ MaxJobs \in Nat \ {0} /\ Ttl \in Nat \ {0} /\ Cooldown \in Nat \ {0}

VARIABLES
    jobs,        \* the registry's map: job id -> job
    pulls,       \* the sync of each job that is still under way
    claimed,     \* jobs a sign-up or sign-in has used and is about to delete
    slots,       \* table sync_cooldowns: ft_id -> age of last_sync_at
    accounts,    \* table accounts: id -> identity and snapshot
    fetches,     \* syncs that reserved within the cooldown and have not failed (history)
    leaked       \* identities whose slot a sync that came to nothing left behind (history)

vars == <<jobs, pulls, claimed, slots, accounts, fetches, leaked>>

Stuck == 2 * Ttl

Job == [status : {"running", "done", "error"},
        key : Keys \cup {NoKey},
        age : 0 .. Stuck + 1,                     \* since createdAt
        ended : 0 .. Ttl + 1,                     \* since finishedAt
        ft : FtIds \cup {NoFt},                   \* res.FtID
        matched : AccountIds \cup {NoAccount}]    \* matchedID

Pull == [pc : {"check", "me", "fetch", "lookup", "update", "link", "finish", "release"},
         claim : AccountIds \cup {NoAccount},     \* claimAccountID
         expect : FtIds \cup {NoFt},              \* expectFtID
         ft : FtIds \cup {NoFt},                  \* reservedID, the user /me revealed
         target : AccountIds \cup {NoAccount}]    \* the account to refresh

Fetch == [ft : FtIds, age : 0 .. Cooldown,
          robbed : BOOLEAN,                       \* another sync's release took its slot
          killed : BOOLEAN]                       \* it went down with the process

Account == [ft : FtIds, data : FtIds]

Put(f, x, v) == [y \in DOMAIN f \cup {x} |-> IF y = x THEN v ELSE f[y]]
Drop(f, S) == Restrict(f, DOMAIN f \ S)

Init ==
    /\ jobs = << >> /\ pulls = << >> /\ slots = << >> /\ accounts = << >> /\ fetches = << >>
    /\ claimed = {} /\ leaked = {}

-----------------------------------------------------------------------------
(* The registry. *)

Running(j) == jobs[j].status = "running"
HasRunning(k) == k # NoKey /\ \E j \in DOMAIN jobs : Running(j) /\ jobs[j].key = k

FreshJob(j) == j \notin DOMAIN jobs \cup DOMAIN pulls \cup DOMAIN fetches \cup claimed

\* Fault: a running job counts as one that may be evicted.
OldestJob == {j \in DOMAIN jobs : \A i \in DOMAIN jobs : jobs[i].age <= jobs[j].age}

\* A finished job no older than which there is none.
OldestFinished ==
    {j \in DOMAIN jobs : /\ ~Running(j)
                         /\ \A i \in DOMAIN jobs : ~Running(i) => jobs[i].age <= jobs[j].age}

NewJob(k) == [status |-> "running", key |-> k, age |-> 0, ended |-> 0,
              ft |-> NoFt, matched |-> NoAccount]

Create(j, k) ==
    /\ FreshJob(j)
    /\ ~HasRunning(k)
    /\ \/ /\ Cardinality(DOMAIN jobs) < MaxJobs
          /\ jobs' = Put(jobs, j, NewJob(k))
       \/ /\ Cardinality(DOMAIN jobs) >= MaxJobs
          /\ \E old \in OldestFinished : jobs' = Put(Drop(jobs, {old}), j, NewJob(k))

\* setters of *job: without an entry in the map nobody sees the object
Update(j, job) == IF j \in DOMAIN jobs THEN [jobs EXCEPT ![j] = job] ELSE jobs

Failed(j) == Update(j, [jobs[j] EXCEPT !.status = "error", !.ended = 0])

Sweep ==
    LET Expired == {j \in DOMAIN jobs : \/ ~Running(j) /\ jobs[j].ended > Ttl
                                        \/ jobs[j].age > Stuck}
    IN  /\ Expired # {}
        /\ jobs' = Drop(jobs, Expired)
        /\ UNCHANGED <<pulls, claimed, slots, accounts, fetches, leaked>>

-----------------------------------------------------------------------------
(* The callback: a job for the client, and for a logged-in one an early    *)
(* look at the cooldown of its own 42 identity.                            *)

NewPull(pc, a, f) == [pc |-> pc, claim |-> a, expect |-> f, ft |-> NoFt, target |-> NoAccount]

Callback(j, k) ==
    /\ Create(j, k)
    /\ \/ pulls' = Put(pulls, j, NewPull("me", NoAccount, NoFt))
       \/ \E a \in DOMAIN accounts : pulls' = Put(pulls, j, NewPull("check", a, accounts[a].ft))
    /\ UNCHANGED <<claimed, slots, accounts, fetches, leaked>>

\* Fault: the cooldown ends a tick early.
ActiveShort(f) == f \in DOMAIN slots /\ slots[f] + 1 < Cooldown

Active(f) == f \in DOMAIN slots /\ slots[f] < Cooldown

\* SyncCooldown: a pre-check that errs is ignored.
PreCheck(j) ==
    /\ pulls[j].pc = "check"
    /\ \/ /\ Active(pulls[j].expect)
          /\ jobs' = Failed(j)
          /\ pulls' = Drop(pulls, {j})
       \/ /\ pulls' = [pulls EXCEPT ![j].pc = "me"]
          /\ UNCHANGED jobs
    /\ UNCHANGED <<claimed, slots, accounts, fetches, leaked>>

-----------------------------------------------------------------------------
(* The goroutine of startSync. *)

At(j, pc) == j \in DOMAIN pulls /\ pulls[j].pc = pc
Goto(j, pc) == pulls' = [pulls EXCEPT ![j].pc = pc]
End(j) == pulls' = Drop(pulls, {j})

\* /me fails, ReserveSync errs without effect, or the cooldown refuses: nothing was
\* reserved.
FailEarly(j) ==
    /\ At(j, "me")
    /\ jobs' = Failed(j)
    /\ End(j)
    /\ UNCHANGED <<claimed, slots, accounts, fetches, leaked>>

\* ReserveSync, one statement, once /me has revealed the user.
Reserve(j) ==
    /\ At(j, "me")
    /\ \E f \in FtIds :
          /\ ~Active(f)
          /\ slots' = Put(slots, f, 0)
          /\ pulls' = [pulls EXCEPT ![j].pc = "fetch", ![j].ft = f]
          /\ fetches' = Put(fetches, j, [ft |-> f, age |-> 0, robbed |-> FALSE, killed |-> FALSE])
          /\ leaked' = leaked \ {f}
    /\ UNCHANGED <<jobs, claimed, accounts>>

\* ReserveSync took effect and its answer was lost: an error to the caller, which then
\* does not note the identity and so has nothing to release.
ReserveUnanswered(j) ==
    /\ At(j, "me")
    /\ \E f \in FtIds :
          /\ ~Active(f)
          /\ slots' = Put(slots, f, 0)
          /\ leaked' = leaked \cup {f}
    /\ jobs' = Failed(j)
    /\ End(j)
    /\ UNCHANGED <<claimed, accounts, fetches>>

\* Fault: the failure path does not release the slot.
FailWithoutRelease(j) ==
    /\ jobs' = Failed(j)
    /\ End(j)
    /\ fetches' = Drop(fetches, {j})
    /\ UNCHANGED <<claimed, slots, leaked>>

\* j.fail; the deferred ReleaseSync is the step after.
FailLate(j) ==
    /\ jobs' = Failed(j)
    /\ Goto(j, "release")
    /\ fetches' = Drop(fetches, {j})
    /\ UNCHANGED <<claimed, slots, leaked>>

FetchFails(j) == At(j, "fetch") /\ FailLate(j) /\ UNCHANGED accounts

WrongIdentity(j) ==
    /\ At(j, "fetch")
    /\ pulls[j].claim # NoAccount
    /\ pulls[j].ft # pulls[j].expect
    /\ FailLate(j)
    /\ UNCHANGED accounts

\* Fault: a resync writes whatever it fetched to the account that asked.
FetchedUnchecked(j) ==
    /\ At(j, "fetch")
    /\ pulls' = [pulls EXCEPT ![j].pc = IF pulls[j].claim = NoAccount THEN "lookup" ELSE "update",
                              ![j].target = pulls[j].claim]
    /\ UNCHANGED <<jobs, claimed, slots, accounts, fetches, leaked>>

Fetched(j) ==
    /\ At(j, "fetch")
    /\ \/ /\ pulls[j].claim = NoAccount
          /\ Goto(j, "lookup")
       \/ /\ pulls[j].claim # NoAccount
          /\ pulls[j].ft = pulls[j].expect
          /\ pulls' = [pulls EXCEPT ![j].pc = "update", ![j].target = pulls[j].claim]
    /\ UNCHANGED <<jobs, claimed, slots, accounts, fetches, leaked>>

\* Fault: the lookup finds an account of someone else.
LookupAny(j) ==
    /\ At(j, "lookup")
    /\ \/ \E a \in DOMAIN accounts : pulls' = [pulls EXCEPT ![j].pc = "link", ![j].target = a]
       \/ Goto(j, "finish")
    /\ UNCHANGED <<jobs, claimed, slots, accounts, fetches, leaked>>

\* AccountByFtID; an error of any kind counts as no account.
Lookup(j) ==
    /\ At(j, "lookup")
    /\ \/ \E a \in DOMAIN accounts :
             /\ accounts[a].ft = pulls[j].ft
             /\ pulls' = [pulls EXCEPT ![j].pc = "update", ![j].target = a]
       \/ Goto(j, "finish")
    /\ UNCHANGED <<jobs, claimed, slots, accounts, fetches, leaked>>

\* UPDATE accounts SET data; a row that is gone is no error.
WriteData(j) ==
    LET a == pulls[j].target IN
    accounts' = IF a \in DOMAIN accounts
                THEN [accounts EXCEPT ![a].data = pulls[j].ft] ELSE accounts

UpdateSnapshot(j) ==
    /\ At(j, "update")
    /\ WriteData(j)
    /\ Goto(j, IF pulls[j].claim = NoAccount THEN "link" ELSE "finish")
    /\ UNCHANGED <<jobs, claimed, slots, fetches, leaked>>

UpdateFails(j) ==
    /\ At(j, "update")
    /\ WriteData(j) \/ UNCHANGED accounts
    /\ FailLate(j)

LinkAccount(j) ==
    /\ At(j, "link")
    /\ jobs' = Update(j, [jobs[j] EXCEPT !.matched = pulls[j].target])
    /\ Goto(j, "finish")
    /\ UNCHANGED <<claimed, slots, accounts, fetches, leaked>>

Finish(j) ==
    /\ At(j, "finish")
    /\ jobs' = Update(j, [jobs[j] EXCEPT !.status = "done", !.ended = 0, !.ft = pulls[j].ft])
    /\ End(j)
    /\ UNCHANGED <<claimed, slots, accounts, fetches, leaked>>

\* ReleaseSync deletes the row of the 42 user, whoever reserved it last; its error
\* is ignored.
Release(j) ==
    /\ At(j, "release")
    /\ End(j)
    /\ LET f == pulls[j].ft IN
          \/ /\ slots' = Drop(slots, {f})
             /\ fetches' = [i \in DOMAIN fetches |->
                              IF fetches[i].ft = f THEN [fetches[i] EXCEPT !.robbed = TRUE]
                                                   ELSE fetches[i]]
             /\ leaked' = leaked \ {f}
          \/ /\ leaked' = leaked \cup {f}
             /\ UNCHANGED <<slots, fetches>>
    /\ UNCHANGED <<jobs, claimed, accounts>>

-----------------------------------------------------------------------------
(* What the browser does with a job. *)

\* Nothing refers to the id any more, or ever did.
FreshAccount(a) ==
    /\ a \notin DOMAIN accounts
    /\ \A j \in DOMAIN jobs : jobs[j].matched # a
    /\ \A j \in DOMAIN pulls : a \notin {pulls[j].claim, pulls[j].target}

\* handleSignup: ft_id is unique, and the job is deleted after the row exists.
Signup(j) ==
    /\ j \in DOMAIN jobs
    /\ jobs[j].status = "done"
    /\ \A b \in DOMAIN accounts : accounts[b].ft # jobs[j].ft
    /\ \E a \in AccountIds :
          /\ FreshAccount(a)
          /\ accounts' = Put(accounts, a, [ft |-> jobs[j].ft, data |-> jobs[j].ft])
    /\ claimed' = claimed \cup {j}
    /\ UNCHANGED <<jobs, pulls, slots, fetches, leaked>>

\* handleSyncSignin: the session needs the account to exist still.
SyncSignin(j) ==
    /\ j \in DOMAIN jobs
    /\ jobs[j].matched \in DOMAIN accounts
    /\ claimed' = claimed \cup {j}
    /\ UNCHANGED <<jobs, pulls, slots, accounts, fetches, leaked>>

DeleteJob(j) ==
    /\ j \in claimed
    /\ jobs' = Drop(jobs, {j})
    /\ claimed' = claimed \ {j}
    /\ UNCHANGED <<pulls, slots, accounts, fetches, leaked>>

-----------------------------------------------------------------------------
(* The rest of the environment. *)

DeleteAccount ==
    /\ \E a \in DOMAIN accounts : accounts' = Drop(accounts, {a})
    /\ UNCHANGED <<jobs, pulls, claimed, slots, fetches, leaked>>

PurgeStaleCooldowns ==
    /\ \E f \in DOMAIN slots : slots[f] > Cooldown
    /\ slots' = Drop(slots, {f \in DOMAIN slots : slots[f] > Cooldown})
    /\ UNCHANGED <<jobs, pulls, claimed, accounts, fetches, leaked>>

Older(n, cap) == IF n < cap THEN n + 1 ELSE n

Tick ==
    /\ jobs' = [j \in DOMAIN jobs |->
                  [jobs[j] EXCEPT !.age = Older(@, Stuck + 1),
                                  !.ended = IF Running(j) THEN @ ELSE Older(@, Ttl + 1)]]
    /\ slots' = [f \in DOMAIN slots |-> Older(slots[f], Cooldown + 1)]
    /\ LET Recent == {j \in DOMAIN fetches : fetches[j].age + 1 < Cooldown}
       IN  fetches' = [j \in Recent |-> [fetches[j] EXCEPT !.age = @ + 1]]
    /\ UNCHANGED <<pulls, claimed, accounts, leaked>>

\* The process restarts: the registry and the goroutines are gone, and what those had
\* reserved stays.
Crash ==
    /\ jobs' = Drop(jobs, JobIds)
    /\ pulls' = Drop(pulls, JobIds)
    /\ claimed' = {}
    /\ fetches' = [j \in DOMAIN fetches |->
                     IF j \in DOMAIN pulls THEN [fetches[j] EXCEPT !.killed = TRUE] ELSE fetches[j]]
    /\ leaked' = leaked \cup ({pulls[j].ft : j \in DOMAIN pulls} \ {NoFt})
    /\ UNCHANGED <<slots, accounts>>

-----------------------------------------------------------------------------

PullStep(j) ==
    \/ At(j, "check") /\ PreCheck(j)
    \/ FailEarly(j) \/ Reserve(j) \/ ReserveUnanswered(j) \/ FetchFails(j) \/ WrongIdentity(j) \/ Fetched(j)
    \/ Lookup(j) \/ UpdateSnapshot(j) \/ UpdateFails(j) \/ LinkAccount(j)
    \/ Finish(j) \/ Release(j)

Next ==
    \/ \E j \in JobIds :
          \/ \E k \in Keys \cup {NoKey} : Callback(j, k)
          \/ PullStep(j)
          \/ Signup(j) \/ SyncSignin(j) \/ DeleteJob(j)
    \/ Sweep \/ DeleteAccount \/ PurgeStaleCooldowns \/ Tick \/ Crash

Spec == Init /\ [][Next]_vars

-----------------------------------------------------------------------------
(* Properties. *)

TypeOK ==
    /\ DOMAIN jobs \subseteq JobIds /\ jobs \in [DOMAIN jobs -> Job]
    /\ DOMAIN pulls \subseteq JobIds /\ pulls \in [DOMAIN pulls -> Pull]
    /\ DOMAIN slots \subseteq FtIds /\ slots \in [DOMAIN slots -> 0 .. Cooldown + 1]
    /\ DOMAIN accounts \subseteq AccountIds /\ accounts \in [DOMAIN accounts -> Account]
    /\ DOMAIN fetches \subseteq JobIds /\ fetches \in [DOMAIN fetches -> Fetch]
    /\ claimed \subseteq JobIds
    /\ leaked \subseteq FtIds

\* The registry makes room only by dropping finished jobs: a running one leaves
\* the map when its data was claimed, when it is stuck past twice the TTL, or with
\* the process (evictOldestFinishedLocked, sweep).
LiveSyncKept ==
    [][\A j \in DOMAIN jobs \ DOMAIN jobs' :
          Running(j) => jobs[j].age > Stuck \/ j \in claimed \/ j \notin DOMAIN pulls']_vars

\* An account only ever holds the snapshot of the 42 user it is bound to, although
\* a sync learns whom it fetched long after the account was resolved.
SnapshotIsOwn == \A a \in DOMAIN accounts : accounts[a].data = accounts[a].ft

\* handleSyncSignin "can only ever log them into their own account": the account a
\* job was matched to is, as long as it exists, that of the user it fetched.
MatchedIsOwn ==
    \A j \in DOMAIN jobs :
        jobs[j].matched \in DOMAIN accounts =>
            accounts[jobs[j].matched].ft = IF Running(j) THEN pulls[j].ft ELSE jobs[j].ft

\* A cooldown in force belongs to a sync of that user that is under way or
\* succeeded: after a failure the user may retry at once (startSync's deferred
\* ReleaseSync).  A slot outlives a sync that came to nothing in three ways only:
\* the release was lost, the answer of the reservation was lost, or the process went
\* down under the sync.
CooldownIsEarned ==
    \A f \in DOMAIN slots :
        Active(f) => \/ \E j \in DOMAIN fetches : /\ ~fetches[j].killed
                                                  /\ fetches[j].ft = f /\ fetches[j].age = slots[f]
                     \/ \E j \in DOMAIN pulls : At(j, "release") /\ pulls[j].ft = f
                     \/ f \in leaked

\* Two syncs of one user within a cooldown that both count happen only when the
\* slot of one of them was deleted by the release of another sync.
RefetchOnlyIfRobbed ==
    \A i, j \in DOMAIN fetches :
        i # j /\ fetches[i].ft = fetches[j].ft => fetches[i].robbed \/ fetches[j].robbed

=============================================================================
