----------------------------- MODULE RateLimits -----------------------------
(***************************************************************************)
(* The two ways the server uses its attempt limiters.                      *)
(*                                                                         *)
(* `sends` stands for the limiters that bound mail (loginAttempts,         *)
(* verifyResends, emailChangeRequests, deleteRequests): a handler takes    *)
(* from the budget before it sends.  `bad` is tokenAttempts: a handler     *)
(* that is given an emailed token asks first whether the client may try,   *)
(* and only much later, when the database did not know the token, charges  *)
(* the client.  Between the two, other requests of the client run.         *)
(*                                                                         *)
(* granted and failed are histories: what was really sent and really tried *)
(* in the last window of this process, whatever the limiters remember.     *)
(***************************************************************************)
EXTENDS AttemptLimiter

CONSTANTS Keys,       \* addresses, accounts or clients
          NoKey,      \* clientKey's "" for a client that cannot be identified
          Requests    \* requests with a token, as many as run at once

ASSUME RateAssumption == NoKey \notin Keys /\ IsFiniteSet(Requests)

VARIABLES sends, bad,
          inside,             \* requests past the gate -> client key
          granted, failed

vars == <<sends, bad, inside, granted, failed>>

MostFailures == Max - 1 + Cardinality(Requests)

Nobody == [r \in {} |-> NoKey]

NoHistory == [k \in Keys |-> {}]

OneMore(history, k) == [history EXCEPT ![k] = Noted(history[k], 0)]

Passed(history) == [k \in Keys |-> Recent(Older(history[k]))]

Init ==
    /\ sends = NoAttempts /\ bad = NoAttempts /\ inside = Nobody
    /\ granted = NoHistory /\ failed = NoHistory

\* handleLogin, handleVerifyResend and the others: s.<limiter>.take(key).
RequestSend(k) ==
    /\ sends' = Taken(sends, k)
    /\ granted' = IF Allowed(sends, k) THEN OneMore(granted, k) ELSE granted
    /\ UNCHANGED <<bad, inside, failed>>

\* Fault: the gate charges, whatever becomes of the token.
PresentTaking(r, k) ==
    /\ r \notin DOMAIN inside
    /\ bad' = IF k = NoKey THEN bad ELSE Taken(bad, k)
    /\ inside' = IF k = NoKey \/ Allowed(bad, k)
                 THEN [q \in DOMAIN inside \cup {r} |-> IF q = r THEN k ELSE inside[q]]
                 ELSE inside
    /\ UNCHANGED <<sends, granted, failed>>

\* tokenAttemptAllowed; a refused request is answered 429 and ends here.
Present(r, k) ==
    /\ r \notin DOMAIN inside
    /\ bad' = IF k = NoKey THEN bad ELSE Counted(bad, k)
    /\ inside' = IF k = NoKey \/ Allowed(bad, k)
                 THEN [q \in DOMAIN inside \cup {r} |-> IF q = r THEN k ELSE inside[q]]
                 ELSE inside
    /\ UNCHANGED <<sends, granted, failed>>

Leave(r) == inside' = Restrict(inside, DOMAIN inside \ {r})

\* The token matched, was missing, or the database failed: nothing is charged.
NotCharged(r) ==
    /\ r \in DOMAIN inside
    /\ Leave(r)
    /\ UNCHANGED <<sends, bad, granted, failed>>

\* recordBadToken: the token was not in the table, or its new address is another
\* account's by now (handleConfirmEmailChange).
BadToken(r) ==
    /\ r \in DOMAIN inside
    /\ Leave(r)
    /\ IF inside[r] = NoKey
       THEN UNCHANGED <<bad, failed>>
       ELSE bad' = Charged(bad, inside[r]) /\ failed' = OneMore(failed, inside[r])
    /\ UNCHANGED <<sends, granted>>

\* The purge loop of Serve, one limiter at a time.
PruneSends == sends' = Pruned(sends) /\ UNCHANGED <<bad, inside, granted, failed>>
PruneBad == bad' = Pruned(bad) /\ UNCHANGED <<sends, inside, granted, failed>>

Restart ==
    /\ sends' = NoAttempts /\ bad' = NoAttempts /\ inside' = Nobody
    /\ granted' = NoHistory /\ failed' = NoHistory

Tick ==
    /\ sends' = Aged(sends) /\ bad' = Aged(bad)
    /\ granted' = Passed(granted) /\ failed' = Passed(failed)
    /\ UNCHANGED inside

Next ==
    \/ \E k \in Keys : RequestSend(k)
    \/ \E r \in Requests, k \in Keys \cup {NoKey} : Present(r, k)
    \/ \E r \in Requests : NotCharged(r) \/ BadToken(r)
    \/ PruneSends \/ PruneBad \/ Restart \/ Tick

Spec == Init /\ [][Next]_vars

\* Time passes.  Nothing is assumed of the clients, who may go on for ever,
\* nor of the purge loop.
FairSpec == Spec /\ WF_vars(Tick)

-----------------------------------------------------------------------------
(* In any window a process mails a key at most Max times (take's "a
   concurrent burst gets at most max successes"), also when the purge loop
   prunes between the attempts. *)
SendCap == \A k \in Keys : Cardinality(granted[k]) <= Max

(* The gate before a token and the charge after it are separate critical
   sections, so a client with requests in flight may try more than Max bad
   tokens in a window: never more than Max - 1 and one per request past the
   gate, those still to be charged included. *)
BadTokenCap ==
    \A k \in Keys :
        Cardinality(failed[k]) + Cardinality({r \in DOMAIN inside : inside[r] = k})
            <= MostFailures

(* Nobody is locked out by less than Max attempts of the window that were
   granted or charged: an attempt that was refused, one that has expired and a
   good token count for nothing, whoever else is past the gate ("allowed()/
   recordFailed() suit callers that only charge failures", auth.go:185). *)
LockoutIsEarned ==
    \A k \in Keys :
        /\ Allowed(sends, k) \/ Cardinality(granted[k]) >= Max
        /\ Allowed(bad, k) \/ Cardinality(failed[k]) >= Max

(* However hard a client hammers, its budgets come back: an attempt that is
   refused does not prolong the lockout. *)
BudgetReturns == \A k \in Keys : []<>Allowed(sends, k) /\ []<>Allowed(bad, k)
=============================================================================
