---------------------------- MODULE AccountStore ----------------------------
(***************************************************************************)
(* The account side of internal/store: the tables `accounts` and           *)
(* `sessions`, and one operator for each SQL statement the web layer runs  *)
(* on them, each in a transaction of its own.  A statement that compares   *)
(* and writes one row is atomic, so its operator says all it does to the   *)
(* tables; ConsumeEmailChange is not, and has two.  Module Accounts        *)
(* composes the operators into the handlers.                               *)
(*                                                                         *)
(* Abstractions.  A row keeps the columns the flows decide on.  The four   *)
(* (token hash, sent-at) column pairs are the four slots of a row, and a   *)
(* sent-at is the stage of its age that a statement can tell apart:        *)
(* "fresh" (within the token's TTL), "expired", and for the verification   *)
(* slot "stale" (older than unverifiedAccountTTL).  A session past its     *)
(* expires_at is invisible to SessionAccount, so `sessions` holds the      *)
(* unexpired rows and expiry removes one; PurgeExpiredSessions only drops  *)
(* rows no query sees any more.                                            *)
(***************************************************************************)
EXTENDS Functions

CONSTANTS
    AccountIds,   \* values of accounts.id, never reused (SERIAL)
    Emails,       \* addresses; parseEmail lower-cases them
    FtIds,        \* 42 user ids; ft_login follows ft_id
    Tokens,       \* 256-bit random link tokens
    Sids,         \* session ids
    NoEmail, NoToken

ASSUME SentinelAssumption == NoEmail \notin Emails /\ NoToken \notin Tokens

VARIABLES
    accounts,     \* table accounts: a function from the ids of its rows
    sessions,     \* table sessions: a function from session id to account id
    created       \* ids the accounts.id sequence has handed out

storeVars == <<accounts, sessions, created>>

Kinds == {"verify", "login", "change", "delete"}
Ages == {"none", "fresh", "expired", "stale"}

Slot == [token : Tokens \cup {NoToken}, age : Ages]
Empty == [token |-> NoToken, age |-> "none"]
Fresh(t) == [token |-> t, age |-> "fresh"]

Row == [email : Emails, ftId : FtIds, verified : BOOLEAN,
        pending : Emails \cup {NoEmail}, slot : [Kinds -> Slot]]

Live == DOMAIN accounts

StoreInit ==
    /\ accounts = [a \in {} |-> NoEmail]
    /\ sessions = [s \in {} |-> NoEmail]
    /\ created = {}

-----------------------------------------------------------------------------
(* Statements that read. *)

EmailTaken(e, a) == \E b \in Live \ {a} : accounts[b].email = e

SessionsOf(a) == {s \in DOMAIN sessions : sessions[s] = a}

\* Fault: the sent-at is not compared with the TTL.
MatchesAnyAge(a, k, t) == a \in Live /\ accounts[a].slot[k].token = t

\* WHERE <kind>_token_hash = $1 AND <kind>_sent_at > now() - ttl
Matches(a, k, t) == a \in Live /\ accounts[a].slot[k] = Fresh(t)

-----------------------------------------------------------------------------
(* Statements that write.  An UPDATE of a row that is gone changes nothing *)
(* and is no error.                                                        *)

Write(a, row) == accounts' = IF a \in Live THEN [accounts EXCEPT ![a] = row] ELSE accounts

\* Fault: the column verified defaults to true.
VerifiedRow(e, f) == [email |-> e, ftId |-> f, verified |-> TRUE,
                      pending |-> NoEmail, slot |-> [k \in Kinds |-> Empty]]

NewRow(e, f) == [email |-> e, ftId |-> f, verified |-> FALSE,
                 pending |-> NoEmail, slot |-> [k \in Kinds |-> Empty]]

CreateAccount(a, e, f) ==
    /\ a \notin created
    /\ \A b \in Live : accounts[b].email # e /\ accounts[b].ftId # f
    /\ created' = created \cup {a}
    /\ accounts' = [b \in Live \cup {a} |-> IF b = a THEN NewRow(e, f) ELSE accounts[b]]

\* Fault: no unique index on the address.
UpdateAnyEmail(a, e) == Write(a, [accounts[a] EXCEPT !.email = e])

UpdateEmail(a, e) ==
    /\ a \in Live => ~EmailTaken(e, a)
    /\ Write(a, [accounts[a] EXCEPT !.email = e])

\* Fault: verify_sent_at is left NULL.
SetVerifyHash(a, t) ==
    Write(a, [accounts[a] EXCEPT !.verified = FALSE,
                                 !.slot["verify"] = [token |-> t, age |-> "none"]])

SetVerifyToken(a, t) ==
    Write(a, [accounts[a] EXCEPT !.verified = FALSE, !.slot["verify"] = Fresh(t)])

VerifyByToken(a, t) ==
    /\ Matches(a, "verify", t)
    /\ Write(a, [accounts[a] EXCEPT !.verified = TRUE, !.slot["verify"] = Empty])

SetLoginToken(a, t) == Write(a, [accounts[a] EXCEPT !.slot["login"] = Fresh(t)])

\* Fault: the token hash is not cleared.
LoginTokenKept(a, t) ==
    /\ Matches(a, "login", t)
    /\ Write(a, [accounts[a] EXCEPT !.verified = TRUE])

ConsumeLoginToken(a, t) ==
    /\ Matches(a, "login", t)
    /\ Write(a, [accounts[a] EXCEPT !.verified = TRUE, !.slot["login"] = Empty])

SetEmailChange(a, e, t) ==
    Write(a, [accounts[a] EXCEPT !.pending = e, !.slot["change"] = Fresh(t)])

\* ConsumeEmailChange is one statement, but not one step.  Its WITH query finds the
\* row by the token's hash, as of the statement's start; the UPDATE joins on the id
\* alone.  If another statement has changed the row in between, READ COMMITTED has
\* the UPDATE apply to the new row, on which the hash is not compared again: it
\* promotes the address that is pending by then.  (The other redemptions compare
\* the hash on the row they update, and so find nothing if it has changed.)
Promotable(a) == a \in Live /\ accounts[a].pending # NoEmail /\ ~EmailTaken(accounts[a].pending, a)

PromotePending(a) ==
    /\ Promotable(a)
    /\ Write(a, [accounts[a] EXCEPT !.email = accounts[a].pending,
                                    !.pending = NoEmail, !.slot["change"] = Empty])

SetDeleteToken(a, t) == Write(a, [accounts[a] EXCEPT !.slot["delete"] = Fresh(t)])

\* Fault: sessions.account_id without ON DELETE CASCADE (or a foreign key).
DeleteAccountRows(gone) ==
    /\ accounts' = Restrict(accounts, Live \ gone)
    /\ UNCHANGED sessions

\* DELETE FROM accounts: sessions.account_id is ON DELETE CASCADE.
DeleteRows(gone) ==
    /\ accounts' = Restrict(accounts, Live \ gone)
    /\ sessions' = Restrict(sessions, {s \in DOMAIN sessions : sessions[s] \notin gone})

DeleteByToken(a, t) ==
    /\ Matches(a, "delete", t)
    /\ DeleteRows({a})

\* Fault: the purge only looks at the sent-at.
StaleLink(a) == accounts[a].slot["verify"].age = "stale"

Reapable(a) == ~accounts[a].verified /\ accounts[a].slot["verify"].age = "stale"

PurgeUnverifiedAccounts ==
    /\ \E a \in Live : Reapable(a)
    /\ DeleteRows({a \in Live : Reapable(a)})

\* The foreign key refuses a session of an account that is gone.
CreateSession(s, a) ==
    /\ s \notin DOMAIN sessions
    /\ a \in Live
    /\ sessions' = [x \in DOMAIN sessions \cup {s} |-> IF x = s THEN a ELSE sessions[x]]

DeleteSessions(gone) == sessions' = Restrict(sessions, DOMAIN sessions \ gone)

-----------------------------------------------------------------------------
(* The passing of time: a slot's sent-at leaves its token's TTL, and a     *)
(* verification sent-at later leaves the grace window as well.  Slots age  *)
(* one by one: no property compares two sent-at times.                     *)

Age(a, k) ==
    /\ a \in Live
    /\ \/ /\ accounts[a].slot[k].age = "fresh"
          /\ Write(a, [accounts[a] EXCEPT !.slot[k].age = "expired"])
       \/ /\ k = "verify"
          /\ accounts[a].slot[k].age = "expired"
          /\ Write(a, [accounts[a] EXCEPT !.slot[k].age = "stale"])

-----------------------------------------------------------------------------

StoreTypeOK ==
    /\ created \subseteq AccountIds
    /\ Live \subseteq created
    /\ accounts \in [Live -> Row]
    /\ DOMAIN sessions \subseteq Sids
    /\ sessions \in [DOMAIN sessions -> AccountIds]

\* The constraints of the schema: the UNIQUE indexes on email and ft_id, and the
\* foreign key of sessions.account_id with its ON DELETE CASCADE.  The statements
\* above keep them between them, whichever order the handlers run them in.
IdentitiesUnique ==
    \A a, b \in Live : a # b => /\ accounts[a].email # accounts[b].email
                                /\ accounts[a].ftId # accounts[b].ftId

SessionsOfLiveAccounts == \A s \in DOMAIN sessions : sessions[s] \in Live

=============================================================================
