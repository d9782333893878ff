------------------------------ MODULE Accounts ------------------------------
(***************************************************************************)
(* The account handlers of internal/web: sign-up, e-mail verification,     *)
(* magic-link and 42 login, e-mail change, deletion, logout and the        *)
(* periodic purge, over the tables of AccountStore.                        *)
(*                                                                         *)
(* A handler runs in its own goroutine and its database statements         *)
(* interleave with those of every other handler, so a request is a record  *)
(* with a program counter and each statement is an action: what a handler  *)
(* read stays in the record while the tables move on.  A statement may     *)
(* fail, the client may disconnect (r.Context() is cancelled) and the      *)
(* process may be killed at any point: Abort drops the request where it    *)
(* stands, and where a handler goes on after a failure it has an action.   *)
(*                                                                         *)
(* Mail is the set of links ever handed to the mailer.  A send that fails  *)
(* is a link nobody clicks; a link in an inbox may be clicked at any time, *)
(* any number of times, by whoever holds it.                               *)
(*                                                                         *)
(* Left out: the rate limiters (a refused request changes nothing here),   *)
(* the page a response renders, and the peek handlers (GET of a link),     *)
(* which only read.                                                        *)
(***************************************************************************)
EXTENDS AccountStore

CONSTANTS
    Reqs,         \* requests in flight at once
    NoAccount, NoSid

ASSUME HandlerSentinels == NoAccount \notin AccountIds /\ NoSid \notin Sids

VARIABLES
    reqs,         \* the requests in flight
    links,        \* links mailed so far: what the inboxes hold
    redeemed      \* tokens some redemption has used (history)

vars == <<accounts, sessions, created, reqs, links, redeemed>>

Link == [token : Tokens, kind : Kinds, acct : AccountIds, to : Emails]

Steps == {"idle", "signupSession", "issueVerify", "correctEmail",
          "findLogin", "issueLogin", "startSession",
          "probeChange", "issueChange", "issueDelete",
          "promote", "ownBrowser", "rotate", "dropRotated", "dropOthers", "dropAll", "changed"}

Request == [pc : Steps,
            acct : AccountIds \cup {NoAccount},   \* the account the handler resolved
            email : Emails \cup {NoEmail},        \* the address it works with
            sid : Sids \cup {NoSid},              \* the session its cookie names
            keep : Sids \cup {NoSid},             \* the session it rotated to
            token : Tokens \cup {NoToken},        \* the e-mail change token it has matched
            before : SUBSET Sids,                 \* sessions open when the change applied
            warned : BOOLEAN]                     \* signing them out failed and was logged

Idle == [pc |-> "idle", acct |-> NoAccount, email |-> NoEmail,
         sid |-> NoSid, keep |-> NoSid, token |-> NoToken, before |-> {}, warned |-> FALSE]

At(pc, a, e) == [Idle EXCEPT !.pc = pc, !.acct = a, !.email = e]

Init ==
    /\ StoreInit
    /\ reqs = [r \in Reqs |-> Idle]
    /\ links = {}
    /\ redeemed = {}

Begin(r, req) ==
    /\ reqs[r] = Idle
    /\ reqs' = [reqs EXCEPT ![r] = req]

Goto(r, req) == reqs' = [reqs EXCEPT ![r] = req]
Done(r) == Goto(r, Idle)

\* randomToken: a value nothing refers to yet.
FreshToken(t) == \A l \in links : l.token # t
FreshSid(s) ==
    /\ s \notin DOMAIN sessions
    /\ \A r \in Reqs : s \notin reqs[r].before \cup {reqs[r].sid, reqs[r].keep}

Mail(t, k, a, e) ==
    links' = links \cup {[token |-> t, kind |-> k, acct |-> a, to |-> e]}

\* The account of the session cookie the request carries, if its row is there.
LoggedIn(a) == SessionsOf(a) # {}

-----------------------------------------------------------------------------
(* Sign-up: CreateAccount, then the session, then the verification link.   *)

Signup(r) ==
    /\ \E a \in AccountIds, e \in Emails, f \in FtIds :
          /\ CreateAccount(a, e, f)
          /\ Begin(r, At("signupSession", a, e))
    /\ UNCHANGED <<sessions, links, redeemed>>

SignupSession(r) ==
    /\ reqs[r].pc = "signupSession"
    /\ \E s \in Sids : FreshSid(s) /\ CreateSession(s, reqs[r].acct)
    /\ Goto(r, [reqs[r] EXCEPT !.pc = "issueVerify"])
    /\ UNCHANGED <<accounts, created, links, redeemed>>

-----------------------------------------------------------------------------
(* Verification: the link, its resend, and the correction of the address.  *)
(* requireUnverified reads the account once; both handlers write on what   *)
(* it returned.                                                            *)

IssueVerification(r) ==
    /\ reqs[r].pc = "issueVerify"
    /\ \E t \in Tokens :
          /\ FreshToken(t)
          /\ SetVerifyToken(reqs[r].acct, t)
          /\ Mail(t, "verify", reqs[r].acct, reqs[r].email)
    /\ Done(r)
    /\ UNCHANGED <<sessions, created, redeemed>>

Unverified(a) == LoggedIn(a) /\ ~accounts[a].verified

\* Fault: a resend only replaces a link that is there.
VerifyResendPending(r) ==
    /\ \E a \in Live : /\ Unverified(a) /\ accounts[a].slot["verify"] # Empty
                       /\ Begin(r, At("issueVerify", a, accounts[a].email))
    /\ UNCHANGED <<storeVars, links, redeemed>>

VerifyResend(r) ==
    /\ \E a \in Live : Unverified(a) /\ Begin(r, At("issueVerify", a, accounts[a].email))
    /\ UNCHANGED <<storeVars, links, redeemed>>

VerifyEmailChange(r) ==
    /\ \E a \in Live, e \in Emails : Unverified(a) /\ Begin(r, At("correctEmail", a, e))
    /\ UNCHANGED <<storeVars, links, redeemed>>

CorrectEmail(r) ==
    /\ reqs[r].pc = "correctEmail"
    /\ UpdateEmail(reqs[r].acct, reqs[r].email)
    /\ Goto(r, [reqs[r] EXCEPT !.pc = "issueVerify"])
    /\ UNCHANGED <<sessions, created, links, redeemed>>

\* Following a verification link.  The session is only read, for the page.
VerifyEmail ==
    /\ \E l \in links : /\ VerifyByToken(l.acct, l.token)
                        /\ redeemed' = redeemed \cup {l.token}
    /\ UNCHANGED <<sessions, created, reqs, links>>

-----------------------------------------------------------------------------
(* Logging in, by magic link or through 42, and logging out.               *)

\* The lookup runs in a goroutine after the response, on a background context.
Login(r) ==
    /\ \E e \in Emails : Begin(r, At("findLogin", NoAccount, e))
    /\ UNCHANGED <<storeVars, links, redeemed>>

FindLogin(r) ==
    /\ reqs[r].pc = "findLogin"
    /\ \/ \E a \in Live : /\ accounts[a].email = reqs[r].email
                          /\ Goto(r, At("issueLogin", a, accounts[a].email))
       \/ /\ \A a \in Live : accounts[a].email # reqs[r].email
          /\ Done(r)
    /\ UNCHANGED <<storeVars, links, redeemed>>

IssueLoginLink(r) ==
    /\ reqs[r].pc = "issueLogin"
    /\ \E t \in Tokens :
          /\ FreshToken(t)
          /\ SetLoginToken(reqs[r].acct, t)
          /\ Mail(t, "login", reqs[r].acct, reqs[r].email)
    /\ Done(r)
    /\ UNCHANGED <<sessions, created, redeemed>>

LoginConsume(r) ==
    /\ \E l \in links : /\ ConsumeLoginToken(l.acct, l.token)
                        /\ redeemed' = redeemed \cup {l.token}
                        /\ Begin(r, At("startSession", l.acct, NoEmail))
    /\ UNCHANGED <<sessions, created, links>>

\* The 42 identity of the OAuth code is that of some account.  A returning
\* user's sync sign-in (handleSyncSignin) starts its session in the same two
\* steps: the account was looked up by 42 id, and is used some time later.
LoginFlow(r) ==
    /\ \E a \in Live : Begin(r, At("startSession", a, NoEmail))
    /\ UNCHANGED <<storeVars, links, redeemed>>

StartSession(r) ==
    /\ reqs[r].pc = "startSession"
    /\ \E s \in Sids : FreshSid(s) /\ CreateSession(s, reqs[r].acct)
    /\ Done(r)
    /\ UNCHANGED <<accounts, created, links, redeemed>>

Logout ==
    /\ \E s \in DOMAIN sessions : DeleteSessions({s})
    /\ UNCHANGED <<accounts, created, reqs, links, redeemed>>

-----------------------------------------------------------------------------
(* Changing the address of a verified account: request, probe, link, and   *)
(* the confirmation, which rotates the session of the account's own        *)
(* browser and signs out the others.                                       *)

Verified(a) == LoggedIn(a) /\ accounts[a].verified

SettingsEmail(r) ==
    /\ \E a \in Live, e \in Emails : /\ Verified(a)
                                     /\ e # accounts[a].email
                                     /\ Begin(r, At("probeChange", a, e))
    /\ UNCHANGED <<storeVars, links, redeemed>>

ProbeChange(r) ==
    /\ reqs[r].pc = "probeChange"
    /\ Goto(r, IF \E b \in Live : accounts[b].email = reqs[r].email
               THEN Idle
               ELSE [reqs[r] EXCEPT !.pc = "issueChange"])
    /\ UNCHANGED <<storeVars, links, redeemed>>

IssueEmailChange(r) ==
    /\ reqs[r].pc = "issueChange"
    /\ \E t \in Tokens :
          /\ FreshToken(t)
          /\ SetEmailChange(reqs[r].acct, reqs[r].email, t)
          /\ Mail(t, "change", reqs[r].acct, reqs[r].email)
    /\ Done(r)
    /\ UNCHANGED <<sessions, created, redeemed>>

\* Fault: a link works however old it is.
ConfirmAnyAge(r) ==
    /\ \E l \in links, s \in DOMAIN sessions \cup {NoSid} :
          /\ MatchesAnyAge(l.acct, "change", l.token)
          /\ Begin(r, [At("promote", l.acct, NoEmail) EXCEPT !.sid = s, !.token = l.token])
    /\ UNCHANGED <<storeVars, links, redeemed>>

\* ConsumeEmailChange has matched the link.  The request carries the session cookie
\* s, or none that resolves (NoSid).
ConfirmEmailConsume(r) ==
    /\ \E l \in links, s \in DOMAIN sessions \cup {NoSid} :
          /\ Matches(l.acct, "change", l.token)
          /\ Begin(r, [At("promote", l.acct, NoEmail) EXCEPT !.sid = s, !.token = l.token])
    /\ UNCHANGED <<storeVars, links, redeemed>>

\* ... and now promotes, or changes nothing: the row is gone (ErrNotFound), nothing
\* is pending any more (another error), or the address is taken (ErrDuplicate).
PromoteEmail(r) ==
    /\ reqs[r].pc = "promote"
    /\ \/ /\ PromotePending(reqs[r].acct)
          /\ redeemed' = redeemed \cup {reqs[r].token}
          /\ Goto(r, [reqs[r] EXCEPT !.pc = "ownBrowser", !.token = NoToken,
                                     !.before = SessionsOf(reqs[r].acct)])
       \/ /\ ~Promotable(reqs[r].acct)
          /\ Done(r)
          /\ UNCHANGED <<accounts, redeemed>>
    /\ UNCHANGED <<sessions, created, links>>

\* currentAccount is read after the change has been applied; a failing read
\* counts as no session.
OwnBrowser(r) ==
    /\ reqs[r].pc = "ownBrowser"
    /\ \/ /\ reqs[r].sid \in SessionsOf(reqs[r].acct)
          /\ Goto(r, [reqs[r] EXCEPT !.pc = "rotate"])
       \/ Goto(r, [reqs[r] EXCEPT !.pc = "dropAll"])
    /\ UNCHANGED <<storeVars, links, redeemed>>

RotateSession(r) ==
    /\ reqs[r].pc = "rotate"
    /\ \E s \in Sids :
          /\ FreshSid(s)
          /\ CreateSession(s, reqs[r].acct)
          /\ Goto(r, [reqs[r] EXCEPT !.pc = "dropRotated", !.keep = s])
    /\ UNCHANGED <<accounts, created, links, redeemed>>

\* The new row may be there all the same.  The other sessions are left alone, and
\* the change is reported complete.
RotateFails(r) ==
    /\ reqs[r].pc = "rotate"
    /\ \/ \E s \in Sids : FreshSid(s) /\ CreateSession(s, reqs[r].acct)
       \/ UNCHANGED sessions
    /\ Goto(r, [reqs[r] EXCEPT !.pc = "changed", !.warned = TRUE])
    /\ UNCHANGED <<accounts, created, links, redeemed>>

\* rotateSession ignores a failure to delete the old row.
DropRotated(r) ==
    /\ reqs[r].pc = "dropRotated"
    /\ \E gone \in {{}, {reqs[r].sid}} : DeleteSessions(gone)
    /\ Goto(r, [reqs[r] EXCEPT !.pc = "dropOthers"])
    /\ UNCHANGED <<accounts, created, links, redeemed>>

\* Fault: the session that was rotated away is the one that is kept.
DropAllButOld(r) ==
    /\ reqs[r].pc \in {"dropOthers", "dropAll"}
    /\ DeleteSessions(SessionsOf(reqs[r].acct) \ {reqs[r].sid})
    /\ Goto(r, [reqs[r] EXCEPT !.pc = "changed"])
    /\ UNCHANGED <<accounts, created, links, redeemed>>

\* DeleteOtherSessions, keeping the rotated session or, elsewhere, none.
DropOthers(r) ==
    /\ reqs[r].pc \in {"dropOthers", "dropAll"}
    /\ DeleteSessions(SessionsOf(reqs[r].acct) \ {reqs[r].keep})
    /\ Goto(r, [reqs[r] EXCEPT !.pc = "changed"])
    /\ UNCHANGED <<accounts, created, links, redeemed>>

\* Again only logged; the statement may have taken effect.
DropFails(r) ==
    /\ reqs[r].pc \in {"dropOthers", "dropAll"}
    /\ \/ DeleteSessions(SessionsOf(reqs[r].acct) \ {reqs[r].keep})
       \/ UNCHANGED sessions
    /\ Goto(r, [reqs[r] EXCEPT !.pc = "changed", !.warned = TRUE])
    /\ UNCHANGED <<accounts, created, links, redeemed>>

Respond(r) ==
    /\ reqs[r].pc = "changed"
    /\ Done(r)
    /\ UNCHANGED <<storeVars, links, redeemed>>

-----------------------------------------------------------------------------
(* Deleting the account: a verified session asks, the mailed link acts.    *)

RequestDelete(r) ==
    /\ \E a \in Live : Verified(a) /\ Begin(r, At("issueDelete", a, accounts[a].email))
    /\ UNCHANGED <<storeVars, links, redeemed>>

IssueDeletion(r) ==
    /\ reqs[r].pc = "issueDelete"
    /\ \E t \in Tokens :
          /\ FreshToken(t)
          /\ SetDeleteToken(reqs[r].acct, t)
          /\ Mail(t, "delete", reqs[r].acct, reqs[r].email)
    /\ Done(r)
    /\ UNCHANGED <<sessions, created, redeemed>>

\* The session rows cascade; endSession then only clears the cookie.
ConfirmDelete ==
    /\ \E l \in links : /\ DeleteByToken(l.acct, l.token)
                        /\ redeemed' = redeemed \cup {l.token}
    /\ UNCHANGED <<created, reqs, links>>

-----------------------------------------------------------------------------
(* The rest of the environment.                                            *)

\* The half-hourly purge of never-verified accounts.
Purge ==
    /\ PurgeUnverifiedAccounts
    /\ UNCHANGED <<created, reqs, links, redeemed>>

ExpireSession ==
    /\ \E s \in DOMAIN sessions : DeleteSessions({s})
    /\ UNCHANGED <<accounts, created, reqs, links, redeemed>>

AgeSlot(a, k) ==
    /\ Age(a, k)
    /\ UNCHANGED <<sessions, created, reqs, links, redeemed>>

Abort(r) ==
    /\ reqs[r].pc \notin {"idle", "changed"}
    /\ Done(r)
    /\ UNCHANGED <<storeVars, links, redeemed>>

-----------------------------------------------------------------------------

\* The statements a request in flight has left to run.
Continue(r) ==
    \/ SignupSession(r) \/ IssueVerification(r) \/ CorrectEmail(r)
    \/ FindLogin(r) \/ IssueLoginLink(r) \/ StartSession(r)
    \/ ProbeChange(r) \/ IssueEmailChange(r) \/ IssueDeletion(r)
    \/ PromoteEmail(r) \/ OwnBrowser(r) \/ RotateSession(r) \/ RotateFails(r)
    \/ DropRotated(r) \/ DropOthers(r) \/ DropFails(r) \/ Respond(r)

Arrive(r) ==
    \/ Signup(r) \/ VerifyResend(r) \/ VerifyEmailChange(r)
    \/ Login(r) \/ LoginConsume(r) \/ LoginFlow(r)
    \/ SettingsEmail(r) \/ ConfirmEmailConsume(r) \/ RequestDelete(r)

Next ==
    \/ \E r \in Reqs : Arrive(r) \/ Continue(r) \/ Abort(r)
    \/ VerifyEmail \/ Logout \/ ConfirmDelete
    \/ Purge \/ ExpireSession \/ \E a \in AccountIds, k \in Kinds : AgeSlot(a, k)

Spec == Init /\ [][Next]_vars

\* Time passes, the purge loop runs every half hour, and a handler or its
\* goroutine that is not dropped runs its next statement.
Fairness ==
    /\ \A a \in AccountIds : WF_vars(AgeSlot(a, "verify"))
    /\ WF_vars(Purge)
    /\ \A r \in Reqs : WF_vars(Continue(r))

FairSpec == Spec /\ Fairness

-----------------------------------------------------------------------------
(* Properties. *)

TypeOK ==
    /\ StoreTypeOK
    /\ reqs \in [Reqs -> Request]
    /\ links \subseteq Link
    /\ redeemed \subseteq Tokens

\* A token a row still holds is one that was mailed for that row and that
\* purpose, to the address it will be promoted to if it is an e-mail change, and
\* that nobody has redeemed: a link works once, for one account, for one thing,
\* whatever resends, corrections and redemptions interleave.
LiveTokenIsMailed ==
    \A a \in Live, k \in Kinds :
        LET t == accounts[a].slot[k].token IN
        t # NoToken =>
            /\ t \notin redeemed
            /\ \E l \in links : /\ l.token = t /\ l.kind = k /\ l.acct = a
                                /\ k = "change" => l.to = accounts[a].pending

\* An account counts as verified only after a verification or login link mailed
\* for it was followed.
ProvenOnce(a) ==
    \E l \in links : /\ l.acct = a /\ l.token \in redeemed
                     /\ l.kind \in {"verify", "login"}

VerifiedByLink == \A a \in Live : accounts[a].verified => ProvenOnce(a)

\* The verified gate (gateUnverified), although read well before the write it
\* guards: no deletion or e-mail change link is ever mailed for an account that
\* was never verified.
GatedLinks == \A l \in links : l.kind \in {"change", "delete"} => ProvenOnce(l.acct)

\* An account disappears only by its own deletion link, still outstanding when it
\* is followed, or by the purge of a sign-up that is unverified a week after its
\* last link: no other interleaving of handlers removes a row.
RemovedOnPurpose ==
    [][\A a \in Live \ DOMAIN accounts' :
          \/ accounts[a].slot["delete"].age = "fresh" /\
             accounts[a].slot["delete"].token \in redeemed' \ redeemed
          \/ ~accounts[a].verified /\ accounts[a].slot["verify"].age = "stale"]_vars

\* A confirmed e-mail change that is answered has signed out every session the
\* account had when the address changed, that of the confirming browser (which has
\* been replaced) included, also where deleting the rotated row failed; or else it
\* has logged that it could not (handleConfirmEmailConsume).
ChangeSignsOut ==
    \A r \in Reqs : reqs[r].pc = "changed" =>
        reqs[r].warned \/ reqs[r].before \cap SessionsOf(reqs[r].acct) = {}

\* A verification link that was sent is settled in the end: the account is
\* verified, deleted or reaped, or another link replaces it.
LinkSettles ==
    \A a \in AccountIds, t \in Tokens :
        LET Waiting == /\ a \in Live
                       /\ ~accounts[a].verified
                       /\ accounts[a].slot["verify"].token = t
        IN  Waiting ~> ~Waiting

\* A sign-up that stopped between its row and its first link (handleSignup) holds
\* its address and its 42 identity, and the purge spares it: it has no sent-at.
Stranded(a) == /\ a \in Live /\ ~accounts[a].verified
               /\ accounts[a].slot["verify"].token = NoToken

\* The owner comes back: logs in through 42, again if that is interrupted, and
\* asks for another link; old sessions expire.
OwnerPersists ==
    /\ WF_vars(ExpireSession)
    /\ \A r \in Reqs : /\ SF_vars(LoginFlow(r)) /\ SF_vars(StartSession(r))
                       /\ SF_vars(VerifyResend(r)) /\ SF_vars(IssueVerification(r))

\* Such an owner is not locked out: a stranded account gets a link, is verified or
\* goes, short of the last token being used up.
SignupRecovers ==
    OwnerPersists =>
        \A a \in AccountIds : Stranded(a) ~> (~Stranded(a) \/ ~\E t \in Tokens : FreshToken(t))

\* The life of each token, read off the tables and the mailboxes.  A token mailed
\* for an account that is gone by then is dead on arrival.
Outstanding(t) == \E a \in Live, k \in Kinds : accounts[a].slot[k] = Fresh(t)

Life == [t \in Tokens |->
           CASE t \in redeemed -> "redeemed"
             [] t \notin redeemed /\ FreshToken(t) -> "unissued"
             [] t \notin redeemed /\ ~FreshToken(t) /\ Outstanding(t) -> "live"
             [] OTHER -> "dead"]

\* Tokens that a redemption has matched and not used yet: those of e-mail change
\* links, whose statement matches before it writes.
Claimed == {reqs[r].token : r \in Reqs} \ {NoToken}

\* The four kinds of link implement OneTimeLink over one pool of tokens.
Links == INSTANCE OneTimeLink WITH life <- Life, claimed <- Claimed
ImplementsOneTimeLink == Links!Spec

(* What comments of the repository say, and the code does not do. *)

\* Serve's comment: the purge removes "accounts that were never verified within
\* the grace window".
ReapsNeverVerified ==
    [][\A a \in Live \ DOMAIN accounts' : Reapable(a) => ~ProvenOnce(a)]_vars

\* SetEmailChange's comment: "The real email is untouched until the link sent to
\* newEmail is consumed".
PromotedByItsLink ==
    [][\A a \in Live \cap DOMAIN accounts' :
          accounts[a].pending # NoEmail /\ accounts'[a].pending = NoEmail =>
              \E l \in links : /\ l.kind = "change" /\ l.acct = a /\ l.to = accounts[a].pending
                              /\ l.token \in redeemed']_vars

=============================================================================
