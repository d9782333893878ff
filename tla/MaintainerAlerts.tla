-------------------------- MODULE MaintainerAlerts --------------------------
(***************************************************************************)
(* The alerts about the 42 client secret: which one is due                 *)
(* (web/secret_rotation.go), and how each is mailed at most once per       *)
(* window (sendMaintainerAlert in web/alerts.go) by the periodic check and *)
(* by requests whose token exchange 42 refused (web/oauth.go).             *)
(*                                                                         *)
(* The limiter's lock covers only take and clear; the mail goes out        *)
(* between them.  Mail calls end within 15 seconds (email.New's timeout),  *)
(* so one may straddle one tick of the window of 24 hours, never two.  A   *)
(* call that reports an error may have delivered its mail all the same: it *)
(* timed out, or the answer was lost after the provider took the mail      *)
(* (resendSender.send).                                                    *)
(***************************************************************************)
EXTENDS AttemptLimiter

CONSTANTS Requests,   \* goroutines of failed exchanges, as many as run at once
          Lead        \* secretExpiryLeadWindow, in ticks

Checker == "checker"                 \* the goroutine of Serve
Senders == Requests \cup {Checker}

AlertKeys == {"secret-promote-reminder", "secret-broken", "secret-expiry-reminder"}

Config == [inbox : BOOLEAN,          \* MaintainerEmail is set
           dated : BOOLEAN,          \* ClientSecretExpiry is set
           staged : BOOLEAN]         \* ClientSecretNext is set

VARIABLES
    cfg,
    left,        \* ticks until the configured expiry; 0 any time after, or none
    marks,       \* s.maintainerAlerts
    sending,     \* alerts being mailed: sender -> key and age
    mails        \* mails of each key whose call succeeded, by when they were due (history)

vars == <<cfg, left, marks, sending, mails>>

Alert(key) == [key |-> key, age |-> 0]

NoSends == [s \in {} |-> {}]
NoMails == [k \in AlertKeys |-> {}]

\* Fault: an expired secret is only reported while it still could be replaced.
NoneDueAfterExpiry ==
    IF ~cfg.dated THEN {}
    ELSE {k \in AlertKeys :
            \/ k = "secret-promote-reminder" /\ cfg.staged /\ left = 0
            \/ k = "secret-expiry-reminder" /\ ~cfg.staged /\ 0 < left /\ left <= Lead}

\* secretExpiryAlert: no alert or one.
DueAlert ==
    IF ~cfg.dated THEN {}
    ELSE {k \in AlertKeys :
            \/ k = "secret-promote-reminder" /\ cfg.staged /\ left = 0
            \/ k = "secret-broken" /\ ~cfg.staged /\ left = 0
            \/ k = "secret-expiry-reminder" /\ ~cfg.staged /\ 0 < left /\ left <= Lead}

Init ==
    /\ cfg \in Config /\ left \in IF cfg.dated THEN 0 .. Lead + 1 ELSE {0}
    /\ marks = NoAttempts /\ sending = NoSends /\ mails = NoMails

Idle(s) == s \notin DOMAIN sending

\* Fault: only a mail that went out charges the window.
SendUncharged(s, key) ==
    /\ Idle(s) /\ Allowed(marks, key) /\ cfg.inbox
    /\ sending' = [t \in DOMAIN sending \cup {s} |->
                      IF t = s THEN Alert(key) ELSE sending[t]]
    /\ UNCHANGED <<cfg, left, marks, mails>>

\* sendMaintainerAlert up to the mail call.  With no inbox it ends here, the
\* alert logged and the window charged.
StartAlert(s, key) ==
    /\ Idle(s)
    /\ marks' = Taken(marks, key)
    /\ sending' = IF Allowed(marks, key) /\ cfg.inbox
                  THEN [t \in DOMAIN sending \cup {s} |->
                           IF t = s THEN Alert(key) ELSE sending[t]]
                  ELSE sending
    /\ UNCHANGED <<cfg, left, mails>>

\* checkSecretExpiry, at startup and then every 30 minutes.
Check == \E key \in DueAlert : StartAlert(Checker, key)

\* renderTokenExchangeFailure, when 42 refused the secret (no retry left).
Rejected(r) == StartAlert(r, "secret-broken")

Done(s) == sending' = Restrict(sending, DOMAIN sending \ {s})

MailOut(s) ==
    /\ ~Idle(s) /\ Done(s)
    /\ LET k == sending[s].key
       IN  mails' = [mails EXCEPT ![k] = Noted(mails[k], sending[s].age)]
    /\ UNCHANGED <<cfg, left, marks>>

\* Fault: a mail that failed counts as sent.
MailLost(s) ==
    /\ ~Idle(s) /\ Done(s)
    /\ UNCHANGED <<cfg, left, marks, mails>>

\* The call reported an error, with its mail delivered or not: clear the key, so that
\* the next call tries again.
MailFailed(s) ==
    /\ ~Idle(s) /\ Done(s)
    /\ marks' = Cleared(marks, sending[s].key)
    /\ UNCHANGED <<cfg, left, mails>>

Prune == marks' = Pruned(marks) /\ UNCHANGED <<cfg, left, sending, mails>>

\* A restart, with a new configuration or the same.
Deploy ==
    /\ cfg' \in Config /\ left' \in IF cfg'.dated THEN 0 .. Lead + 1 ELSE {0}
    /\ marks' = NoAttempts /\ sending' = NoSends /\ mails' = NoMails

Tick ==
    /\ \A s \in DOMAIN sending : sending[s].age = 0
    /\ left' = IF left = 0 THEN 0 ELSE left - 1
    /\ marks' = Aged(marks)
    /\ sending' = [s \in DOMAIN sending |-> [sending[s] EXCEPT !.age = 1]]
    /\ mails' = [k \in AlertKeys |-> Older(Recent(mails[k]))]
    /\ UNCHANGED cfg

Next ==
    \/ Check
    \/ \E r \in Requests : Rejected(r)
    \/ \E s \in Senders : MailOut(s) \/ MailFailed(s)
    \/ Prune \/ Deploy \/ Tick

Spec == Init /\ [][Next]_vars

-----------------------------------------------------------------------------
(* "at most once per maintainerAlertDedupWindow per key" (alerts.go:20-22), as far as
   the server can know, whoever notices first: a call, whose mail may arrive whatever
   the call reports, starts a window or more after every mail whose call succeeded, and
   calls for one key do not overlap.  So of two mails that arrive within a window, the
   call of the first one had reported an error. *)
OncePerWindow ==
    /\ \A k \in AlertKeys : \A m, n \in mails[k] :
          m # n => m.age >= n.age + Window \/ n.age >= m.age + Window
    /\ \A s \in DOMAIN sending : \A m \in mails[sending[s].key] :
          m.age >= sending[s].age + Window
    /\ \A s, t \in DOMAIN sending : s # t => sending[s].key # sending[t].key

(* "a failed email is cleared so the next call retries it": while a key is
   muted, a call mailed it with success in this window or is still at it.  A call
   that fails never mutes the alert, and clears no other mail's mark. *)
MutedOnlyByMail ==
    \A k \in AlertKeys :
        cfg.inbox /\ ~Allowed(marks, k) =>
            \/ Recent(mails[k]) # {}
            \/ \E s \in DOMAIN sending : sending[s].key = k

(* An outage gets through: with an inbox and an expiry date configured, and
   nothing staged to take over, an expired secret leads to a mail saying that
   sign-in is broken, unless the server is deployed again first, also where
   the secret had expired before the server started. *)
Broken == cfg.inbox /\ cfg.dated /\ ~cfg.staged /\ left = 0

Reported == mails["secret-broken"] # {}

OutageReported == Broken ~> (Reported \/ ~Broken)
=============================================================================
