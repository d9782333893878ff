-------------------------------- MODULE SignIn --------------------------------
(***************************************************************************)
(* Sign-in with 42 and the alerts about it, in one process: the requests   *)
(* of TokenExchange, the periodic check and the mails of MaintainerAlerts. *)
(* A request that ends rejected starts a goroutine for the alert           *)
(* (renderTokenExchangeFailure in web/oauth.go) and is answered without    *)
(* waiting for it.  A deployment ends everything at once.                  *)
(***************************************************************************)
EXTENDS TokenExchange

CONSTANTS Max,      \* mails about one key in a window
          Window,   \* maintainerAlertDedupWindow, in ticks
          Lead      \* secretExpiryLeadWindow, in ticks

ASSUME AlertAssumption == Lead \in Nat \ {0} /\ Max = 1 /\ Window \in Nat \ {0, 1}

VARIABLES
    cfg, left, marks, sending, mails,   \* as in MaintainerAlerts
    toReport     \* requests whose alert goroutine has not run yet

alertVars == <<cfg, left, marks, sending, mails>>
sys == <<vars, alertVars, toReport>>

Alerts == INSTANCE MaintainerAlerts

SysInit == Init /\ Alerts!Init /\ cfg.staged = staged /\ toReport = {}

\* 42 rejects the secret of a round trip; the last one's goroutine is started.
Refuse(r) ==
    /\ Rejected(r)
    /\ toReport' = IF pc'[r] = "rejected" THEN toReport \cup {r} ELSE toReport
    /\ UNCHANGED alertVars

\* The other steps of a request.  Another takes its place when its goroutines
\* have ended.
Answer(r) ==
    /\ \/ Begin(r) \/ Accepted(r) \/ Latch(r) \/ Failed(r)
       \/ Again(r) /\ r \notin toReport \cup DOMAIN sending
    /\ UNCHANGED <<alertVars, toReport>>

\* The goroutine of a rejected request, up to the mail call.
Report(r) ==
    /\ r \in toReport /\ toReport' = toReport \ {r}
    /\ Alerts!Rejected(r)
    /\ UNCHANGED vars

Check == Alerts!Check /\ UNCHANGED <<vars, toReport>>
MailOut(s) == Alerts!MailOut(s) /\ UNCHANGED <<vars, toReport>>
MailFailed(s) == Alerts!MailFailed(s) /\ UNCHANGED <<vars, toReport>>
Prune == Alerts!Prune /\ UNCHANGED <<vars, toReport>>
Tick == Alerts!Tick /\ UNCHANGED <<vars, toReport>>

RotateAt42 == Rotate /\ UNCHANGED <<alertVars, toReport>>

Redeploy ==
    /\ Restart /\ Alerts!Deploy
    /\ cfg'.staged = staged' /\ toReport' = {}

SysNext ==
    \/ \E r \in Requests : Refuse(r) \/ Answer(r) \/ Report(r)
    \/ \E s \in Alerts!Senders : MailOut(s) \/ MailFailed(s)
    \/ Check \/ Prune \/ Tick \/ RotateAt42 \/ Redeploy

SysSpec == SysInit /\ [][SysNext]_sys

\* Goroutines run, the check loop runs and time passes; a mail call ends, and
\* the mail API does not refuse for ever.  Nothing is assumed of visitors and
\* 42.
SysFairSpec ==
    /\ SysSpec
    /\ WF_sys(Check) /\ WF_sys(Tick)
    /\ \A r \in Requests : WF_sys(Report(r))
    /\ \A s \in Alerts!Senders : SF_sys(MailOut(s))

-----------------------------------------------------------------------------
\* The properties of MaintainerAlerts, with rejections that really happen.
OncePerWindow == Alerts!OncePerWindow
MutedOnlyByMail == Alerts!MutedOnlyByMail
OutageReported == Alerts!OutageReported

(* "sign-in is broken" is mailed while sign-ins are being refused, and not
   only the first time: if requests keep ending rejected, with an inbox
   configured and no further deployment, such a mail keeps going out however
   the refusals fall between the windows and whichever of them were muted. *)
SomeRejected == cfg.inbox /\ \E r \in Requests : pc[r] # "rejected" /\ pc'[r] = "rejected"

RefusalsReported ==
    []<><<SomeRejected>>_sys /\ <>[][~Redeploy]_sys => []<>Alerts!Reported
=============================================================================
