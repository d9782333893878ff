--------------------------- MODULE AccountsProofs ---------------------------
(***************************************************************************)
(* Proofs about Accounts, for any number of accounts, addresses, links,    *)
(* sessions and concurrent requests.                                       *)
(***************************************************************************)
EXTENDS Accounts, TLAPS

\* A token is mailed in one link, and was mailed before it is redeemed.
LinkIds ==
    /\ \A l, m \in links : l.token = m.token => l = m
    /\ \A t \in redeemed : \E l \in links : l.token = t

USE SentinelAssumption, HandlerSentinels

-----------------------------------------------------------------------------
(* Rows and writes. *)

\* What assigning a slot, and columns beside it, makes of a row.
SlotSet(old, new, k, s) ==
    /\ new \in Row
    /\ new.slot[k] = s
    /\ \A j \in Kinds \ {k} : new.slot[j] = old.slot[j]

LEMMA AssignSlot ==
    ASSUME NEW row \in Row, NEW k \in Kinds, NEW s \in Slot
    PROVE  LET new == [row EXCEPT !.slot[k] = s] IN
           SlotSet(row, new, k, s) /\ new.pending = row.pending
  BY DEF Row, SlotSet

LEMMA AssignVerified ==
    ASSUME NEW row \in Row, NEW k \in Kinds, NEW s \in Slot, NEW v \in BOOLEAN
    PROVE  LET new == [row EXCEPT !.verified = v, !.slot[k] = s] IN
           SlotSet(row, new, k, s) /\ new.pending = row.pending
  BY DEF Row, SlotSet

LEMMA AssignEmail ==
    ASSUME NEW row \in Row, NEW k \in Kinds, NEW s \in Slot, NEW e \in Emails
    PROVE  SlotSet(row, [row EXCEPT !.email = e, !.pending = NoEmail, !.slot[k] = s], k, s)
  BY DEF Row, SlotSet

LEMMA SlotValues ==
    /\ Empty \in Slot
    /\ \A t \in Tokens : Fresh(t) \in Slot
    /\ \A s \in Slot, g \in Ages : [s EXCEPT !.age = g] \in Slot
  BY DEF Slot, Empty, Fresh, Ages

\* An UPDATE touches one row.
LEMMA WriteEffect ==
    ASSUME StoreTypeOK, NEW a, NEW row, Write(a, row), a \in Live => row \in Row
    PROVE  /\ Live' = Live
           /\ accounts' \in [Live -> Row]
           /\ a \in Live => accounts'[a] = row
           /\ \A b \in Live : b # a => accounts'[b] = accounts[b]
  BY DEF Write, StoreTypeOK, Live

-----------------------------------------------------------------------------
(* The three ways the account table and the mailboxes change together:     *)
(* a link is issued, a link is redeemed, rows go away.                     *)

TablesInv ==
    /\ StoreTypeOK
    /\ links \subseteq Link
    /\ redeemed \subseteq Tokens
    /\ LinkIds
    /\ LiveTokenIsMailed

\* A token stands in one slot of one row.
LEMMA OneSlot ==
    ASSUME TablesInv, NEW a \in Live, NEW b \in Live, NEW j \in Kinds, NEW k \in Kinds,
           accounts[a].slot[j].token = accounts[b].slot[k].token,
           accounts[a].slot[j].token # NoToken
    PROVE  a = b /\ j = k
  BY DEF TablesInv, LinkIds, LiveTokenIsMailed

\* Storing the hash of a fresh token in slot k of a row and mailing its link.
LEMMA IssueLink ==
    ASSUME TablesInv, NEW a \in AccountIds, NEW k \in Kinds, NEW t \in Tokens,
           NEW e \in Emails, FreshToken(t), Mail(t, k, a, e),
           UNCHANGED <<sessions, created, redeemed>>,
           NEW row, Write(a, row),
           a \in Live => /\ SlotSet(accounts[a], row, k, Fresh(t))
                         /\ row.pending = IF k = "change" THEN e ELSE accounts[a].pending
    PROVE  TablesInv'
  <1>1. /\ Live' = Live
        /\ accounts' \in [Live -> Row]
        /\ a \in Live => accounts'[a] = row
        /\ \A b \in Live : b # a => accounts'[b] = accounts[b]
    BY WriteEffect DEF TablesInv, SlotSet
  <1>2. StoreTypeOK'
    BY <1>1 DEF TablesInv, StoreTypeOK, Live
  <1>3. links' = links \cup {[token |-> t, kind |-> k, acct |-> a, to |-> e]}
    BY DEF Mail
  <1>4. links' \subseteq Link /\ redeemed' \subseteq Tokens
    BY <1>3 DEF TablesInv, Link
  <1>5. LinkIds'
    BY <1>3 DEF TablesInv, LinkIds, FreshToken
  <1>6. t \notin redeemed
    BY DEF TablesInv, LinkIds, FreshToken
  <1>7. LiveTokenIsMailed'
    <2> SUFFICES ASSUME NEW b \in Live, NEW j \in Kinds,
                        accounts'[b].slot[j].token # NoToken
                 PROVE  /\ accounts'[b].slot[j].token \notin redeemed
                        /\ \E l \in links' :
                              /\ l.token = accounts'[b].slot[j].token
                              /\ l.kind = j /\ l.acct = b
                              /\ j = "change" => l.to = accounts'[b].pending
      BY <1>1 DEF LiveTokenIsMailed
    <2>1. CASE b = a /\ j = k
      <3>1. a \in Live /\ accounts'[b] = row /\ accounts'[b].slot[j].token = t
        BY <2>1, <1>1 DEF Fresh, SlotSet
      <3>2. j = "change" => accounts'[b].pending = e
        BY <3>1, <2>1
      <3> DEFINE m == [token |-> t, kind |-> k, acct |-> a, to |-> e]
      <3>3. m \in links' /\ m.token = t /\ m.kind = k /\ m.acct = a /\ m.to = e
        BY <1>3
      <3> HIDE DEF m
      <3> QED BY <3>1, <3>2, <3>3, <2>1, <1>6
    <2>2. CASE ~(b = a /\ j = k)
      <3>1. /\ accounts'[b].slot[j] = accounts[b].slot[j]
            /\ j = "change" => accounts'[b].pending = accounts[b].pending
        BY <2>2, <1>1 DEF SlotSet
      <3> QED BY <3>1, <1>3 DEF TablesInv, LiveTokenIsMailed
    <2> QED BY <2>1, <2>2
  <1> QED BY <1>2, <1>4, <1>5, <1>7 DEF TablesInv

\* Clearing the slot of a link's kind in the row it was mailed for: whatever token
\* stands there, the link's own is then nowhere.
LEMMA RedeemLink ==
    ASSUME TablesInv, NEW k \in Kinds, NEW l \in links, l.acct \in Live, l.kind = k,
           redeemed' = redeemed \cup {l.token},
           UNCHANGED <<sessions, created, links>>,
           NEW row, Write(l.acct, row), SlotSet(accounts[l.acct], row, k, Empty),
           k # "change" => row.pending = accounts[l.acct].pending
    PROVE  TablesInv'
  <1> DEFINE a == l.acct
  <1>1. /\ Live' = Live
        /\ accounts' \in [Live -> Row]
        /\ a \in Live
        /\ accounts'[a] = row
        /\ \A b \in Live : b # a => accounts'[b] = accounts[b]
    BY WriteEffect DEF TablesInv, SlotSet
  <1>2. StoreTypeOK'
    BY <1>1 DEF TablesInv, StoreTypeOK, Live
  <1>3. links' \subseteq Link /\ redeemed' \subseteq Tokens /\ LinkIds'
    BY DEF TablesInv, LinkIds, Link
  <1>4. LiveTokenIsMailed'
    <2> SUFFICES ASSUME NEW b \in Live, NEW j \in Kinds,
                        accounts'[b].slot[j].token # NoToken
                 PROVE  /\ accounts'[b].slot[j].token \notin redeemed'
                        /\ \E m \in links :
                              /\ m.token = accounts'[b].slot[j].token
                              /\ m.kind = j /\ m.acct = b
                              /\ j = "change" => m.to = accounts'[b].pending
      BY <1>1 DEF LiveTokenIsMailed
    <2>1. ~(b = a /\ j = k)
      BY <1>1 DEF Empty, SlotSet
    <2>2. /\ accounts'[b].slot[j] = accounts[b].slot[j]
          /\ j = "change" => accounts'[b].pending = accounts[b].pending
      BY <2>1, <1>1 DEF SlotSet
    <2>3. accounts[b].slot[j].token # l.token
      BY <2>1, <2>2 DEF TablesInv, LinkIds, LiveTokenIsMailed
    <2> QED BY <2>2, <2>3 DEF TablesInv, LiveTokenIsMailed
  <1> QED BY <1>2, <1>3, <1>4 DEF TablesInv

\* Deleting rows, by a link of one of them or by the purge.
LEMMA RemoveRows ==
    ASSUME TablesInv, NEW gone \in SUBSET Live, DeleteRows(gone),
           UNCHANGED <<created, links>>,
           redeemed \subseteq redeemed', redeemed' \subseteq Tokens,
           \A t \in redeemed' \ redeemed :
               \E a \in gone : accounts[a].slot["delete"] = Fresh(t)
    PROVE  TablesInv'
  <1>1. /\ Live' = Live \ gone
        /\ \A b \in Live' : accounts'[b] = accounts[b]
        /\ accounts' \in [Live' -> Row]
    BY DEF DeleteRows, Restrict, Live, TablesInv, StoreTypeOK
  <1>2. StoreTypeOK'
    BY <1>1 DEF TablesInv, StoreTypeOK, DeleteRows, Restrict, Live
  <1>3. \A t \in redeemed' : \E l \in links : l.token = t
    <2>1. ASSUME NEW t \in redeemed' \ redeemed PROVE \E l \in links : l.token = t
      <3>1. PICK a \in gone : accounts[a].slot["delete"] = Fresh(t)
        OBVIOUS
      <3> QED BY <3>1 DEF TablesInv, LiveTokenIsMailed, Fresh, Kinds
    <2> QED BY <2>1 DEF TablesInv, LinkIds
  <1>4. links' \subseteq Link /\ redeemed' \subseteq Tokens /\ LinkIds'
    BY <1>3 DEF TablesInv, LinkIds
  <1>5. LiveTokenIsMailed'
    <2> SUFFICES ASSUME NEW b \in Live', NEW j \in Kinds,
                        accounts[b].slot[j].token # NoToken
                 PROVE  accounts[b].slot[j].token \notin redeemed'
      BY <1>1 DEF LiveTokenIsMailed, TablesInv
    <2>1. \A a \in gone : accounts[a].slot["delete"].token # accounts[b].slot[j].token
      <3> SUFFICES ASSUME NEW a \in gone,
                          accounts[a].slot["delete"].token = accounts[b].slot[j].token
                   PROVE  FALSE
        OBVIOUS
      <3>1. a \in Live /\ b \in Live /\ a # b /\ "delete" \in Kinds
        BY <1>1 DEF Kinds
      <3> QED BY <3>1, OneSlot
    <2>2. ASSUME NEW t \in redeemed' \ redeemed PROVE t # accounts[b].slot[j].token
      <3>1. PICK a \in gone : accounts[a].slot["delete"] = Fresh(t)
        OBVIOUS
      <3>2. accounts[a].slot["delete"].token = t
        BY <3>1 DEF Fresh
      <3> QED BY <3>2, <2>1
    <2> QED BY <2>2, <1>1 DEF LiveTokenIsMailed, TablesInv
  <1> QED BY <1>2, <1>4, <1>5 DEF TablesInv

-----------------------------------------------------------------------------
(* Type correctness, with the integrity of tokens it rests on: the pending *)
(* address a confirmation promotes is one because the token was mailed to  *)
(* it.                                                                     *)

\* What a request holds when it gets to a step.
Holds(pc, a, e) ==
    /\ pc \notin {"idle", "findLogin"} => a \in AccountIds
    /\ pc \in {"signupSession", "issueVerify", "correctEmail", "findLogin",
               "issueLogin", "probeChange", "issueChange", "issueDelete"} => e \in Emails

ReqsInv == reqs \in [Reqs -> Request] /\ \A r \in Reqs : Holds(reqs[r].pc, reqs[r].acct, reqs[r].email)

\* A request that is about to promote has matched an e-mail change link of its
\* account; no other request holds a token.
Claims(q) ==
    IF q.pc = "promote"
    THEN \E l \in links : l.token = q.token /\ l.kind = "change" /\ l.acct = q.acct
    ELSE q.token = NoToken

ClaimInv == \A r \in Reqs : Claims(reqs[r])

TypeInv == TablesInv /\ ReqsInv /\ ClaimInv

LEMMA InitTypeInv == Init => TypeInv
  BY DEF Init, StoreInit, TypeInv, TablesInv, StoreTypeOK, ReqsInv, ClaimInv, Claims, Holds,
         LinkIds, LiveTokenIsMailed, Live, Idle, Request, Steps, Link

\* A request moves to a request that is in order.
LEMMA ReqStep ==
    ASSUME ReqsInv, NEW r \in Reqs, NEW q \in Request, Goto(r, q),
           Holds(q.pc, q.acct, q.email)
    PROVE  ReqsInv'
  BY DEF ReqsInv, Goto

LEMMA ReqAt ==
    ASSUME ReqsInv, NEW r \in Reqs, NEW pc \in Steps,
           NEW a \in AccountIds \cup {NoAccount}, NEW e \in Emails \cup {NoEmail},
           Goto(r, At(pc, a, e)), Holds(pc, a, e)
    PROVE  ReqsInv'
  <1>1. /\ At(pc, a, e) \in Request
        /\ At(pc, a, e).pc = pc /\ At(pc, a, e).acct = a /\ At(pc, a, e).email = e
    BY DEF At, Idle, Request, Steps
  <1> QED BY <1>1, ReqStep

LEMMA ReqDone ==
    ASSUME ReqsInv, NEW r \in Reqs, Done(r) PROVE ReqsInv'
  <1>1. Idle \in Request /\ Holds(Idle.pc, Idle.acct, Idle.email)
    BY DEF Idle, Request, Steps, Holds
  <1> QED BY <1>1, ReqStep DEF Done

LEMMA ReqArrives ==
    ASSUME TypeInv, NEW r \in Reqs, Arrive(r) PROVE ReqsInv'
  <1>0. ReqsInv /\ Live \subseteq AccountIds /\ links \subseteq Link /\ DOMAIN sessions \subseteq Sids
    BY DEF TypeInv, TablesInv, StoreTypeOK
  <1>a. \A a \in Live : accounts[a].email \in Emails
    BY DEF TypeInv, TablesInv, StoreTypeOK, Row
  <1>1. CASE Signup(r)
    <2>1. PICK a \in AccountIds, e \in Emails : Goto(r, At("signupSession", a, e))
      BY <1>1 DEF Signup, Begin, Goto
    <2> QED BY <2>1, <1>0, ReqAt DEF Holds, Steps
  <1>2. CASE VerifyResend(r)
    <2>1. PICK a \in Live : Goto(r, At("issueVerify", a, accounts[a].email))
      BY <1>2 DEF VerifyResend, Begin, Goto
    <2> QED BY <2>1, <1>0, <1>a, ReqAt DEF Holds, Steps
  <1>3. CASE VerifyEmailChange(r)
    <2>1. PICK a \in Live, e \in Emails : Goto(r, At("correctEmail", a, e))
      BY <1>3 DEF VerifyEmailChange, Begin, Goto
    <2> QED BY <2>1, <1>0, ReqAt DEF Holds, Steps
  <1>4. CASE Login(r)
    <2>1. PICK e \in Emails : Goto(r, At("findLogin", NoAccount, e))
      BY <1>4 DEF Login, Begin, Goto
    <2> QED BY <2>1, <1>0, ReqAt DEF Holds, Steps
  <1>5. CASE LoginConsume(r)
    <2>1. PICK l \in links : Goto(r, At("startSession", l.acct, NoEmail))
      BY <1>5 DEF LoginConsume, Begin, Goto
    <2>2. l.acct \in AccountIds
      BY <2>1, <1>0 DEF Link
    <2> QED BY <2>1, <2>2, <1>0, ReqAt DEF Holds, Steps
  <1>6. CASE LoginFlow(r)
    <2>1. PICK a \in Live : Goto(r, At("startSession", a, NoEmail))
      BY <1>6 DEF LoginFlow, Begin, Goto
    <2> QED BY <2>1, <1>0, ReqAt DEF Holds, Steps
  <1>7. CASE SettingsEmail(r)
    <2>1. PICK a \in Live, e \in Emails : Goto(r, At("probeChange", a, e))
      BY <1>7 DEF SettingsEmail, Begin, Goto
    <2> QED BY <2>1, <1>0, ReqAt DEF Holds, Steps
  <1>8. CASE ConfirmEmailConsume(r)
    <2>1. PICK l \in links, s \in DOMAIN sessions \cup {NoSid} :
             Goto(r, [At("promote", l.acct, NoEmail) EXCEPT !.sid = s, !.token = l.token])
      BY <1>8 DEF ConfirmEmailConsume, Begin, Goto
    <2> DEFINE q == [At("promote", l.acct, NoEmail) EXCEPT !.sid = s, !.token = l.token]
    <2>2. l.acct \in AccountIds /\ l.token \in Tokens /\ s \in Sids \cup {NoSid}
      BY <1>0 DEF Link
    <2>3. q \in Request /\ Holds(q.pc, q.acct, q.email)
      BY <2>2 DEF At, Idle, Request, Steps, Holds
    <2> QED BY <2>1, <2>3, <1>0, ReqStep
  <1>9. CASE RequestDelete(r)
    <2>1. PICK a \in Live : Goto(r, At("issueDelete", a, accounts[a].email))
      BY <1>9 DEF RequestDelete, Begin, Goto
    <2> QED BY <2>1, <1>0, <1>a, ReqAt DEF Holds, Steps
  <1> QED BY <1>1, <1>2, <1>3, <1>4, <1>5, <1>6, <1>7, <1>8, <1>9 DEF Arrive

LEMMA ReqContinues ==
    ASSUME TypeInv, NEW r \in Reqs, Continue(r) \/ Abort(r) PROVE ReqsInv'
  <1>0. ReqsInv /\ reqs[r] \in Request /\ Holds(reqs[r].pc, reqs[r].acct, reqs[r].email)
    BY DEF TypeInv, ReqsInv
  <1> DEFINE To(pc) == [reqs[r] EXCEPT !.pc = pc]
  <1>1. CASE Done(r)
    BY <1>1, <1>0, ReqDone
  <1>2. CASE SignupSession(r) \/ CorrectEmail(r)
    <2>1. Goto(r, To("issueVerify"))
      BY <1>2 DEF SignupSession, CorrectEmail
    <2>2. To("issueVerify") \in Request
          /\ Holds("issueVerify", reqs[r].acct, reqs[r].email)
      BY <1>0, <1>2 DEF Request, Steps, Holds, SignupSession, CorrectEmail
    <2> QED BY <2>1, <2>2, <1>0, ReqStep DEF Request
  <1>3. CASE FindLogin(r) /\ ~Done(r)
    <2>1. PICK a \in Live : Goto(r, At("issueLogin", a, accounts[a].email))
      BY <1>3 DEF FindLogin
    <2>2. a \in AccountIds /\ accounts[a].email \in Emails
      BY DEF TypeInv, TablesInv, StoreTypeOK, Row
    <2> QED BY <2>1, <2>2, <1>0, ReqAt DEF Holds, Steps
  <1>4. CASE ProbeChange(r) /\ ~Done(r)
    <2>1. Goto(r, To("issueChange"))
      BY <1>4 DEF ProbeChange, Done, Goto
    <2>2. To("issueChange") \in Request
          /\ Holds("issueChange", reqs[r].acct, reqs[r].email)
      BY <1>0, <1>4 DEF Request, Steps, Holds, ProbeChange
    <2> QED BY <2>1, <2>2, <1>0, ReqStep DEF Request
  <1>5. CASE OwnBrowser(r) \/ DropRotated(r) \/ DropOthers(r)
    <2>1. PICK pc \in {"rotate", "dropAll", "dropOthers", "changed"} : Goto(r, To(pc))
      BY <1>5 DEF OwnBrowser, DropRotated, DropOthers
    <2>2. To(pc) \in Request /\ Holds(pc, reqs[r].acct, reqs[r].email)
      BY <1>0, <1>5 DEF Request, Steps, Holds, OwnBrowser, DropRotated, DropOthers
    <2> QED BY <2>1, <2>2, <1>0, ReqStep DEF Request
  <1>6. CASE RotateSession(r)
    <2>1. PICK s \in Sids : Goto(r, [reqs[r] EXCEPT !.pc = "dropRotated", !.keep = s])
      BY <1>6 DEF RotateSession
    <2> DEFINE q == [reqs[r] EXCEPT !.pc = "dropRotated", !.keep = s]
    <2>2. q \in Request /\ Holds(q.pc, q.acct, q.email)
      BY <1>0, <1>6 DEF Request, Steps, Holds, RotateSession
    <2> QED BY <2>1, <2>2, <1>0, ReqStep
  <1>7. CASE RotateFails(r) \/ DropFails(r)
    <2> DEFINE q == [reqs[r] EXCEPT !.pc = "changed", !.warned = TRUE]
    <2>1. Goto(r, q)
      BY <1>7 DEF RotateFails, DropFails
    <2>2. q \in Request /\ Holds(q.pc, q.acct, q.email)
      BY <1>0, <1>7 DEF Request, Steps, Holds, RotateFails, DropFails
    <2> QED BY <2>1, <2>2, <1>0, ReqStep
  <1>8. CASE PromoteEmail(r) /\ ~Done(r)
    <2> DEFINE q == [reqs[r] EXCEPT !.pc = "ownBrowser", !.token = NoToken,
                                    !.before = SessionsOf(reqs[r].acct)]
    <2>1. Goto(r, q)
      BY <1>8 DEF PromoteEmail
    <2>2. SessionsOf(reqs[r].acct) \subseteq Sids
      BY DEF SessionsOf, TypeInv, TablesInv, StoreTypeOK
    <2>3. q \in Request /\ Holds(q.pc, q.acct, q.email)
      BY <1>0, <1>8, <2>2 DEF Request, Steps, Holds, PromoteEmail
    <2> QED BY <2>1, <2>3, <1>0, ReqStep
  <1> QED BY <1>1, <1>2, <1>3, <1>4, <1>5, <1>6, <1>7, <1>8
        DEF Continue, Abort, IssueVerification, IssueLoginLink, IssueEmailChange,
            IssueDeletion, StartSession, Respond

-----------------------------------------------------------------------------
(* The tables, action by action. *)

LEMMA TablesSignup ==
    ASSUME TypeInv, NEW r \in Reqs, Signup(r) PROVE TablesInv'
  <1>1. PICK a \in AccountIds, e \in Emails, f \in FtIds : CreateAccount(a, e, f)
    BY DEF Signup
  <1>2. NewRow(e, f) \in Row /\ \A k \in Kinds : NewRow(e, f).slot[k].token = NoToken
    BY DEF NewRow, Row, Slot, Empty, Ages
  <1>3. /\ a \notin Live
        /\ Live' = Live \cup {a} /\ created' = created \cup {a}
        /\ accounts'[a] = NewRow(e, f)
        /\ \A b \in Live : accounts'[b] = accounts[b]
        /\ accounts' \in [Live' -> Row]
    BY <1>1, <1>2 DEF CreateAccount, TypeInv, TablesInv, StoreTypeOK, Live
  <1>4. StoreTypeOK'
    BY <1>3 DEF TypeInv, TablesInv, StoreTypeOK, Signup
  <1> QED BY <1>2, <1>3, <1>4 DEF Signup, TypeInv, TablesInv, LinkIds, LiveTokenIsMailed

LEMMA TablesIssue ==
    ASSUME TypeInv, NEW r \in Reqs,
           IssueVerification(r) \/ IssueLoginLink(r) \/ IssueEmailChange(r) \/ IssueDeletion(r)
    PROVE  TablesInv'
  <1> DEFINE a == reqs[r].acct
             e == reqs[r].email
             row == accounts[a]
  <1>1. TablesInv /\ a \in AccountIds /\ e \in Emails
    BY DEF TypeInv, ReqsInv, Holds, IssueVerification, IssueLoginLink, IssueEmailChange,
           IssueDeletion
  <1>2. a \in Live => row \in Row
    BY <1>1 DEF TablesInv, StoreTypeOK
  <1> HIDE DEF a, e
  <1>3. CASE IssueVerification(r)
    <2>1. PICK t \in Tokens : FreshToken(t) /\ SetVerifyToken(a, t) /\ Mail(t, "verify", a, e)
      BY <1>3 DEF IssueVerification, a, e
    <2> DEFINE new == [row EXCEPT !.verified = FALSE, !.slot["verify"] = Fresh(t)]
    <2>2. a \in Live => SlotSet(row, new, "verify", Fresh(t)) /\ new.pending = row.pending
      BY <1>1, <1>2, SlotValues, AssignVerified DEF Kinds
    <2>3. Write(a, new)
      BY <2>1 DEF SetVerifyToken
    <2> QED BY <1>1, <1>3, <2>1, <2>2, <2>3, IssueLink DEF IssueVerification, Kinds
  <1>4. CASE IssueLoginLink(r)
    <2>1. PICK t \in Tokens : FreshToken(t) /\ SetLoginToken(a, t) /\ Mail(t, "login", a, e)
      BY <1>4 DEF IssueLoginLink, a, e
    <2> DEFINE new == [row EXCEPT !.slot["login"] = Fresh(t)]
    <2>2. a \in Live => SlotSet(row, new, "login", Fresh(t)) /\ new.pending = row.pending
      BY <1>1, <1>2, SlotValues, AssignSlot DEF Kinds
    <2>3. Write(a, new)
      BY <2>1 DEF SetLoginToken
    <2> QED BY <1>1, <1>4, <2>1, <2>2, <2>3, IssueLink DEF IssueLoginLink, Kinds
  <1>5. CASE IssueEmailChange(r)
    <2>1. PICK t \in Tokens : FreshToken(t) /\ SetEmailChange(a, e, t) /\ Mail(t, "change", a, e)
      BY <1>5 DEF IssueEmailChange, a, e
    <2> DEFINE new == [row EXCEPT !.pending = e, !.slot["change"] = Fresh(t)]
    <2>2. a \in Live => SlotSet(row, new, "change", Fresh(t)) /\ new.pending = e
      <3> SUFFICES ASSUME a \in Live
                   PROVE  SlotSet(row, new, "change", Fresh(t)) /\ new.pending = e
        OBVIOUS
      <3>1. row \in Row /\ Fresh(t) \in Slot /\ "change" \in Kinds
        BY <1>2, SlotValues DEF Kinds
      <3> HIDE DEF row
      <3> QED BY <1>1, <3>1 DEF SlotSet, Row
    <2>3. Write(a, new)
      BY <2>1 DEF SetEmailChange
    <2> QED BY <1>1, <1>5, <2>1, <2>2, <2>3, IssueLink DEF IssueEmailChange, Kinds
  <1>6. CASE IssueDeletion(r)
    <2>1. PICK t \in Tokens : FreshToken(t) /\ SetDeleteToken(a, t) /\ Mail(t, "delete", a, e)
      BY <1>6 DEF IssueDeletion, a, e
    <2> DEFINE new == [row EXCEPT !.slot["delete"] = Fresh(t)]
    <2>2. a \in Live => SlotSet(row, new, "delete", Fresh(t)) /\ new.pending = row.pending
      BY <1>1, <1>2, SlotValues, AssignSlot DEF Kinds
    <2>3. Write(a, new)
      BY <2>1 DEF SetDeleteToken
    <2> QED BY <1>1, <1>6, <2>1, <2>2, <2>3, IssueLink DEF IssueDeletion, Kinds
  <1> QED BY <1>3, <1>4, <1>5, <1>6

\* The token of a link someone follows stands in a slot of the link's own kind.
LEMMA Followed ==
    ASSUME TypeInv, NEW l \in links, NEW k \in Kinds, Matches(l.acct, k, l.token)
    PROVE  /\ l.acct \in Live /\ l.kind = k
           /\ k = "change" => l.to = accounts[l.acct].pending
           /\ l.token \notin redeemed
           /\ l.acct \in AccountIds /\ l.token \in Tokens /\ l.to \in Emails
           /\ accounts[l.acct] \in Row
  <1>1. l.acct \in Live /\ accounts[l.acct].slot[k].token = l.token
    BY DEF Matches, Fresh
  <1>2. /\ l.acct \in AccountIds /\ l.token \in Tokens /\ l.to \in Emails
        /\ accounts[l.acct] \in Row
    BY <1>1 DEF TypeInv, TablesInv, StoreTypeOK, Link
  <1>3. l.token # NoToken
    BY <1>2
  <1> QED BY <1>1, <1>2, <1>3 DEF TypeInv, TablesInv, LiveTokenIsMailed, LinkIds

LEMMA TablesRedeem ==
    ASSUME TypeInv,
           VerifyEmail \/ \E r \in Reqs : LoginConsume(r)
    PROVE  TablesInv'
  <1>0. TablesInv
    BY DEF TypeInv
  <1>1. CASE VerifyEmail
    <2>1. PICK l \in links : VerifyByToken(l.acct, l.token) /\ redeemed' = redeemed \cup {l.token}
      BY <1>1 DEF VerifyEmail
    <2> DEFINE row == accounts[l.acct]
               new == [row EXCEPT !.verified = TRUE, !.slot["verify"] = Empty]
    <2>2. Matches(l.acct, "verify", l.token) /\ Write(l.acct, new)
      BY <2>1 DEF VerifyByToken
    <2>3. /\ SlotSet(row, new, "verify", Empty) /\ new.pending = row.pending
          /\ l.acct \in Live /\ l.kind = "verify"
      BY <2>2, Followed, SlotValues, AssignVerified DEF Kinds
    <2> QED BY <1>0, <1>1, <2>1, <2>2, <2>3, RedeemLink DEF VerifyEmail, Kinds
  <1>2. ASSUME NEW r \in Reqs, LoginConsume(r) PROVE TablesInv'
    <2>1. PICK l \in links : ConsumeLoginToken(l.acct, l.token) /\ redeemed' = redeemed \cup {l.token}
      BY <1>2 DEF LoginConsume
    <2> DEFINE row == accounts[l.acct]
               new == [row EXCEPT !.verified = TRUE, !.slot["login"] = Empty]
    <2>2. Matches(l.acct, "login", l.token) /\ Write(l.acct, new)
      BY <2>1 DEF ConsumeLoginToken
    <2>3. /\ SlotSet(row, new, "login", Empty) /\ new.pending = row.pending
          /\ l.acct \in Live /\ l.kind = "login"
      BY <2>2, Followed, SlotValues, AssignVerified DEF Kinds
    <2> QED BY <1>0, <1>2, <2>1, <2>2, <2>3, RedeemLink DEF LoginConsume, Kinds
  <1> QED BY <1>1, <1>2

LEMMA TablesRemove ==
    ASSUME TypeInv, ConfirmDelete \/ Purge PROVE TablesInv'
  <1>0. TablesInv
    BY DEF TypeInv
  <1>1. CASE ConfirmDelete
    <2>1. PICK l \in links : DeleteByToken(l.acct, l.token) /\ redeemed' = redeemed \cup {l.token}
      BY <1>1 DEF ConfirmDelete
    <2>2. /\ l.acct \in Live /\ accounts[l.acct].slot["delete"] = Fresh(l.token)
          /\ DeleteRows({l.acct})
      BY <2>1 DEF DeleteByToken, Matches
    <2>3. redeemed' \subseteq Tokens
      BY <1>0, <2>1 DEF TablesInv, Link
    <2> QED BY <1>0, <1>1, <2>1, <2>2, <2>3, RemoveRows DEF ConfirmDelete
  <1>2. CASE Purge
    <2>1. DeleteRows({a \in Live : Reapable(a)}) /\ redeemed' \subseteq Tokens
      BY <1>0, <1>2 DEF Purge, PurgeUnverifiedAccounts, TablesInv
    <2> QED BY <1>0, <1>2, <2>1, RemoveRows DEF Purge
  <1> QED BY <1>1, <1>2

LEMMA TablesCorrect ==
    ASSUME TypeInv, NEW r \in Reqs, CorrectEmail(r) PROVE TablesInv'
  <1> DEFINE a == reqs[r].acct
             e == reqs[r].email
             new == [accounts[a] EXCEPT !.email = e]
  <1>1. TablesInv /\ a \in AccountIds /\ e \in Emails /\ Write(a, new)
    BY DEF TypeInv, ReqsInv, Holds, CorrectEmail, UpdateEmail
  <1>2. a \in Live => /\ new \in Row /\ new.slot = accounts[a].slot
                      /\ new.pending = accounts[a].pending
    BY <1>1 DEF TablesInv, StoreTypeOK, Row
  <1> HIDE DEF new
  <1>3. /\ Live' = Live
        /\ accounts' \in [Live -> Row]
        /\ \A b \in Live : /\ accounts'[b].slot = accounts[b].slot
                           /\ accounts'[b].pending = accounts[b].pending
    BY <1>1, <1>2, WriteEffect DEF TablesInv
  <1>4. StoreTypeOK'
    BY <1>1, <1>3 DEF TablesInv, StoreTypeOK, Live, CorrectEmail
  <1> QED BY <1>1, <1>3, <1>4 DEF TablesInv, LinkIds, LiveTokenIsMailed, CorrectEmail

LEMMA TablesAge ==
    ASSUME TypeInv, NEW a \in AccountIds, NEW k \in Kinds, AgeSlot(a, k) PROVE TablesInv'
  <1> DEFINE row == accounts[a]
  <1>1. TablesInv /\ a \in Live /\ row \in Row /\ row.slot[k] \in Slot
    BY DEF TypeInv, TablesInv, StoreTypeOK, AgeSlot, Age, Row
  <1>2. PICK g \in Ages : Write(a, [row EXCEPT !.slot[k].age = g])
    BY DEF AgeSlot, Age, Ages
  <1> DEFINE s == [row.slot[k] EXCEPT !.age = g]
             new == [row EXCEPT !.slot[k] = s]
  <1>3. [row EXCEPT !.slot[k].age = g] = new
    BY <1>1 DEF Row
  <1>4. s \in Slot /\ s.token = row.slot[k].token
    BY <1>1 DEF Slot
  <1>5. SlotSet(row, new, k, s) /\ new.pending = row.pending
    BY <1>1, <1>4, AssignSlot
  <1> HIDE DEF s, new
  <1>6. /\ Live' = Live
        /\ accounts' \in [Live -> Row]
        /\ \A b \in Live : /\ \A j \in Kinds : accounts'[b].slot[j].token = accounts[b].slot[j].token
                           /\ accounts'[b].pending = accounts[b].pending
    BY <1>1, <1>2, <1>3, <1>4, <1>5, WriteEffect DEF TablesInv, SlotSet
  <1>7. StoreTypeOK'
    BY <1>1, <1>6 DEF TablesInv, StoreTypeOK, Live, AgeSlot
  <1> QED BY <1>1, <1>6, <1>7 DEF TablesInv, LinkIds, LiveTokenIsMailed, AgeSlot

\* Everything else leaves the account table and the mailboxes alone.
LEMMA TablesSessions ==
    ASSUME TypeInv, UNCHANGED <<accounts, created, links, redeemed>>,
           \/ UNCHANGED sessions
           \/ \E gone : DeleteSessions(gone)
           \/ \E s \in Sids, a \in AccountIds : CreateSession(s, a)
    PROVE  TablesInv'
  <1>1. StoreTypeOK'
    BY DEF TypeInv, TablesInv, StoreTypeOK, Live, DeleteSessions, Restrict, CreateSession
  <1> QED BY <1>1 DEF TypeInv, TablesInv, LinkIds, LiveTokenIsMailed, Live


LEMMA TablesPromote ==
    ASSUME TypeInv, NEW r \in Reqs, PromoteEmail(r) PROVE TablesInv'
  <1> DEFINE a == reqs[r].acct
             row == accounts[a]
             new == [row EXCEPT !.email = row.pending, !.pending = NoEmail, !.slot["change"] = Empty]
  <1>0. TablesInv
    BY DEF TypeInv
  <1>1. CASE UNCHANGED <<storeVars, links, redeemed>>
    BY <1>1, TablesSessions DEF storeVars
  <1>2. CASE PromotePending(a) /\ redeemed' = redeemed \cup {reqs[r].token}
    <2>1. PICK l \in links : l.token = reqs[r].token /\ l.kind = "change" /\ l.acct = a
      BY DEF PromoteEmail, TypeInv, ClaimInv, Claims
    <2>2. a \in Live /\ row \in Row /\ row.pending \in Emails /\ Write(a, new)
      BY <1>0, <1>2 DEF PromotePending, Promotable, TablesInv, StoreTypeOK, Row
    <2>3. SlotSet(row, new, "change", Empty)
      BY <2>2, SlotValues, AssignEmail DEF Kinds
    <2> HIDE DEF new
    <2> QED BY <1>0, <1>2, <2>1, <2>2, <2>3, RedeemLink DEF PromoteEmail, Kinds
  <1> QED BY <1>1, <1>2 DEF PromoteEmail, storeVars

LEMMA HistoryGrows == ASSUME Next PROVE links \subseteq links' /\ redeemed \subseteq redeemed'
  BY DEF Next, Arrive, Continue, Abort, Signup, VerifyResend, VerifyEmailChange, Login,
         LoginConsume, LoginFlow, SettingsEmail, ConfirmEmailConsume, RequestDelete,
         SignupSession, IssueVerification, CorrectEmail, FindLogin, IssueLoginLink,
         StartSession, ProbeChange, IssueEmailChange, IssueDeletion, PromoteEmail, OwnBrowser,
         RotateSession, RotateFails, DropRotated, DropOthers, DropFails, Respond, VerifyEmail, Logout,
         ConfirmDelete, Purge, ExpireSession, AgeSlot, Mail

\* How a step moves a request, as far as the link it has matched goes.
LEMMA ClaimStep ==
    ASSUME ReqsInv, Next, NEW q \in Reqs
    PROVE  \/ reqs'[q] = reqs[q]
           \/ reqs'[q].pc # "promote" /\ reqs'[q].token = NoToken
           \/ reqs[q].pc # "promote" /\ reqs'[q].pc # "promote" /\ reqs'[q].token = reqs[q].token
           \/ \E l \in links : /\ Matches(l.acct, "change", l.token)
                               /\ reqs'[q].pc = "promote"
                               /\ reqs'[q].token = l.token /\ reqs'[q].acct = l.acct
  <1>0. reqs \in [Reqs -> Request] /\ reqs[q] \in Request
    BY DEF ReqsInv
  <1>1. CASE \E r \in Reqs : \E x : r # q /\ Goto(r, x)
    BY <1>0, <1>1 DEF Goto
  <1>2. CASE UNCHANGED reqs
    BY <1>2
  <1>3. CASE \E pc \in Steps \ {"promote"} : \E a, e : Goto(q, At(pc, a, e))
    BY <1>0, <1>3 DEF Goto, At, Idle
  <1>4. CASE Done(q)
    BY <1>0, <1>4 DEF Done, Goto, Idle
  <1>5. CASE \/ SignupSession(q) \/ CorrectEmail(q) \/ (ProbeChange(q) /\ ~Done(q))
             \/ OwnBrowser(q) \/ DropRotated(q) \/ DropOthers(q)
    <2>1. reqs[q].pc # "promote" /\ \E pc \in Steps \ {"promote"} : Goto(q, [reqs[q] EXCEPT !.pc = pc])
      BY <1>5 DEF SignupSession, CorrectEmail, ProbeChange, OwnBrowser, DropRotated, DropOthers,
                  Done, Goto, Steps
    <2> QED BY <1>0, <2>1 DEF Goto, Request
  <1>6. CASE RotateSession(q) \/ RotateFails(q) \/ DropFails(q)
    <2>1. reqs[q].pc # "promote"
      BY <1>6 DEF RotateSession, RotateFails, DropFails
    <2>2. \/ \E s \in Sids : Goto(q, [reqs[q] EXCEPT !.pc = "dropRotated", !.keep = s])
          \/ Goto(q, [reqs[q] EXCEPT !.pc = "changed", !.warned = TRUE])
      BY <1>6 DEF RotateSession, RotateFails, DropFails
    <2>3. PICK x \in Request : /\ Goto(q, x)
                               /\ x.pc \in {"dropRotated", "changed"} /\ x.token = reqs[q].token
      <3>1. ASSUME NEW s \in Sids
            PROVE  LET x == [reqs[q] EXCEPT !.pc = "dropRotated", !.keep = s]
                   IN  x \in Request /\ x.pc = "dropRotated" /\ x.token = reqs[q].token
        BY <1>0 DEF Request, Steps
      <3>2. LET x == [reqs[q] EXCEPT !.pc = "changed", !.warned = TRUE]
            IN  x \in Request /\ x.pc = "changed" /\ x.token = reqs[q].token
        BY <1>0 DEF Request, Steps
      <3> QED BY <2>2, <3>1, <3>2
    <2>4. reqs'[q] = x
      BY <1>0, <2>3 DEF Goto
    <2> QED BY <2>1, <2>3, <2>4
  <1>7. CASE PromoteEmail(q) /\ ~Done(q)
    <2>1. Goto(q, [reqs[q] EXCEPT !.pc = "ownBrowser", !.token = NoToken,
                                  !.before = SessionsOf(reqs[q].acct)])
      BY <1>7 DEF PromoteEmail
    <2> QED BY <1>0, <2>1 DEF Goto, Request
  <1>8. CASE ConfirmEmailConsume(q)
    <2>1. PICK l \in links, s \in DOMAIN sessions \cup {NoSid} :
             /\ Matches(l.acct, "change", l.token)
             /\ Goto(q, [At("promote", l.acct, NoEmail) EXCEPT !.sid = s, !.token = l.token])
      BY <1>8 DEF ConfirmEmailConsume, Begin, Goto
    <2> QED BY <1>0, <2>1 DEF Goto, At, Idle
  <1>9. CASE \/ Signup(q) \/ VerifyResend(q) \/ VerifyEmailChange(q) \/ Login(q)
             \/ LoginConsume(q) \/ LoginFlow(q) \/ (FindLogin(q) /\ ~Done(q))
             \/ SettingsEmail(q) \/ RequestDelete(q)
    <2>1. \E pc \in Steps \ {"promote"} : \E a, e : Goto(q, At(pc, a, e))
      BY <1>9 DEF Signup, VerifyResend, VerifyEmailChange, Login, LoginConsume, LoginFlow,
                  FindLogin, SettingsEmail, RequestDelete, Begin, Goto, Steps
    <2> QED BY <2>1, <1>3
  <1>10. ASSUME NEW r \in Reqs, r # q, Arrive(r) \/ Continue(r) \/ Abort(r) PROVE \E x : Goto(r, x)
    BY <1>10 DEF Arrive, Continue, Abort, Signup, VerifyResend, VerifyEmailChange, Login,
           LoginConsume, LoginFlow, SettingsEmail, ConfirmEmailConsume, RequestDelete,
           SignupSession, IssueVerification, CorrectEmail, FindLogin, IssueLoginLink,
           StartSession, ProbeChange, IssueEmailChange, IssueDeletion, PromoteEmail, OwnBrowser,
           RotateSession, RotateFails, DropRotated, DropOthers, DropFails, Respond, Begin, Done, Goto
  <1>11. CASE Arrive(q) \/ Continue(q) \/ Abort(q)
    BY <1>11, <1>4, <1>5, <1>6, <1>7, <1>8, <1>9
       DEF Arrive, Continue, Abort, IssueVerification, IssueLoginLink, IssueEmailChange,
           IssueDeletion, StartSession, Respond
  <1> QED BY <1>1, <1>2, <1>10, <1>11
        DEF Next, VerifyEmail, Logout, ConfirmDelete, Purge, ExpireSession, AgeSlot

LEMMA ClaimNext == ASSUME TypeInv, [Next]_vars PROVE ClaimInv'
  <1>1. CASE UNCHANGED vars
    BY <1>1 DEF vars, TypeInv, ClaimInv, Claims
  <1>2. CASE Next
    <2> SUFFICES ASSUME NEW q \in Reqs PROVE Claims(reqs[q])'
      BY DEF ClaimInv
    <2>0. links \subseteq links' /\ Claims(reqs[q]) /\ ReqsInv
      BY <1>2, HistoryGrows DEF TypeInv, ClaimInv
    <2>1. CASE reqs'[q] = reqs[q]
      BY <2>0, <2>1 DEF Claims
    <2>2. CASE reqs'[q].pc # "promote" /\ reqs'[q].token \in {NoToken, reqs[q].token}
               /\ (reqs'[q].token # NoToken => reqs[q].pc # "promote")
      BY <2>0, <2>2 DEF Claims
    <2>3. ASSUME NEW l \in links, Matches(l.acct, "change", l.token), reqs'[q].pc = "promote",
                 reqs'[q].token = l.token, reqs'[q].acct = l.acct
          PROVE  Claims(reqs[q])'
      BY <2>0, <2>3, Followed DEF Claims, Kinds
    <2> QED BY <1>2, <2>0, <2>1, <2>2, <2>3, ClaimStep
  <1> QED BY <1>1, <1>2

LEMMA TypeNext == TypeInv /\ [Next]_vars => TypeInv'
  <1> SUFFICES ASSUME TypeInv, [Next]_vars PROVE TypeInv'
    OBVIOUS
  <1>0. ReqsInv /\ \A r \in Reqs : Holds(reqs[r].pc, reqs[r].acct, reqs[r].email)
    BY DEF TypeInv, ReqsInv
  <1>c. ClaimInv'
    BY ClaimNext
  <1>1. ASSUME NEW r \in Reqs, Arrive(r) PROVE TypeInv'
    <2>1. CASE Signup(r)
      BY <1>c, <1>1, <2>1, TablesSignup, ReqArrives DEF TypeInv
    <2>2. CASE LoginConsume(r)
      BY <1>c, <1>1, <2>2, TablesRedeem, ReqArrives DEF TypeInv
    <2>3. CASE UNCHANGED <<storeVars, links, redeemed>>
      BY <1>c, <1>1, <2>3, TablesSessions, ReqArrives DEF TypeInv, storeVars
    <2> QED BY <1>1, <2>1, <2>2, <2>3
          DEF Arrive, VerifyResend, VerifyEmailChange, Login, LoginFlow, SettingsEmail,
              ConfirmEmailConsume, RequestDelete
  <1>2. ASSUME NEW r \in Reqs, Continue(r) \/ Abort(r) PROVE TypeInv'
    <2>1. CASE IssueVerification(r) \/ IssueLoginLink(r) \/ IssueEmailChange(r) \/ IssueDeletion(r)
      BY <1>c, <1>2, <2>1, TablesIssue, ReqContinues DEF TypeInv
    <2>2. CASE CorrectEmail(r)
      BY <1>c, <1>2, <2>2, TablesCorrect, ReqContinues DEF TypeInv
    <2>3. CASE \/ SignupSession(r) \/ StartSession(r) \/ RotateSession(r)
               \/ RotateFails(r) /\ ~UNCHANGED sessions
      <3>1. \E s \in Sids, a \in AccountIds : CreateSession(s, a)
        BY <1>0, <2>3 DEF SignupSession, StartSession, RotateSession, RotateFails, Holds
      <3> QED BY <3>1, <1>2, <1>c, <2>3, TablesSessions, ReqContinues
            DEF TypeInv, SignupSession, StartSession, RotateSession, RotateFails
    <2>4. CASE DropRotated(r) \/ DropOthers(r) \/ DropFails(r)
      BY <1>c, <1>2, <2>4, TablesSessions, ReqContinues DEF TypeInv, DropRotated, DropOthers, DropFails
    <2>6. CASE PromoteEmail(r)
      BY <1>c, <1>2, <2>6, TablesPromote, ReqContinues DEF TypeInv
    <2>5. CASE UNCHANGED <<storeVars, links, redeemed>>
      BY <1>c, <1>2, <2>5, TablesSessions, ReqContinues DEF TypeInv, storeVars
    <2> QED BY <1>2, <2>1, <2>2, <2>3, <2>4, <2>5, <2>6
          DEF Continue, Abort, FindLogin, ProbeChange, OwnBrowser, RotateFails, Respond, storeVars
  <1>3. CASE UNCHANGED reqs /\ TablesInv'
    BY <1>0, <1>3, <1>c DEF TypeInv, ReqsInv
  <1>4. CASE VerifyEmail
    BY <1>3, <1>4, TablesRedeem DEF VerifyEmail
  <1>5. CASE ConfirmDelete \/ Purge
    BY <1>3, <1>5, TablesRemove DEF ConfirmDelete, Purge
  <1>6. CASE Logout \/ ExpireSession
    BY <1>3, <1>6, TablesSessions DEF Logout, ExpireSession
  <1>7. ASSUME NEW a \in AccountIds, NEW k \in Kinds, AgeSlot(a, k) PROVE TypeInv'
    BY <1>3, <1>7, TablesAge DEF AgeSlot
  <1>8. CASE UNCHANGED vars
    BY <1>3, <1>8, TablesSessions DEF vars
  <1> QED BY <1>1, <1>2, <1>4, <1>5, <1>6, <1>7, <1>8 DEF Next

\* Every variable keeps its type in every reachable state.
THEOREM TypeCorrect == Spec => []TypeOK
  <1>1. TypeInv => TypeOK
    BY DEF TypeInv, TablesInv, ReqsInv, TypeOK
  <1> QED BY <1>1, InitTypeInv, TypeNext, PTL DEF Spec

\* A token a row still holds was mailed for that row and purpose and has not been
\* redeemed (the statements that match a token: VerifyByToken, ConsumeLoginToken,
\* ConsumeEmailChange, DeleteByToken).
THEOREM TokenIntegrity == Spec => []LiveTokenIsMailed
  <1>1. TypeInv => LiveTokenIsMailed
    BY DEF TypeInv, TablesInv
  <1> QED BY <1>1, InitTypeInv, TypeNext, PTL DEF Spec

-----------------------------------------------------------------------------
(* The safety properties, from the invariant TypeInv.                       *)

LEMMA InvTypeInv == Spec => []TypeInv
  BY InitTypeInv, TypeNext, PTL DEF Spec

-----------------------------------------------------------------------------
(* Verification and the gate.  What makes VerifiedByLink and GatedLinks    *)
(* inductive is that a request past the gate remembers an account that was *)
(* verified when the gate was read, and that having been verified once is  *)
(* a fact about the past: inboxes and redeemed tokens only grow.           *)

GateInv ==
    /\ VerifiedByLink
    /\ GatedLinks
    /\ \A r \in Reqs : reqs[r].pc \in {"probeChange", "issueChange", "issueDelete"}
                         => ProvenOnce(reqs[r].acct)

LEMMA ProvenStays == ASSUME Next, NEW a, ProvenOnce(a) PROVE ProvenOnce(a)'
  BY HistoryGrows DEF ProvenOnce

\* A row that is verified after a step was before it, or a link proved it.
VerifiedStep ==
    \A a \in Live' : accounts'[a].verified =>
        \/ a \in Live /\ accounts[a].verified
        \/ ProvenOnce(a)'

LEMMA VerifiedWrite ==
    ASSUME TypeInv, NEW a, NEW row, Write(a, row), a \in Live => row \in Row,
           (a \in Live /\ row.verified) => (accounts[a].verified \/ ProvenOnce(a)')
    PROVE  VerifiedStep
  <1>1. StoreTypeOK
    BY DEF TypeInv, TablesInv
  <1> QED BY <1>1, WriteEffect DEF VerifiedStep

LEMMA VerifiedNext == ASSUME TypeInv, Next PROVE VerifiedStep
  <1>0. StoreTypeOK /\ \A a \in Live : accounts[a] \in Row
    BY DEF TypeInv, TablesInv, StoreTypeOK
  <1>1. CASE \E r \in Reqs : Signup(r)
    BY <1>1, <1>0 DEF Signup, CreateAccount, NewRow, VerifiedStep, Live, StoreTypeOK
  <1>2. ASSUME NEW r \in Reqs, IssueVerification(r) PROVE VerifiedStep
    <2> DEFINE a == reqs[r].acct
    <2>1. PICK t \in Tokens : SetVerifyToken(a, t)
      BY <1>2 DEF IssueVerification
    <2>2. a \in Live => LET new == [accounts[a] EXCEPT !.verified = FALSE, !.slot["verify"] = Fresh(t)]
                        IN  new \in Row /\ ~new.verified
      BY <1>0, SlotValues DEF Row, Kinds
    <2> QED BY <2>1, <2>2, VerifiedWrite DEF SetVerifyToken
  <1>3. ASSUME NEW r \in Reqs, IssueLoginLink(r) PROVE VerifiedStep
    <2> DEFINE a == reqs[r].acct
    <2>1. PICK t \in Tokens : SetLoginToken(a, t)
      BY <1>3 DEF IssueLoginLink
    <2>2. a \in Live => LET new == [accounts[a] EXCEPT !.slot["login"] = Fresh(t)]
                        IN  new \in Row /\ new.verified = accounts[a].verified
      BY <1>0, SlotValues DEF Row, Kinds
    <2> QED BY <2>1, <2>2, VerifiedWrite DEF SetLoginToken
  <1>4. ASSUME NEW r \in Reqs, IssueEmailChange(r) PROVE VerifiedStep
    <2> DEFINE a == reqs[r].acct
               e == reqs[r].email
    <2>1. PICK t \in Tokens : SetEmailChange(a, e, t)
      BY <1>4 DEF IssueEmailChange
    <2>2. e \in Emails
      BY <1>4 DEF IssueEmailChange, TypeInv, ReqsInv, Holds
    <2>3. a \in Live => LET new == [accounts[a] EXCEPT !.pending = e, !.slot["change"] = Fresh(t)]
                        IN  new \in Row /\ new.verified = accounts[a].verified
      BY <1>0, <2>2, SlotValues DEF Row, Kinds
    <2> QED BY <2>1, <2>3, VerifiedWrite DEF SetEmailChange
  <1>5. ASSUME NEW r \in Reqs, IssueDeletion(r) PROVE VerifiedStep
    <2> DEFINE a == reqs[r].acct
    <2>1. PICK t \in Tokens : SetDeleteToken(a, t)
      BY <1>5 DEF IssueDeletion
    <2>2. a \in Live => LET new == [accounts[a] EXCEPT !.slot["delete"] = Fresh(t)]
                        IN  new \in Row /\ new.verified = accounts[a].verified
      BY <1>0, SlotValues DEF Row, Kinds
    <2> QED BY <2>1, <2>2, VerifiedWrite DEF SetDeleteToken
  <1>6. ASSUME NEW r \in Reqs, CorrectEmail(r) PROVE VerifiedStep
    <2> DEFINE a == reqs[r].acct
               e == reqs[r].email
    <2>1. e \in Emails /\ Write(a, [accounts[a] EXCEPT !.email = e])
      BY <1>6 DEF CorrectEmail, UpdateEmail, TypeInv, ReqsInv, Holds
    <2>2. a \in Live => LET new == [accounts[a] EXCEPT !.email = e]
                        IN  new \in Row /\ new.verified = accounts[a].verified
      BY <1>0, <2>1 DEF Row
    <2> QED BY <2>1, <2>2, VerifiedWrite
  <1>7. ASSUME NEW a \in AccountIds, NEW k \in Kinds, AgeSlot(a, k) PROVE VerifiedStep
    <2>1. PICK g \in Ages : Write(a, [accounts[a] EXCEPT !.slot[k].age = g])
      BY <1>7 DEF AgeSlot, Age, Ages
    <2>2. a \in Live => LET new == [accounts[a] EXCEPT !.slot[k].age = g]
                        IN  new \in Row /\ new.verified = accounts[a].verified
      BY <1>0 DEF Row, Slot
    <2> QED BY <2>1, <2>2, VerifiedWrite
  <1>8. CASE VerifyEmail \/ \E r \in Reqs : LoginConsume(r)
    <2>1. PICK l \in links, k \in {"verify", "login"} :
             /\ Matches(l.acct, k, l.token)
             /\ Write(l.acct, [accounts[l.acct] EXCEPT !.verified = TRUE, !.slot[k] = Empty])
             /\ links' = links /\ redeemed' = redeemed \cup {l.token}
      BY <1>8 DEF VerifyEmail, VerifyByToken, LoginConsume, ConsumeLoginToken
    <2>2. l.kind = k /\ l.acct \in Live
      BY <2>1, Followed DEF Kinds
    <2>3. ProvenOnce(l.acct)'
      BY <2>1, <2>2 DEF ProvenOnce
    <2>4. [accounts[l.acct] EXCEPT !.verified = TRUE, !.slot[k] = Empty] \in Row
      BY <1>0, <2>2, SlotValues DEF Row, Kinds
    <2> QED BY <2>1, <2>3, <2>4, VerifiedWrite
  <1>9. ASSUME NEW r \in Reqs, PromoteEmail(r), ~UNCHANGED accounts PROVE VerifiedStep
    <2> DEFINE a == reqs[r].acct
               new == [accounts[a] EXCEPT !.email = accounts[a].pending,
                                          !.pending = NoEmail, !.slot["change"] = Empty]
    <2>1. a \in Live /\ accounts[a].pending # NoEmail /\ Write(a, new)
      BY <1>9 DEF PromoteEmail, PromotePending, Promotable
    <2>2. new \in Row /\ new.verified = accounts[a].verified
      BY <1>0, <2>1, SlotValues DEF Row, Kinds
    <2> QED BY <2>1, <2>2, VerifiedWrite
  <1>10. CASE ConfirmDelete \/ Purge
    BY <1>10 DEF ConfirmDelete, Purge, DeleteByToken, PurgeUnverifiedAccounts, DeleteRows,
                 Restrict, VerifiedStep, Live
  <1>11. CASE UNCHANGED accounts
    BY <1>11 DEF VerifiedStep, Live
  <1> QED BY <1>1, <1>2, <1>3, <1>4, <1>5, <1>6, <1>7, <1>8, <1>9, <1>10, <1>11
        DEF Next, Arrive, Continue, Abort, VerifyResend, VerifyEmailChange, Login, LoginFlow,
            SettingsEmail, ConfirmEmailConsume, RequestDelete, SignupSession, FindLogin, StartSession, ProbeChange,
            PromoteEmail, OwnBrowser, RotateSession, RotateFails, DropRotated, DropOthers, DropFails, Respond, Logout,
            ExpireSession, storeVars

\* Past the gate a request has the account it had, or one that is verified now.
Gated == {"probeChange", "issueChange", "issueDelete"}

LEMMA GatedRequest ==
    ASSUME TypeInv, NEW r \in Reqs, Arrive(r) \/ Continue(r) \/ Abort(r)
    PROVE  \A q \in Reqs : reqs'[q].pc \in Gated =>
              \/ reqs[q].pc \in Gated /\ reqs'[q].acct = reqs[q].acct
              \/ reqs'[q].acct \in Live /\ accounts[reqs'[q].acct].verified
  <1>0. reqs \in [Reqs -> Request]
    BY DEF TypeInv, ReqsInv
  <1>1. CASE \E pc \in Steps \ Gated : \E a, e : Goto(r, At(pc, a, e))
    BY <1>0, <1>1 DEF Goto, At, Idle, Gated
  <1>2. CASE Done(r)
    BY <1>0, <1>2 DEF Done, Goto, Idle, Gated
  <1>3. CASE SettingsEmail(r) \/ RequestDelete(r)
    <2>1. \E pc \in Gated, a \in Live :
             \E e : accounts[a].verified /\ Goto(r, At(pc, a, e))
      BY <1>3 DEF SettingsEmail, RequestDelete, Verified, Begin, Goto, Gated
    <2> QED BY <1>0, <2>1 DEF Goto, At, Idle, Gated
  <1>4. CASE ProbeChange(r) /\ ~Done(r)
    <2>1. Goto(r, [reqs[r] EXCEPT !.pc = "issueChange"])
      BY <1>4 DEF ProbeChange, Done
    <2> QED BY <1>0, <1>4, <2>1 DEF Goto, Request, ProbeChange, Gated
  <1>5. CASE SignupSession(r) \/ CorrectEmail(r) \/ OwnBrowser(r) \/ DropRotated(r) \/ DropOthers(r)
    <2>1. PICK pc \in Steps \ Gated : Goto(r, [reqs[r] EXCEPT !.pc = pc])
      BY <1>5 DEF SignupSession, CorrectEmail, OwnBrowser, DropRotated, DropOthers, Steps, Gated
    <2> QED BY <1>0, <2>1 DEF Goto, Request, Gated
  <1>6. CASE RotateSession(r)
    BY <1>0, <1>6 DEF RotateSession, Goto, Request, Gated
  <1>7. CASE ConfirmEmailConsume(r) \/ RotateFails(r) \/ DropFails(r) \/ (PromoteEmail(r) /\ ~Done(r))
    <2>1. \/ Goto(r, [reqs[r] EXCEPT !.pc = "changed", !.warned = TRUE])
          \/ Goto(r, [reqs[r] EXCEPT !.pc = "ownBrowser", !.token = NoToken,
                                     !.before = SessionsOf(reqs[r].acct)])
          \/ \E l \in links, s \in DOMAIN sessions \cup {NoSid} :
                Goto(r, [At("promote", l.acct, NoEmail) EXCEPT !.sid = s, !.token = l.token])
      BY <1>7 DEF ConfirmEmailConsume, RotateFails, DropFails, PromoteEmail, Begin, Goto
    <2>2. \E x : Goto(r, x) /\ x.pc \notin Gated
      <3>1. [reqs[r] EXCEPT !.pc = "changed", !.warned = TRUE].pc = "changed"
        BY <1>0 DEF Request
      <3>2. [reqs[r] EXCEPT !.pc = "ownBrowser", !.token = NoToken,
                            !.before = SessionsOf(reqs[r].acct)].pc = "ownBrowser"
        BY <1>0 DEF Request
      <3>3. \A l \in links, s \in DOMAIN sessions \cup {NoSid} :
               [At("promote", l.acct, NoEmail) EXCEPT !.sid = s, !.token = l.token].pc = "promote"
        BY DEF At, Idle
      <3> QED BY <2>1, <3>1, <3>2, <3>3 DEF Gated
    <2> QED BY <1>0, <2>2 DEF Goto
  <1>8. CASE \/ Signup(r) \/ VerifyResend(r) \/ VerifyEmailChange(r) \/ Login(r)
             \/ LoginConsume(r) \/ LoginFlow(r) \/ (FindLogin(r) /\ ~Done(r))
    <2>1. \E pc \in Steps \ Gated : \E a, e : Goto(r, At(pc, a, e))
      BY <1>8 DEF Signup, VerifyResend, VerifyEmailChange, Login, LoginConsume, LoginFlow,
                  FindLogin, Begin, Goto, Steps, Gated
    <2> QED BY <2>1, <1>1
  <1> QED BY <1>2, <1>3, <1>4, <1>5, <1>6, <1>7, <1>8
        DEF Arrive, Continue, Abort, IssueVerification, IssueLoginLink, IssueEmailChange,
            IssueDeletion, StartSession, Respond

\* A change or deletion link is mailed by a request past the gate.
LEMMA GatedMail ==
    ASSUME Next, NEW l \in links' \ links, l.kind \in {"change", "delete"}
    PROVE  \E r \in Reqs : reqs[r].pc \in Gated /\ l.acct = reqs[r].acct
  <1>1. ASSUME NEW r \in Reqs, IssueVerification(r) \/ IssueLoginLink(r) PROVE FALSE
    BY <1>1 DEF IssueVerification, IssueLoginLink, Mail
  <1>2. ASSUME NEW r \in Reqs, IssueEmailChange(r) \/ IssueDeletion(r)
        PROVE  reqs[r].pc \in Gated /\ l.acct = reqs[r].acct
    BY <1>2 DEF IssueEmailChange, IssueDeletion, Mail, Gated
  <1>3. CASE UNCHANGED links
    BY <1>3
  <1> QED BY <1>1, <1>2, <1>3
        DEF Next, Arrive, Continue, Abort, Signup, VerifyResend, VerifyEmailChange, Login,
            LoginConsume, LoginFlow, SettingsEmail, ConfirmEmailConsume, RequestDelete,
            SignupSession, CorrectEmail, FindLogin, StartSession, ProbeChange, PromoteEmail,
            OwnBrowser, RotateSession, RotateFails, DropRotated, DropOthers, DropFails, Respond, VerifyEmail, Logout,
            ConfirmDelete, Purge, ExpireSession, AgeSlot

LEMMA GateNext == TypeInv /\ GateInv /\ [Next]_vars => GateInv'
  <1> SUFFICES ASSUME TypeInv, GateInv, [Next]_vars PROVE GateInv'
    OBVIOUS
  <1>1. CASE UNCHANGED vars
    BY <1>1 DEF vars, GateInv, VerifiedByLink, GatedLinks, ProvenOnce, Live
  <1>2. CASE Next
    <2>1. \A a : ProvenOnce(a) => ProvenOnce(a)'
      BY <1>2, ProvenStays
    <2>2. VerifiedByLink'
      <3>1. VerifiedStep
        BY <1>2, VerifiedNext
      <3>2. \A a \in Live : accounts[a].verified => ProvenOnce(a)'
        BY <2>1 DEF GateInv, VerifiedByLink
      <3> SUFFICES ASSUME NEW a \in Live', accounts'[a].verified PROVE ProvenOnce(a)'
        BY DEF VerifiedByLink
      <3> QED BY <3>1, <3>2 DEF VerifiedStep
    <2>3. GatedLinks'
      <3> SUFFICES ASSUME NEW l \in links', l.kind \in {"change", "delete"}
                   PROVE  ProvenOnce(l.acct)'
        BY DEF GatedLinks
      <3>1. CASE l \in links
        BY <3>1, <1>2, HistoryGrows DEF GateInv, GatedLinks, ProvenOnce
      <3>2. CASE l \notin links
        <4>1. PICK r \in Reqs : reqs[r].pc \in Gated /\ l.acct = reqs[r].acct
          BY <3>2, <1>2, GatedMail
        <4>2. ProvenOnce(l.acct)
          BY <4>1 DEF GateInv, Gated
        <4> QED BY <4>2, <1>2, HistoryGrows DEF ProvenOnce
      <3> QED BY <3>1, <3>2
    <2>4. ASSUME NEW q \in Reqs, reqs'[q].pc \in Gated PROVE ProvenOnce(reqs[q].acct)'
      <3>0. links \subseteq links' /\ redeemed \subseteq redeemed'
        BY <1>2, HistoryGrows
      <3>1. CASE UNCHANGED reqs
        <4>1. ProvenOnce(reqs[q].acct) /\ reqs'[q].acct = reqs[q].acct
          BY <3>1, <2>4 DEF GateInv, Gated
        <4> QED BY <4>1, <3>0 DEF ProvenOnce
      <3>2. CASE \E r \in Reqs : Arrive(r) \/ Continue(r) \/ Abort(r)
        <4>1. \/ reqs[q].pc \in Gated /\ reqs'[q].acct = reqs[q].acct
              \/ reqs'[q].acct \in Live /\ accounts[reqs'[q].acct].verified
          BY <3>2, <2>4, GatedRequest
        <4>2. ProvenOnce(reqs'[q].acct)
          BY <4>1 DEF GateInv, VerifiedByLink, Gated
        <4> QED BY <4>2, <3>0 DEF ProvenOnce
      <3> QED BY <3>1, <3>2, <1>2
            DEF Next, VerifyEmail, Logout, ConfirmDelete, Purge, ExpireSession, AgeSlot
    <2> QED BY <2>2, <2>3, <2>4 DEF GateInv, Gated
  <1> QED BY <1>1, <1>2

LEMMA InvGate == Spec => []GateInv
  <1>1. Init => GateInv
    BY DEF Init, StoreInit, GateInv, VerifiedByLink, GatedLinks, Live, Idle
  <1> QED BY <1>1, InvTypeInv, GateNext, PTL DEF Spec

\* An account counts as verified only after a verification or login link mailed for
\* it was redeemed (VerifyByToken, ConsumeLoginToken), for any number of accounts,
\* links and concurrent handlers.
THEOREM VerifiedOnlyByLink == Spec => []VerifiedByLink
  BY InvGate, PTL DEF GateInv

\* gateUnverified, read long before the write it guards, still keeps change and
\* deletion links from accounts that never proved an address.
THEOREM GateHolds == Spec => []GatedLinks
  BY InvGate, PTL DEF GateInv

-----------------------------------------------------------------------------
(* Rows and sessions.  A row leaves the table by DeleteRows alone, which   *)
(* takes its sessions along; a session appears under an id no request in   *)
(* flight remembers.                                                       *)

LEMMA RowsStay == ASSUME Next, ~ConfirmDelete, ~Purge PROVE Live \subseteq Live'
  <1>1. ASSUME NEW a, NEW row, Write(a, row) PROVE Live' = Live
    BY <1>1 DEF Write, Live
  <1>2. CASE \E r \in Reqs : Signup(r)
    BY <1>2 DEF Signup, CreateAccount, Live
  <1>3. CASE UNCHANGED accounts
    BY <1>3 DEF Live
  <1> QED BY <1>1, <1>2, <1>3
        DEF Next, Arrive, Continue, Abort, VerifyResend, VerifyEmailChange, Login, LoginConsume,
            LoginFlow, SettingsEmail, ConfirmEmailConsume, RequestDelete, SignupSession,
            IssueVerification, CorrectEmail, FindLogin, IssueLoginLink, StartSession,
            ProbeChange, IssueEmailChange, IssueDeletion, PromoteEmail, OwnBrowser, RotateSession, RotateFails,
            DropRotated, DropOthers, DropFails, Respond, VerifyEmail, Logout, ExpireSession, AgeSlot,
            storeVars, UpdateEmail, SetVerifyToken, VerifyByToken, SetLoginToken,
            ConsumeLoginToken, SetEmailChange, PromotePending, SetDeleteToken, Age

\* A session of after the step is one of before, or a new one of a live account.
LEMMA SessionStep ==
    ASSUME Next, NEW s \in DOMAIN sessions'
    PROVE  \/ s \in DOMAIN sessions /\ sessions'[s] = sessions[s]
           \/ FreshSid(s) /\ sessions'[s] \in Live
  <1>1. CASE \E x \in Sids : \E a : FreshSid(x) /\ CreateSession(x, a)
    BY <1>1 DEF CreateSession
  <1>2. CASE \E gone : DeleteSessions(gone)
    BY <1>2 DEF DeleteSessions, Restrict
  <1>3. CASE \E gone : DeleteRows(gone)
    BY <1>3 DEF DeleteRows, Restrict
  <1>4. CASE UNCHANGED sessions
    BY <1>4
  <1> QED BY <1>1, <1>2, <1>3, <1>4
        DEF Next, Arrive, Continue, Abort, Signup, VerifyResend, VerifyEmailChange, Login,
            LoginConsume, LoginFlow, SettingsEmail, ConfirmEmailConsume, RequestDelete,
            SignupSession, IssueVerification, CorrectEmail, FindLogin, IssueLoginLink,
            StartSession, ProbeChange, IssueEmailChange, IssueDeletion, PromoteEmail, OwnBrowser,
            RotateSession, RotateFails, DropRotated, DropOthers, DropFails, Respond, VerifyEmail, Logout,
            ConfirmDelete, DeleteByToken, Purge, PurgeUnverifiedAccounts, ExpireSession,
            AgeSlot, storeVars

LEMMA SessionsNext == SessionsOfLiveAccounts /\ [Next]_vars => SessionsOfLiveAccounts'
  <1> SUFFICES ASSUME SessionsOfLiveAccounts, [Next]_vars, NEW s \in DOMAIN sessions'
               PROVE  sessions'[s] \in Live'
    BY DEF SessionsOfLiveAccounts
  <1>1. CASE UNCHANGED vars
    BY <1>1 DEF SessionsOfLiveAccounts, vars, Live
  <1>2. CASE ConfirmDelete \/ Purge
    <2>1. PICK gone : DeleteRows(gone)
      BY <1>2 DEF ConfirmDelete, Purge, DeleteByToken, PurgeUnverifiedAccounts
    <2>2. /\ s \in DOMAIN sessions /\ sessions[s] \notin gone
          /\ sessions'[s] = sessions[s]
      BY <2>1 DEF DeleteRows, Restrict
    <2>3. Live' = Live \ gone
      BY <2>1 DEF DeleteRows, Restrict, Live
    <2> QED BY <2>2, <2>3 DEF SessionsOfLiveAccounts
  <1>3. CASE Next /\ ~ConfirmDelete /\ ~Purge
    <2>1. Live \subseteq Live'
      BY <1>3, RowsStay
    <2>2. \/ s \in DOMAIN sessions /\ sessions'[s] = sessions[s]
          \/ sessions'[s] \in Live
      BY <1>3, SessionStep
    <2> QED BY <2>1, <2>2 DEF SessionsOfLiveAccounts
  <1> QED BY <1>1, <1>2, <1>3

\* A handler that resolved an account before it was deleted or reaped leaves no
\* session of it behind (handleLoginConsume and handleConfirmDelete interleaved).
THEOREM NoOrphanSessions == Spec => []SessionsOfLiveAccounts
  <1>1. Init => SessionsOfLiveAccounts
    BY DEF Init, StoreInit, SessionsOfLiveAccounts
  <1> QED BY <1>1, SessionsNext, PTL DEF Spec

\* A row goes only by its own live deletion link or by the purge of an unverified
\* sign-up a week old (DeleteByToken, PurgeUnverifiedAccounts).
THEOREM RemovalHasCause == Spec => RemovedOnPurpose
  <1> DEFINE Caused == \A a \in Live \ DOMAIN accounts' :
                \/ accounts[a].slot["delete"].age = "fresh" /\
                   accounts[a].slot["delete"].token \in redeemed' \ redeemed
                \/ ~accounts[a].verified /\ accounts[a].slot["verify"].age = "stale"
  <1>1. TypeInv /\ [Next]_vars => [Caused]_vars
    <2> SUFFICES ASSUME TypeInv, Next PROVE Caused
      BY DEF vars
    <2>1. CASE ConfirmDelete
      <3>1. PICK l \in links : /\ DeleteByToken(l.acct, l.token)
                               /\ redeemed' = redeemed \cup {l.token}
        BY <2>1 DEF ConfirmDelete
      <3>2. l.token \notin redeemed /\ accounts[l.acct].slot["delete"] = Fresh(l.token)
        BY <3>1, Followed DEF DeleteByToken, Matches, Kinds
      <3>3. DOMAIN accounts' = Live \ {l.acct}
        BY <3>1 DEF DeleteByToken, DeleteRows, Restrict
      <3> QED BY <3>1, <3>2, <3>3 DEF Fresh
    <2>2. CASE Purge
      <3>1. DOMAIN accounts' = Live \ {a \in Live : Reapable(a)}
        BY <2>2 DEF Purge, PurgeUnverifiedAccounts, DeleteRows, Restrict
      <3> QED BY <3>1 DEF Reapable
    <2>3. CASE ~ConfirmDelete /\ ~Purge
      BY <2>3, RowsStay DEF Live
    <2> QED BY <2>1, <2>2, <2>3
  <1> QED BY <1>1, InvTypeInv, PTL DEF Spec, RemovedOnPurpose

-----------------------------------------------------------------------------
(* Signing out after an e-mail change, or warning that it failed.          *)
(* Inductive once the session the handler keeps is known not to be one of  *)
(* those it must sign out.                                                 *)

Working == {"ownBrowser", "rotate", "dropRotated", "dropOthers", "dropAll"}

KeepsNew(q) ==
    /\ q.pc = "promote" => q.keep = NoSid
    /\ q.pc \in Working => q.keep \notin q.before

SignOutInv == ChangeSignsOut /\ \A r \in Reqs : KeepsNew(reqs[r])

LEMMA KeepsNewStep ==
    ASSUME TypeInv, SignOutInv, NEW r \in Reqs, Arrive(r) \/ Continue(r) \/ Abort(r)
    PROVE  \E q \in Request :
              /\ Goto(r, q) /\ KeepsNew(q)
              /\ q.pc = "changed" /\ ~q.warned =>
                           /\ DropOthers(r)
                           /\ reqs[r].keep \notin reqs[r].before
                           /\ q.before = reqs[r].before /\ q.acct = reqs[r].acct
  <1>0. reqs \in [Reqs -> Request] /\ reqs[r] \in Request /\ KeepsNew(reqs[r])
    BY DEF TypeInv, ReqsInv, SignOutInv
  <1>a. ReqsInv'
    BY ReqArrives, ReqContinues
  <1>b. PICK q \in Request : Goto(r, q) /\ q = reqs'[r]
    <2>1. \E q : Goto(r, q)
      BY DEF Arrive, Continue, Abort, Signup, VerifyResend, VerifyEmailChange, Login,
             LoginConsume, LoginFlow, SettingsEmail, ConfirmEmailConsume, RequestDelete,
             SignupSession, IssueVerification, CorrectEmail, FindLogin, IssueLoginLink,
             StartSession, ProbeChange, IssueEmailChange, IssueDeletion, PromoteEmail, OwnBrowser,
             RotateSession, RotateFails, DropRotated, DropOthers, DropFails, Respond, Begin, Done, Goto
    <2>2. PICK q : Goto(r, q)
      BY <2>1
    <2>3. reqs'[r] = q /\ q \in Request
      BY <2>2, <1>0, <1>a DEF Goto, ReqsInv
    <2> QED BY <2>2, <2>3
  <1>c. SUFFICES /\ KeepsNew(q)
                 /\ q.pc = "changed" /\ ~q.warned =>
                              /\ DropOthers(r)
                              /\ reqs[r].keep \notin reqs[r].before
                              /\ q.before = reqs[r].before /\ q.acct = reqs[r].acct
    BY <1>b
  <1>1. CASE \E pc, a, e : Goto(r, At(pc, a, e)) /\ pc \notin Working \cup {"promote", "changed"}
    BY <1>0, <1>1, <1>b DEF Goto, At, Idle, KeepsNew
  <1>2. CASE Done(r)
    BY <1>0, <1>2, <1>b DEF Done, Goto, Idle, KeepsNew, Working
  <1>3. CASE ConfirmEmailConsume(r)
    <2>1. PICK l \in links, s \in DOMAIN sessions \cup {NoSid} :
             q = [At("promote", l.acct, NoEmail) EXCEPT !.sid = s, !.token = l.token]
      BY <1>3, <1>b, <1>0 DEF ConfirmEmailConsume, Begin, Goto
    <2>2. q.pc = "promote" /\ q.keep = NoSid
      BY <2>1 DEF At, Idle
    <2> QED BY <2>2 DEF KeepsNew, Working
  <1>8. CASE PromoteEmail(r) /\ ~Done(r)
    <2>1. q = [reqs[r] EXCEPT !.pc = "ownBrowser", !.token = NoToken,
                              !.before = SessionsOf(reqs[r].acct)]
      BY <1>8, <1>b, <1>0 DEF PromoteEmail, Goto
    <2>2. q.pc = "ownBrowser" /\ q.keep = reqs[r].keep /\ q.before \subseteq Sids
      BY <2>1, <1>0 DEF Request, SessionsOf, TypeInv, TablesInv, StoreTypeOK
    <2>3. q.keep = NoSid
      BY <1>8, <2>2, <1>0 DEF PromoteEmail, KeepsNew
    <2> QED BY <2>2, <2>3, HandlerSentinels DEF KeepsNew
  <1>9. CASE RotateFails(r) \/ DropFails(r)
    <2>1. q.pc = "changed" /\ q.warned
      <3>1. Goto(r, [reqs[r] EXCEPT !.pc = "changed", !.warned = TRUE])
        BY <1>9 DEF RotateFails, DropFails
      <3>2. q = [reqs[r] EXCEPT !.pc = "changed", !.warned = TRUE]
        BY <3>1, <1>b, <1>0 DEF Goto
      <3>3. /\ [reqs[r] EXCEPT !.pc = "changed", !.warned = TRUE].pc = "changed"
            /\ [reqs[r] EXCEPT !.pc = "changed", !.warned = TRUE].warned = TRUE
        BY <1>0 DEF Request
      <3> QED BY <3>2, <3>3
    <2> QED BY <2>1 DEF KeepsNew, Working
  <1>4. CASE RotateSession(r)
    <2>1. PICK s \in Sids : /\ FreshSid(s)
                            /\ q = [reqs[r] EXCEPT !.pc = "dropRotated", !.keep = s]
      BY <1>4, <1>b, <1>0 DEF RotateSession, Goto
    <2>2. q.pc = "dropRotated" /\ q.keep = s /\ q.before = reqs[r].before
      BY <2>1, <1>0 DEF Request
    <2>3. s \notin reqs[r].before
      BY <2>1 DEF FreshSid
    <2> QED BY <2>2, <2>3 DEF KeepsNew
  <1>5. CASE OwnBrowser(r) \/ DropRotated(r) \/ DropOthers(r)
    <2>1. reqs[r].pc \in Working
      BY <1>5 DEF OwnBrowser, DropRotated, DropOthers, Working
    <2>2. PICK pc \in {"rotate", "dropAll", "dropOthers", "changed"} :
             /\ q = [reqs[r] EXCEPT !.pc = pc]
             /\ pc = "changed" => DropOthers(r)
      BY <1>5, <1>b, <1>0 DEF OwnBrowser, DropRotated, DropOthers, Goto
    <2>3. q.pc = pc /\ q.keep = reqs[r].keep /\ q.before = reqs[r].before /\ q.acct = reqs[r].acct
      BY <2>2, <1>0 DEF Request
    <2> QED BY <2>1, <2>2, <2>3, <1>0 DEF KeepsNew
  <1>6. CASE SignupSession(r) \/ CorrectEmail(r) \/ (ProbeChange(r) /\ ~Done(r))
    <2>1. PICK pc \in {"issueVerify", "issueChange"} : q = [reqs[r] EXCEPT !.pc = pc]
      BY <1>6, <1>b, <1>0 DEF SignupSession, CorrectEmail, ProbeChange, Goto, Done
    <2>2. q.pc = pc
      BY <2>1, <1>0 DEF Request
    <2> QED BY <2>2 DEF KeepsNew, Working
  <1>7. CASE \/ Signup(r) \/ VerifyResend(r) \/ VerifyEmailChange(r) \/ Login(r)
             \/ LoginConsume(r) \/ LoginFlow(r) \/ (FindLogin(r) /\ ~Done(r))
             \/ SettingsEmail(r) \/ RequestDelete(r)
    <2>1. \E pc, a, e : Goto(r, At(pc, a, e)) /\ pc \notin Working \cup {"promote", "changed"}
      BY <1>7 DEF Signup, VerifyResend, VerifyEmailChange, Login, LoginConsume, LoginFlow,
                  FindLogin, SettingsEmail, RequestDelete, Begin, Goto, Working
    <2> QED BY <2>1, <1>1
  <1> QED BY <1>2, <1>3, <1>4, <1>5, <1>6, <1>7, <1>8, <1>9
        DEF Arrive, Continue, Abort, IssueVerification, IssueLoginLink, IssueEmailChange,
            IssueDeletion, StartSession, Respond

LEMMA SignOutNext == TypeInv /\ SignOutInv /\ [Next]_vars => SignOutInv'
  <1> SUFFICES ASSUME TypeInv, SignOutInv, [Next]_vars PROVE SignOutInv'
    OBVIOUS
  <1>0. reqs \in [Reqs -> Request]
    BY DEF TypeInv, ReqsInv
  <1>1. CASE UNCHANGED vars
    BY <1>1 DEF vars, SignOutInv, ChangeSignsOut, SessionsOf
  <1>2. CASE Next
    \* No step gives a session of before the change back.
    <2>1. ASSUME NEW q \in Reqs, reqs[q].pc = "changed", ~reqs[q].warned
          PROVE  \A s \in reqs[q].before :
                    ~(s \in DOMAIN sessions' /\ sessions'[s] = reqs[q].acct)
      BY <1>2, <2>1, SessionStep DEF SignOutInv, ChangeSignsOut, SessionsOf, FreshSid
    <2>2. CASE UNCHANGED reqs
      <3>1. ChangeSignsOut'
        BY <2>1, <2>2 DEF ChangeSignsOut, SessionsOf
      <3> QED BY <2>2, <3>1 DEF SignOutInv
    <2>3. ASSUME NEW r \in Reqs, Arrive(r) \/ Continue(r) \/ Abort(r) PROVE SignOutInv'
      <3>1. PICK q \in Request :
               /\ Goto(r, q) /\ KeepsNew(q)
               /\ q.pc = "changed" /\ ~q.warned =>
                            /\ DropOthers(r)
                            /\ reqs[r].keep \notin reqs[r].before
                            /\ q.before = reqs[r].before /\ q.acct = reqs[r].acct
        BY <2>3, KeepsNewStep
      <3>2. reqs'[r] = q /\ \A x \in Reqs : x # r => reqs'[x] = reqs[x]
        BY <1>0, <3>1 DEF Goto
      <3>3. \A x \in Reqs : KeepsNew(reqs'[x])
        BY <3>1, <3>2 DEF SignOutInv
      <3>4. ASSUME NEW x \in Reqs, reqs'[x].pc = "changed", ~reqs'[x].warned
            PROVE  \A s \in reqs'[x].before :
                      ~(s \in DOMAIN sessions' /\ sessions'[s] = reqs'[x].acct)
        <4>1. CASE x # r
          BY <4>1, <3>2, <3>4, <2>1
        <4>2. CASE x = r
          BY <4>2, <3>1, <3>2, <3>4
             DEF DropOthers, DeleteSessions, Restrict, SessionsOf
        <4> QED BY <4>1, <4>2
      <3>5. ChangeSignsOut'
        BY <3>4 DEF ChangeSignsOut, SessionsOf
      <3> QED BY <3>3, <3>5 DEF SignOutInv
    <2> QED BY <2>2, <2>3, <1>2
          DEF Next, VerifyEmail, Logout, ConfirmDelete, Purge, ExpireSession, AgeSlot
  <1> QED BY <1>1, <1>2

\* A confirmed e-mail change that is answered has signed out every session the account
\* had when it applied, or logged that a statement of the sign-out failed
\* (handleConfirmEmailConsume, which goes on after either failure), for any number of
\* sessions and whatever sign-ins, rotations and other confirmations overlap it.
THEOREM ChangeRevokesSessions == Spec => []ChangeSignsOut
  <1>1. Init => SignOutInv
    BY DEF Init, StoreInit, SignOutInv, ChangeSignsOut, KeepsNew, Working, Idle
  <1> QED BY <1>1, InvTypeInv, SignOutNext, PTL DEF Spec, SignOutInv

-----------------------------------------------------------------------------
(* What one step may do to the account table: nothing, take rows away, add *)
(* one, or assign one row under the UNIQUE index, arming at most the slot  *)
(* of a token that is mailed in the same step.                             *)

Armed(a, t) == FreshToken(t) /\ \E k, e : Mail(t, k, a, e)

Assigned(a, row) ==
    /\ row \in Row
    /\ Write(a, row)
    /\ row.ftId = accounts[a].ftId
    /\ row.email = accounts[a].email \/ ~EmailTaken(row.email, a)
    /\ \A k \in Kinds, t \in Tokens : row.slot[k] = Fresh(t) =>
          accounts[a].slot[k] = Fresh(t) \/ Armed(a, t)

TableStep ==
    \/ UNCHANGED accounts
    \/ \E gone : accounts' = Restrict(accounts, Live \ gone)
    \/ \E a \in AccountIds, e \in Emails, f \in FtIds : CreateAccount(a, e, f)
    \/ \E a \in Live : \E row : Assigned(a, row)

\* Assigning slot k, to a fresh token that is mailed or to one that is not fresh.
LEMMA AssignedSlot ==
    ASSUME NEW a \in Live, NEW row, accounts[a] \in Row, Write(a, row), NEW k \in Kinds,
           NEW s, SlotSet(accounts[a], row, k, s),
           row.ftId = accounts[a].ftId,
           row.email = accounts[a].email \/ ~EmailTaken(row.email, a),
           \A t \in Tokens : s = Fresh(t) => Armed(a, t)
    PROVE  Assigned(a, row)
  BY DEF Assigned, SlotSet

LEMMA TableIssue ==
    ASSUME TypeInv, NEW r \in Reqs, NEW a, a = reqs[r].acct, a \in Live,
           IssueVerification(r) \/ IssueLoginLink(r) \/ IssueEmailChange(r) \/ IssueDeletion(r)
    PROVE  \E row : Assigned(a, row)
  <1>0. accounts[a] \in Row
    BY DEF TypeInv, TablesInv, StoreTypeOK
  <1>1. \A t, u \in Tokens : Fresh(t) = Fresh(u) => t = u
    BY DEF Fresh
  <1>2. ASSUME IssueVerification(r) PROVE \E row : Assigned(a, row)
    <2>1. PICK t \in Tokens : FreshToken(t) /\ SetVerifyToken(a, t)
                              /\ Mail(t, "verify", a, reqs[r].email)
      BY <1>2 DEF IssueVerification
    <2> DEFINE new == [accounts[a] EXCEPT !.verified = FALSE, !.slot["verify"] = Fresh(t)]
    <2>2. SlotSet(accounts[a], new, "verify", Fresh(t))
          /\ new.ftId = accounts[a].ftId /\ new.email = accounts[a].email
      BY <1>0, SlotValues DEF SlotSet, Row, Kinds
    <2>3. Write(a, new) /\ Armed(a, t) /\ "verify" \in Kinds
      BY <2>1 DEF SetVerifyToken, Armed, Kinds
    <2> HIDE DEF new
    <2> QED BY <1>0, <1>1, <2>2, <2>3, AssignedSlot
  <1>3. ASSUME IssueLoginLink(r) PROVE \E row : Assigned(a, row)
    <2>1. PICK t \in Tokens : FreshToken(t) /\ SetLoginToken(a, t)
                              /\ Mail(t, "login", a, reqs[r].email)
      BY <1>3 DEF IssueLoginLink
    <2> DEFINE new == [accounts[a] EXCEPT !.slot["login"] = Fresh(t)]
    <2>2. SlotSet(accounts[a], new, "login", Fresh(t))
          /\ new.ftId = accounts[a].ftId /\ new.email = accounts[a].email
      BY <1>0, SlotValues DEF SlotSet, Row, Kinds
    <2>3. Write(a, new) /\ Armed(a, t) /\ "login" \in Kinds
      BY <2>1 DEF SetLoginToken, Armed, Kinds
    <2> HIDE DEF new
    <2> QED BY <1>0, <1>1, <2>2, <2>3, AssignedSlot
  <1>4. ASSUME IssueEmailChange(r) PROVE \E row : Assigned(a, row)
    <2>1. PICK t \in Tokens : FreshToken(t) /\ SetEmailChange(a, reqs[r].email, t)
                              /\ Mail(t, "change", a, reqs[r].email)
      BY <1>4 DEF IssueEmailChange
    <2> DEFINE new == [accounts[a] EXCEPT !.pending = reqs[r].email, !.slot["change"] = Fresh(t)]
    <2>0. reqs[r].email \in Emails
      BY <1>4 DEF IssueEmailChange, TypeInv, ReqsInv, Holds
    <2>2. SlotSet(accounts[a], new, "change", Fresh(t))
          /\ new.ftId = accounts[a].ftId /\ new.email = accounts[a].email
      BY <1>0, <2>0, SlotValues DEF SlotSet, Row, Kinds
    <2>3. Write(a, new) /\ Armed(a, t) /\ "change" \in Kinds
      BY <2>1 DEF SetEmailChange, Armed, Kinds
    <2> HIDE DEF new
    <2> QED BY <1>0, <1>1, <2>2, <2>3, AssignedSlot
  <1>5. ASSUME IssueDeletion(r) PROVE \E row : Assigned(a, row)
    <2>1. PICK t \in Tokens : FreshToken(t) /\ SetDeleteToken(a, t)
                              /\ Mail(t, "delete", a, reqs[r].email)
      BY <1>5 DEF IssueDeletion
    <2> DEFINE new == [accounts[a] EXCEPT !.slot["delete"] = Fresh(t)]
    <2>2. SlotSet(accounts[a], new, "delete", Fresh(t))
          /\ new.ftId = accounts[a].ftId /\ new.email = accounts[a].email
      BY <1>0, SlotValues DEF SlotSet, Row, Kinds
    <2>3. Write(a, new) /\ Armed(a, t) /\ "delete" \in Kinds
      BY <2>1 DEF SetDeleteToken, Armed, Kinds
    <2> HIDE DEF new
    <2> QED BY <1>0, <1>1, <2>2, <2>3, AssignedSlot
  <1> QED BY <1>2, <1>3, <1>4, <1>5

LEMMA TableRedeem ==
    ASSUME TypeInv, VerifyEmail \/ \E r \in Reqs : LoginConsume(r)
    PROVE  \E a \in Live : \E row : Assigned(a, row)
  <1>0. Empty \in Slot /\ \A t \in Tokens : Empty # Fresh(t)
    BY SlotValues DEF Empty, Fresh
  <1>1. ASSUME NEW l \in links, NEW k \in {"verify", "login"}, Matches(l.acct, k, l.token),
               Write(l.acct, [accounts[l.acct] EXCEPT !.verified = TRUE, !.slot[k] = Empty])
        PROVE  \E a \in Live : \E row : Assigned(a, row)
    <2> DEFINE a == l.acct
               new == [accounts[a] EXCEPT !.verified = TRUE, !.slot[k] = Empty]
    <2>1. a \in Live /\ accounts[a] \in Row /\ k \in Kinds
      BY <1>1, Followed DEF Kinds
    <2>2. SlotSet(accounts[a], new, k, Empty)
          /\ new.ftId = accounts[a].ftId /\ new.email = accounts[a].email
      BY <2>1, <1>0 DEF SlotSet, Row, Kinds
    <2>3. Write(a, new)
      BY <1>1
    <2> HIDE DEF new, a
    <2> QED BY <1>0, <2>1, <2>2, <2>3, AssignedSlot
  <1>3. CASE VerifyEmail \/ \E r \in Reqs : LoginConsume(r)
    <2>1. \E l \in links, k \in {"verify", "login"} :
             /\ Matches(l.acct, k, l.token)
             /\ Write(l.acct, [accounts[l.acct] EXCEPT !.verified = TRUE, !.slot[k] = Empty])
      BY <1>3 DEF VerifyEmail, VerifyByToken, LoginConsume, ConsumeLoginToken
    <2> QED BY <2>1, <1>1
  <1> QED BY <1>3

LEMMA TablePromote ==
    ASSUME TypeInv, NEW r \in Reqs, PromoteEmail(r), ~UNCHANGED accounts
    PROVE  \E a \in Live : \E row : Assigned(a, row)
  <1> DEFINE a == reqs[r].acct
             new == [accounts[a] EXCEPT !.email = accounts[a].pending,
                                        !.pending = NoEmail, !.slot["change"] = Empty]
  <1>0. Empty \in Slot /\ \A t \in Tokens : Empty # Fresh(t)
    BY SlotValues DEF Empty, Fresh
  <1>1. /\ a \in Live /\ accounts[a].pending # NoEmail
        /\ ~EmailTaken(accounts[a].pending, a) /\ Write(a, new)
    BY DEF PromoteEmail, PromotePending, Promotable
  <1>2. accounts[a] \in Row /\ "change" \in Kinds /\ accounts[a].pending \in Emails
    BY <1>1 DEF TypeInv, TablesInv, StoreTypeOK, Row, Kinds
  <1>3. SlotSet(accounts[a], new, "change", Empty)
        /\ new.ftId = accounts[a].ftId /\ new.email = accounts[a].pending
    BY <1>0, <1>2 DEF SlotSet, Row, Kinds
  <1> HIDE DEF new, a
  <1> QED BY <1>0, <1>1, <1>2, <1>3, AssignedSlot

LEMMA TableNext == ASSUME TypeInv, Next PROVE TableStep
  <1>0. \A a \in Live : accounts[a] \in Row
    BY DEF TypeInv, TablesInv, StoreTypeOK
  <1>1. CASE \E r \in Reqs : Signup(r)
    BY <1>1 DEF Signup, TableStep
  <1>2. ASSUME NEW r \in Reqs,
               IssueVerification(r) \/ IssueLoginLink(r) \/ IssueEmailChange(r) \/ IssueDeletion(r)
        PROVE  TableStep
    <2>1. CASE reqs[r].acct \in Live
      BY <1>2, <2>1, TableIssue DEF TableStep
    <2>2. CASE reqs[r].acct \notin Live
      BY <1>2, <2>2 DEF IssueVerification, IssueLoginLink, IssueEmailChange, IssueDeletion,
                        SetVerifyToken, SetLoginToken, SetEmailChange, SetDeleteToken, Write,
                        TableStep
    <2> QED BY <2>1, <2>2
  <1>3. CASE VerifyEmail \/ \E r \in Reqs : LoginConsume(r)
    BY <1>3, TableRedeem DEF TableStep
  <1>8. ASSUME NEW r \in Reqs, PromoteEmail(r) PROVE TableStep
    BY <1>8, TablePromote DEF TableStep
  <1>4. CASE ConfirmDelete \/ Purge
    BY <1>4 DEF ConfirmDelete, Purge, DeleteByToken, PurgeUnverifiedAccounts, DeleteRows, TableStep
  <1>5. ASSUME NEW r \in Reqs, CorrectEmail(r) PROVE TableStep
    <2> DEFINE a == reqs[r].acct
               new == [accounts[a] EXCEPT !.email = reqs[r].email]
    <2>1. Write(a, new) /\ (a \in Live => ~EmailTaken(reqs[r].email, a)) /\ reqs[r].email \in Emails
      BY <1>5 DEF CorrectEmail, UpdateEmail, TypeInv, ReqsInv, Holds
    <2>2. a \in Live => /\ new \in Row /\ new.slot = accounts[a].slot
                        /\ new.ftId = accounts[a].ftId /\ new.email = reqs[r].email
      BY <1>0, <2>1 DEF Row
    <2>3. a \in Live => Assigned(a, new)
      BY <2>1, <2>2 DEF Assigned
    <2> QED BY <2>1, <2>3 DEF TableStep, Write
  <1>6. ASSUME NEW a \in AccountIds, NEW k \in Kinds, AgeSlot(a, k) PROVE TableStep
    <2>1. PICK g \in Ages \ {"fresh"} :
             a \in Live /\ Write(a, [accounts[a] EXCEPT !.slot[k].age = g])
      BY <1>6 DEF AgeSlot, Age, Ages
    <2> DEFINE s == [accounts[a].slot[k] EXCEPT !.age = g]
               new == [accounts[a] EXCEPT !.slot[k] = s]
    <2>2. s \in Slot /\ \A t \in Tokens : s # Fresh(t)
      BY <1>0, <2>1, SlotValues DEF Row, Slot, Fresh
    <2>3. SlotSet(accounts[a], new, k, s)
          /\ new.ftId = accounts[a].ftId /\ new.email = accounts[a].email
      BY <1>0, <2>1, <2>2 DEF SlotSet, Row
    <2>4. Write(a, new)
      BY <2>1
    <2> HIDE DEF new, s
    <2>5. Assigned(a, new)
      BY <1>0, <2>1, <2>2, <2>3, <2>4, AssignedSlot
    <2> QED BY <2>1, <2>5 DEF TableStep
  <1>7. CASE UNCHANGED accounts
    BY <1>7 DEF TableStep
  <1> QED BY <1>1, <1>2, <1>3, <1>4, <1>5, <1>6, <1>7, <1>8
        DEF Next, Arrive, Continue, Abort, VerifyResend, VerifyEmailChange, Login, LoginFlow,
            SettingsEmail, ConfirmEmailConsume, RequestDelete, SignupSession, FindLogin, StartSession, ProbeChange,
            PromoteEmail, OwnBrowser, RotateSession, RotateFails, DropRotated, DropOthers, DropFails, Respond, Logout,
            ExpireSession, storeVars

-----------------------------------------------------------------------------
(* The UNIQUE indexes. *)

LEMMA UniqueNext == TypeInv /\ IdentitiesUnique /\ [Next]_vars => IdentitiesUnique'
  <1> SUFFICES ASSUME TypeInv, IdentitiesUnique, TableStep PROVE IdentitiesUnique'
    BY TableNext DEF vars, TableStep
  <1>1. CASE UNCHANGED accounts
    BY <1>1 DEF IdentitiesUnique, Live
  <1>2. CASE \E gone : accounts' = Restrict(accounts, Live \ gone)
    BY <1>2 DEF IdentitiesUnique, Live, Restrict
  <1>3. CASE \E a \in AccountIds, e \in Emails, f \in FtIds : CreateAccount(a, e, f)
    BY <1>3 DEF IdentitiesUnique, Live, CreateAccount, NewRow
  <1>4. ASSUME NEW a \in Live, NEW row, Assigned(a, row) PROVE IdentitiesUnique'
    <2>1. Live' = Live /\ accounts'[a] = row /\ \A b \in Live : b # a => accounts'[b] = accounts[b]
      BY <1>4, WriteEffect DEF Assigned, TypeInv, TablesInv
    <2> QED BY <1>4, <2>1 DEF Assigned, EmailTaken, IdentitiesUnique
  <1> QED BY <1>1, <1>2, <1>3, <1>4 DEF TableStep

\* No two accounts share an address or a 42 identity (CreateAccount, UpdateEmail and
\* ConsumeEmailChange against the UNIQUE indexes), whatever order the statements of any
\* number of handlers run in and however long before a handler probed the address.
THEOREM UniqueIdentities == Spec => []IdentitiesUnique
  <1>1. Init => IdentitiesUnique
    BY DEF Init, StoreInit, IdentitiesUnique, Live
  <1> QED BY <1>1, InvTypeInv, UniqueNext, PTL DEF Spec

-----------------------------------------------------------------------------
(* The four kinds of link implement OneTimeLink: a step that is not a      *)
(* stutter issues at most one token, which nothing refers to yet, or       *)
(* redeems at most one, which is outstanding or was when it was matched.   *)

LEMMA MailStep ==
    ASSUME Next
    PROVE  \/ links' = links
           \/ \E t \in Tokens : \E k, a, e : FreshToken(t) /\ Mail(t, k, a, e)
  BY DEF Next, Arrive, Continue, Abort, Signup, VerifyResend, VerifyEmailChange, Login,
         LoginConsume, LoginFlow, SettingsEmail, ConfirmEmailConsume, RequestDelete,
         SignupSession, IssueVerification, CorrectEmail, FindLogin, IssueLoginLink,
         StartSession, ProbeChange, IssueEmailChange, IssueDeletion, PromoteEmail, OwnBrowser,
         RotateSession, RotateFails, DropRotated, DropOthers, DropFails, Respond, VerifyEmail, Logout,
         ConfirmDelete, Purge, ExpireSession, AgeSlot

\* What is redeemed is one token, outstanding or matched before.
LEMMA RedeemStep ==
    ASSUME TypeInv, Next
    PROVE  \/ redeemed' = redeemed
           \/ \E t \in Tokens : /\ redeemed' = redeemed \cup {t}
                                /\ \/ t \notin redeemed /\ ~FreshToken(t) /\ Outstanding(t)
                                   \/ t \in Claimed
  <1>1. ASSUME NEW l \in links, NEW k \in Kinds, Matches(l.acct, k, l.token)
        PROVE  /\ l.token \in Tokens /\ l.token \notin redeemed
               /\ ~FreshToken(l.token) /\ Outstanding(l.token)
    BY <1>1, Followed DEF FreshToken, Outstanding, Matches
  <1>2. CASE VerifyEmail \/ ConfirmDelete \/ \E r \in Reqs : LoginConsume(r)
    <2>1. \E l \in links, k \in Kinds :
             Matches(l.acct, k, l.token) /\ redeemed' = redeemed \cup {l.token}
      BY <1>2 DEF VerifyEmail, ConfirmDelete, LoginConsume, VerifyByToken, DeleteByToken,
                  ConsumeLoginToken, Kinds
    <2> QED BY <2>1, <1>1
  <1>3. CASE redeemed' = redeemed
    BY <1>3
  <1>4. ASSUME NEW r \in Reqs, PromoteEmail(r), redeemed' # redeemed
        PROVE  \E t \in Tokens : redeemed' = redeemed \cup {t} /\ t \in Claimed
    <2>1. redeemed' = redeemed \cup {reqs[r].token}
      BY <1>4 DEF PromoteEmail
    <2>2. reqs[r].token \in Tokens
      BY <1>4 DEF PromoteEmail, TypeInv, ClaimInv, Claims, TablesInv, Link
    <2> QED BY <2>1, <2>2 DEF Claimed
  <1> QED BY <1>2, <1>3, <1>4
        DEF Next, Arrive, Continue, Abort, Signup, VerifyResend, VerifyEmailChange, Login,
            LoginFlow, SettingsEmail, ConfirmEmailConsume, RequestDelete, SignupSession,
            IssueVerification, CorrectEmail, FindLogin, IssueLoginLink, StartSession,
            ProbeChange, IssueEmailChange, IssueDeletion, OwnBrowser, RotateSession,
            RotateFails, DropRotated, DropOthers, DropFails, Respond, Logout, Purge,
            ExpireSession, AgeSlot

\* A slot is armed only with a token mailed in that step.
LEMMA OutstandingStep ==
    ASSUME TypeInv, TableStep, NEW t \in Tokens, Outstanding(t)'
    PROVE  Outstanding(t) \/ \E a : Armed(a, t)
  <1>0. PICK b \in Live', k \in Kinds : accounts'[b].slot[k] = Fresh(t)
    BY DEF Outstanding, Fresh
  <1>1. CASE UNCHANGED accounts
    BY <1>0, <1>1 DEF Outstanding, Live
  <1>2. CASE \E gone : accounts' = Restrict(accounts, Live \ gone)
    BY <1>0, <1>2 DEF Outstanding, Live, Restrict
  <1>3. ASSUME NEW a \in AccountIds, NEW e \in Emails, NEW f \in FtIds, CreateAccount(a, e, f)
        PROVE  Outstanding(t)
    <2>1. NewRow(e, f).slot[k] # Fresh(t)
      BY DEF NewRow, Empty, Fresh
    <2> QED BY <1>0, <1>3, <2>1 DEF Outstanding, Live, CreateAccount
  <1>4. ASSUME NEW a \in Live, NEW row, Assigned(a, row)
        PROVE  Outstanding(t) \/ Armed(a, t)
    <2>1. Live' = Live /\ accounts'[a] = row /\ \A c \in Live : c # a => accounts'[c] = accounts[c]
      BY <1>4, WriteEffect DEF Assigned, TypeInv, TablesInv
    <2> QED BY <1>0, <1>4, <2>1 DEF Assigned, Outstanding
  <1> QED BY <1>1, <1>2, <1>3, <1>4 DEF TableStep

\* Life, said without the CASE.
LEMMA LifeIs ==
    /\ Life \in [Tokens -> Links!Lives]
    /\ \A t \in Tokens :
          /\ Life[t] = "redeemed" <=> t \in redeemed
          /\ Life[t] = "unissued" <=> t \notin redeemed /\ FreshToken(t)
          /\ Life[t] = "live" <=> t \notin redeemed /\ ~FreshToken(t) /\ Outstanding(t)
  BY DEF Life, Links!Lives

LEMMA LinkStep == ASSUME TypeInv, Next PROVE Links!Next
  <1>1. links \subseteq links' /\ redeemed \subseteq redeemed'
    BY HistoryGrows
  <1>2. Life' \in [Tokens -> Links!Lives]
    BY DEF Life, Links!Lives
  <1>3. \A t \in Tokens :
          /\ Life'[t] = "redeemed" <=> t \in redeemed'
          /\ Life'[t] = "unissued" <=> t \notin redeemed' /\ FreshToken(t)'
          /\ Life'[t] = "live" <=> t \notin redeemed' /\ ~FreshToken(t)' /\ Outstanding(t)'
    BY DEF Life
  <1>4. \A t \in Tokens : FreshToken(t)' => FreshToken(t)
    BY <1>1 DEF FreshToken
  \* An outstanding token was mailed and is not redeemed.
  <1>5. \A t \in Tokens : Outstanding(t) => ~FreshToken(t) /\ t \notin redeemed
    <2> SUFFICES ASSUME NEW t \in Tokens, NEW a \in Live, NEW k \in Kinds,
                        accounts[a].slot[k] = Fresh(t)
                 PROVE  ~FreshToken(t) /\ t \notin redeemed
      BY DEF Outstanding
    <2>1. accounts[a].slot[k].token = t /\ t # NoToken
      BY SentinelAssumption DEF Fresh
    <2> QED BY <2>1 DEF TypeInv, TablesInv, LiveTokenIsMailed, FreshToken
  <1>6. TableStep
    BY TableNext
  <1>7. ASSUME NEW t \in Tokens, Life[t] # "live", Life'[t] = "live"
        PROVE  /\ Life[t] = "unissued"
               /\ \E l \in links' \ links : l.token = t
    <2>1. t \notin redeemed /\ Outstanding(t)' /\ ~Outstanding(t) /\ ~FreshToken(t)'
      BY <1>1, <1>3, <1>5, <1>7, LifeIs
    <2>2. PICK a : Armed(a, t)
      BY <2>1, <1>6, OutstandingStep
    <2> QED BY <2>1, <2>2, LifeIs DEF Armed, FreshToken
  <1>8. \A l, m \in links' \ links : l.token = m.token
    BY MailStep DEF Mail
  <1>9. ASSUME NEW t \in Tokens, Life[t] # "redeemed", Life'[t] = "redeemed"
        PROVE  (Life[t] = "live" \/ t \in Claimed) /\ t \in redeemed' \ redeemed
    BY <1>3, <1>9, LifeIs, RedeemStep
  <1>10. \A t, u \in redeemed' \ redeemed : t = u
    BY RedeemStep
  <1>11. Links!Become("unissued") = {}
    BY <1>1, <1>3, <1>4, LifeIs DEF Links!Become
  <1>12. Links!AtMostOne(Links!Become("live")) /\ \A t \in Links!Become("live") : Life[t] = "unissued"
    BY <1>7, <1>8 DEF Links!Become, Links!AtMostOne
  <1>13. Links!AtMostOne(Links!Become("redeemed")) /\ \A t \in Links!Become("redeemed") : Life[t] = "live" \/ t \in Claimed
    BY <1>9, <1>10 DEF Links!Become, Links!AtMostOne
  <1>14. \A t \in Links!Become("dead") : Life[t] \in {"unissued", "live"}
    BY <1>1, <1>3, LifeIs DEF Links!Become, Links!Lives
  <1>15. Claimed' \subseteq Tokens
    <2>1. reqs' \in [Reqs -> Request]
      BY TypeNext DEF TypeInv, ReqsInv
    <2> QED BY <2>1 DEF Claimed, Request
  <1>16. ASSUME NEW t \in Claimed' \ Claimed PROVE Life[t] = "live"
    <2>1. PICK q \in Reqs : reqs'[q].token = t /\ t # NoToken
      BY DEF Claimed
    <2>2. reqs[q].token # t
      BY <2>1 DEF Claimed
    <2>3. PICK l \in links : Matches(l.acct, "change", l.token) /\ l.token = t
      BY <2>1, <2>2, ClaimStep DEF TypeInv
    <2>4. Outstanding(t)
      BY <2>3 DEF Matches, Outstanding, Kinds
    <2> QED BY <1>5, <1>15, <2>4, LifeIs
  <1> QED BY <1>2, <1>11, <1>12, <1>13, <1>14, <1>15, <1>16 DEF Links!Next

\* The handlers implement OneTimeLink: whatever resends, corrections, redemptions,
\* deletions and purges interleave, a mailed token is live at most once, its redemption
\* begins only while it is outstanding (ConsumeEmailChange's match, from which its
\* write is a step of its own), and once redeemed or dead it never comes back.
THEOREM LinksAreOneTime == Spec => ImplementsOneTimeLink
  <1>1. Init => Links!Init
    BY DEF Init, StoreInit, Links!Init, Life, FreshToken, Claimed, Idle
  <1>2. TypeInv /\ [Next]_vars => [Links!Next]_<<Life, Claimed>>
    <2> SUFFICES ASSUME TypeInv, UNCHANGED vars PROVE Life' = Life /\ Claimed' = Claimed
      BY LinkStep
    <2> QED BY DEF vars, Life, FreshToken, Outstanding, Live, Claimed
  <1> QED BY <1>1, <1>2, InvTypeInv, PTL DEF Spec, ImplementsOneTimeLink, Links!Spec

=============================================================================
