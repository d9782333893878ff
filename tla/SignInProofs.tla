---------------------------- MODULE SignInProofs -----------------------------
(***************************************************************************)
(* Sign-in with 42 and the alerts about it, for any number of requests.    *)
(*                                                                         *)
(* requestToken types, earns its latch, never retries a spent code, and    *)
(* reports a rejection only when no configured secret is accepted.  The    *)
(* invariant adds to the properties what a request knows while it is under *)
(* way: one that tries the next secret does so because 42 rejected the     *)
(* current one in this process, and 42's rotation does not go back.        *)
(*                                                                         *)
(* sendMaintainerAlert calls for a key a window after the last mail that   *)
(* succeeded, and nothing but such a mail mutes it.  The limiter's lock is *)
(* released for the mail call, and what keeps the two apart is that the    *)
(* mark of a call outlives the call.                                       *)
(*                                                                         *)
(* The composition SignIn implements both parts.                           *)
(***************************************************************************)
EXTENDS SignIn, FiniteSetTheorems, TLAPS

CurrentRejected == <<"current", "rejected">> \in seen
NextAccepted == <<"next", "accepted">> \in seen

\* 42 does not accept the current secret any more.
CurrentGone == phase \in {"last", "none"}

Knows(r) ==
    /\ pc[r] \in {"retry", "latch", "next"} => CurrentRejected /\ staged
    /\ pc[r] = "latch" => NextAccepted
    /\ pc[r] \in {"idle"} \cup Trying => r \notin spent

IInv ==
    /\ TypeOK
    /\ CurrentRejected => CurrentGone
    /\ latch => CurrentRejected /\ NextAccepted
    /\ \A r \in Requests : Knows(r)

(* The program starts in the invariant: no request has been made. *)
LEMMA InitInv == Init => IInv
BY DEF Init, IInv, TypeOK, Knows, CurrentRejected, NextAccepted, CurrentGone,
       Secrets, Trying, Ends

(* Every step of a request, of 42's rotation and of a restart keeps it. *)
LEMMA StepInv == IInv /\ [Next]_vars => IInv'
<1> SUFFICES ASSUME IInv, [Next]_vars PROVE IInv'
    OBVIOUS
<1> USE DEF IInv, TypeOK, Knows, CurrentRejected, NextAccepted, CurrentGone,
            Secrets, Trying, Ends, Goto
<1>1. ASSUME NEW r \in Requests, Begin(r) PROVE IInv'
    BY <1>1 DEF Begin
<1>2. ASSUME NEW r \in Requests, Accepted(r) PROVE IInv'
    BY <1>2 DEF Accepted, SecretOf
<1>3. ASSUME NEW r \in Requests, Latch(r) PROVE IInv'
    BY <1>3 DEF Latch
<1>4. ASSUME NEW r \in Requests, Rejected(r) PROVE IInv'
    BY <1>4 DEF Rejected, SecretOf, Valid
<1>5. ASSUME NEW r \in Requests, Failed(r) PROVE IInv'
    BY <1>5 DEF Failed
<1>6. CASE Rotate
    BY <1>6 DEF Rotate
<1>7. CASE Restart
    BY <1>7 DEF Restart
<1>8. ASSUME NEW r \in Requests, Again(r) PROVE IInv'
    BY <1>8 DEF Again
<1>9. CASE UNCHANGED vars
    BY <1>9 DEF vars
<1> QED
    BY <1>1, <1>2, <1>3, <1>4, <1>5, <1>6, <1>7, <1>8, <1>9 DEF Next

(* What each request knows while requestToken runs for it (IInv) always
   holds. *)
THEOREM Invariant == Spec => []IInv
BY InitInv, StepInv, PTL DEF Spec

(* The state of the exchange stays within its types. *)
THEOREM TypeCorrect == Spec => []TypeOK
BY Invariant, PTL DEF IInv

(* The latch is set only in a process that saw the current secret rejected
   and the next one accepted (auth.go:174-176). *)
THEOREM LatchIsEarned == Spec => []LatchEarned
<1>1. IInv => LatchEarned
    BY DEF IInv, LatchEarned, CurrentRejected, NextAccepted
<1> QED
    BY <1>1, Invariant, PTL

(* A retry never presents a code that 42 has spent. *)
THEOREM RetriesHaveCode == Spec => []RetryHasCode
<1>1. IInv => RetryHasCode
    BY DEF IInv, RetryHasCode, Knows, Trying
<1> QED
    BY <1>1, Invariant, PTL

(* A request ends rejected only when 42 accepts none of the configured
   secrets, so the alert that sign-in is broken is true. *)
THEOREM RejectionsAreTrue == Spec => NoNeedlessRejection
<1> DEFINE Reject(r) == pc[r] # "rejected" /\ pc'[r] = "rejected"
<1>1. IInv /\ [Next]_vars =>
          [\A r \in Requests : Reject(r) => Configured \cap Valid = {}]_vars
    <2> SUFFICES ASSUME IInv, Next, NEW r \in Requests, Reject(r)
                 PROVE Configured \cap Valid = {}
        OBVIOUS
    <2>1. Rejected(r)
        <3>1. pc \in [Requests -> {"idle", "latch"} \cup Trying \cup Ends]
            BY DEF IInv, TypeOK
        <3>2. ~Rotate
            BY DEF Rotate
        <3>3. ~Restart
            BY <3>1 DEF Restart
        <3>4. ASSUME NEW q \in Requests, ~Rejected(q)
              PROVE ~(Begin(q) \/ Accepted(q) \/ Latch(q) \/ Failed(q) \/ Again(q))
            BY <3>1, <3>4 DEF Begin, Accepted, Latch, Failed, Again, Goto
        <3>5. PICK q \in Requests : Rejected(q)
            BY <3>2, <3>3, <3>4 DEF Next
        <3>6. q = r
            BY <3>1, <3>5 DEF Rejected, Goto
        <3> QED
            BY <3>5, <3>6
    <2>2. (pc[r] = "current" /\ ~staged) \/ pc[r] \in {"retry", "next"}
        BY <2>1 DEF Rejected, Goto, IInv, TypeOK, Trying
    <2>3. CASE pc[r] = "current" /\ ~staged
        BY <2>1, <2>3 DEF Rejected, SecretOf, Configured
    <2>4. CASE pc[r] \in {"retry", "next"}
        <3>1. phase \in {"last", "none"}
            BY <2>4 DEF IInv, Knows, CurrentGone, CurrentRejected
        <3>2. "next" \notin Valid
            BY <2>1, <2>4 DEF Rejected, SecretOf
        <3> QED
            BY <3>1, <3>2 DEF Valid
    <2> QED
        BY <2>2, <2>3, <2>4
<1> QED
    BY <1>1, Invariant, PTL DEF Spec, NoNeedlessRejection

-----------------------------------------------------------------------------
(* The composition.  Every step of it is one of the exchange and one of the *)
(* alerts, either of them possibly a stutter.                               *)

LEMMA SysStep == [SysNext]_sys => [Next]_vars /\ [Alerts!Next]_Alerts!vars
<1> SUFFICES ASSUME [SysNext]_sys PROVE [Next]_vars /\ [Alerts!Next]_Alerts!vars
    OBVIOUS
<1>1. ASSUME NEW r \in Requests, Refuse(r) \/ Answer(r) PROVE Next /\ UNCHANGED alertVars
    BY <1>1 DEF Refuse, Answer, Next
<1>2. ASSUME NEW r \in Requests, Report(r) PROVE Alerts!Next /\ UNCHANGED vars
    BY <1>2 DEF Report, Alerts!Next
<1>3. CASE Check \/ Prune \/ Tick
    BY <1>3 DEF Check, Prune, Tick, Alerts!Next
<1>4. ASSUME NEW s \in Alerts!Senders, MailOut(s) \/ MailFailed(s)
      PROVE  Alerts!Next /\ UNCHANGED vars
    BY <1>4 DEF MailOut, MailFailed, Alerts!Next
<1>5. CASE RotateAt42
    BY <1>5 DEF RotateAt42, Next, alertVars, Alerts!vars
<1>6. CASE Redeploy
    BY <1>6 DEF Redeploy, Next, Alerts!Next
<1>7. CASE UNCHANGED sys
    BY <1>7 DEF sys, alertVars, Alerts!vars
<1> QED
    BY <1>1, <1>2, <1>3, <1>4, <1>5, <1>6, <1>7 DEF SysNext, alertVars, Alerts!vars

(* One process of the server runs requestToken for its sign-ins and
   sendMaintainerAlert for its alerts, each as specified on its own: what is
   proved of a part holds where the two run together. *)
THEOREM CompositionImplementsParts == SysSpec => Spec /\ Alerts!Spec
<1>1. SysInit => Init /\ Alerts!Init
    BY DEF SysInit
<1> QED
    BY <1>1, SysStep, PTL DEF SysSpec, Spec, Alerts!Spec

-----------------------------------------------------------------------------
(* The alerts.  A call in flight has a mark of its own age, which no other *)
(* call of its key can overlook: it is the only one, and the mails of      *)
(* before it are a window older.                                           *)

Lists == {list \in SUBSET Alerts!Attempt : IsFiniteSet(list)}

Marks(k) == Alerts!Recent(Alerts!Listed(marks, k))

AlertTypeOK ==
    /\ cfg \in Alerts!Config
    /\ marks \in [DOMAIN marks -> Lists]
    /\ sending \in [DOMAIN sending -> [key : Alerts!AlertKeys, age : {0, 1}]]
    /\ mails \in [Alerts!AlertKeys -> Lists]

OneCall ==
    \A s, t \in DOMAIN sending : sending[s].key = sending[t].key => s = t

CallIsMarked ==
    \A s \in DOMAIN sending : \E a \in Marks(sending[s].key) : a.age = sending[s].age

MailIsMarked ==
    \A k \in Alerts!AlertKeys : \A m \in mails[k] :
        m.age < Window => \E a \in Marks(k) : a.age = m.age

CallIsLater ==
    \A s \in DOMAIN sending : \A m \in mails[sending[s].key] :
        m.age >= sending[s].age + Window

MarkHasCause ==
    cfg.inbox =>
        \A k \in Alerts!AlertKeys : \A a \in Marks(k) :
            \/ \E m \in mails[k] : m.age = a.age
            \/ \E s \in DOMAIN sending : sending[s].key = k /\ sending[s].age = a.age

\* The mails whose calls succeeded.
MailsApart ==
    \A k \in Alerts!AlertKeys : \A m, n \in mails[k] :
        m # n => m.age >= n.age + Window \/ n.age >= m.age + Window

AlertInv ==
    /\ AlertTypeOK
    /\ OneCall /\ CallIsMarked /\ MailIsMarked /\ CallIsLater /\ MarkHasCause
    /\ MailsApart

LEMMA SameCardinality == \A S : Alerts!Cardinality(S) = Cardinality(S)
    BY DEF Alerts!Cardinality, Cardinality, Alerts!IsFiniteSet, IsFiniteSet

(* With one alert per window, an alert is allowed when no mark is recent. *)
LEMMA AllowedMeans ==
    ASSUME AlertTypeOK, NEW k
    PROVE  Alerts!Allowed(marks, k) <=> Marks(k) = {}
<1>1. IsFiniteSet(Marks(k))
    <2>1. IsFiniteSet(Alerts!Listed(marks, k))
        BY FS_EmptySet DEF AlertTypeOK, Alerts!Listed, Lists
    <2> QED
        BY <2>1, FS_Subset DEF Marks, Alerts!Recent
<1>2. Cardinality(Marks(k)) \in Nat /\ (Cardinality(Marks(k)) = 0 <=> Marks(k) = {})
    BY <1>1, FS_CardinalityType, FS_EmptySet
<1> QED
    BY <1>2, AlertAssumption, SameCardinality DEF Alerts!Allowed, Alerts!CountRecent, Marks

(* Adding to a list. *)
LEMMA NotedList ==
    ASSUME NEW S \in Lists, NEW age \in 0 .. Window
    PROVE  /\ Alerts!Noted(S, age) \in Lists
           /\ \E a : a.age = age /\ Alerts!Noted(S, age) = S \cup {a}
<1> DEFINE n == Cardinality({a \in S : a.age = age}) + 1
           a == [age |-> age, nth |-> n]
<1>1. n \in Nat
    BY FS_Subset, FS_CardinalityType DEF Lists
<1>2. a \in Alerts!Attempt /\ a.age = age
    BY <1>1 DEF Alerts!Attempt
<1>3. Alerts!Noted(S, age) = S \cup {a}
    BY SameCardinality DEF Alerts!Noted
<1> HIDE DEF a, n
<1> QED
    BY <1>2, <1>3, FS_AddElement DEF Lists

(* A tick makes every recent mark or mail a tick older. *)
LEMMA OlderList ==
    ASSUME NEW S \in Lists
    PROVE  /\ Alerts!Older(S) \in Lists
           /\ Alerts!Older(Alerts!Recent(S)) \in Lists
           /\ \A b \in Alerts!Older(Alerts!Recent(S)) :
                 \E a \in S : a.age < Window /\ b = [a EXCEPT !.age = a.age + 1]
           /\ \A a \in S : a.age < Window =>
                 [a EXCEPT !.age = a.age + 1] \in Alerts!Older(Alerts!Recent(S))
           /\ \A b \in Alerts!Recent(Alerts!Older(S)) :
                 \E a \in S : a.age < Window /\ b.age = a.age + 1
           /\ \A a \in S : a.age + 1 < Window =>
                 \E b \in Alerts!Recent(Alerts!Older(S)) : b.age = a.age + 1
<1> DEFINE Ticked(a) == [a EXCEPT !.age = IF a.age < Window THEN a.age + 1 ELSE Window]
<1>1. \A a \in Alerts!Attempt :
         /\ Ticked(a) \in Alerts!Attempt
         /\ a.age \in Nat /\ a.age <= Window
         /\ a.age < Window => Ticked(a).age = a.age + 1
                              /\ Ticked(a) = [a EXCEPT !.age = a.age + 1]
         /\ ~(a.age < Window) => Ticked(a).age = Window
    BY AlertAssumption DEF Alerts!Attempt
<1>2. \A T : Alerts!Older(T) = {Ticked(a) : a \in T}
    BY DEF Alerts!Older
<1> HIDE DEF Ticked
<1>3. \A T \in SUBSET S : Alerts!Older(T) \in Lists
    <2> SUFFICES ASSUME NEW T \in SUBSET S PROVE Alerts!Older(T) \in Lists
        OBVIOUS
    <2> DEFINE f == [a \in T |-> Ticked(a)]
    <2>1. f \in [T -> Alerts!Older(T)] /\ \A b \in Alerts!Older(T) : \E a \in T : f[a] = b
        BY <1>2
    <2>2. f \in Surjection(T, Alerts!Older(T))
        BY <2>1 DEF Surjection
    <2>3. IsFiniteSet(T)
        BY FS_Subset DEF Lists
    <2>4. Alerts!Older(T) \subseteq Alerts!Attempt
        BY <1>1, <1>2 DEF Lists
    <2> QED
        BY <2>2, <2>3, <2>4, FS_Surjection DEF Lists
<1>4. S \subseteq Alerts!Attempt /\ Alerts!Recent(S) \subseteq S
    BY DEF Lists, Alerts!Recent
<1>5. \A b \in Alerts!Older(Alerts!Recent(S)) :
         \E a \in S : a.age < Window /\ b = [a EXCEPT !.age = a.age + 1]
    BY <1>1, <1>2, <1>4 DEF Alerts!Recent
<1>6. \A a \in S : a.age < Window => [a EXCEPT !.age = a.age + 1] \in Alerts!Older(Alerts!Recent(S))
    BY <1>1, <1>2, <1>4 DEF Alerts!Recent
<1>7. \A b \in Alerts!Recent(Alerts!Older(S)) :
         \E a \in S : a.age < Window /\ b.age = a.age + 1
    BY <1>1, <1>2, <1>4, AlertAssumption DEF Alerts!Recent
<1>8. \A a \in S : a.age + 1 < Window =>
         \E b \in Alerts!Recent(Alerts!Older(S)) : b.age = a.age + 1
    BY <1>1, <1>2, <1>4, AlertAssumption DEF Alerts!Recent
<1> QED
    BY <1>3, <1>4, <1>5, <1>6, <1>7, <1>8

(* The lists of a map. *)
IsMap(A) == A \in [DOMAIN A -> Lists]

LEMMA EmptyList == {} \in Lists /\ Alerts!Recent({}) = {}
    BY FS_EmptySet DEF Lists, Alerts!Recent

LEMMA RecentList ==
    ASSUME NEW S \in Lists
    PROVE  Alerts!Recent(S) \in Lists /\ Alerts!Recent(Alerts!Recent(S)) = Alerts!Recent(S)
    BY FS_Subset DEF Lists, Alerts!Recent

LEMMA ListedList ==
    ASSUME NEW A, IsMap(A), NEW k PROVE Alerts!Listed(A, k) \in Lists
    BY EmptyList DEF IsMap, Alerts!Listed

LEMMA WithList ==
    ASSUME NEW A, IsMap(A), NEW k, NEW S \in Lists
    PROVE  /\ IsMap(Alerts!With(A, k, S))
           /\ \A j : Alerts!Listed(Alerts!With(A, k, S), j) =
                        IF j = k THEN S ELSE Alerts!Listed(A, j)
    BY DEF IsMap, Alerts!With, Alerts!Listed

(* take marks its key, or leaves all marks as they are. *)
LEMMA TakenMarks ==
    ASSUME AlertTypeOK, NEW key, marks' = Alerts!Taken(marks, key)
    PROVE  /\ IsMap(marks')
           /\ \A k : k # key => Marks(k)' = Marks(k)
           /\ Marks(key) # {} => Marks(key)' = Marks(key)
           /\ Marks(key) = {} => \E a : a.age = 0 /\ Marks(key)' = {a}
<1> DEFINE C == Alerts!Counted(marks, key)
<1>0. IsMap(marks)
    BY DEF AlertTypeOK, IsMap
<1>1. Marks(key) \in Lists
    BY <1>0, ListedList, RecentList DEF Marks
<1>2. IsMap(C) /\ \A j : Alerts!Listed(C, j) = IF j = key THEN Marks(key) ELSE Alerts!Listed(marks, j)
    BY <1>0, <1>1, WithList DEF Alerts!Counted, Marks
<1>3. marks' = IF Marks(key) = {} THEN Alerts!Charged(C, key) ELSE C
    BY AllowedMeans DEF Alerts!Taken
<1>4. \A k : Marks(k)' = Alerts!Recent(Alerts!Listed(marks', k))
    BY DEF Marks
<1> HIDE DEF C
<1>5. CASE Marks(key) # {}
    <2>1. Alerts!Recent(Marks(key)) = Marks(key)
        BY DEF Marks, Alerts!Recent
    <2> QED
        BY <1>2, <1>3, <1>4, <1>5, <2>1 DEF Marks
<1>6. CASE Marks(key) = {}
    <2>0. 0 \in 0 .. Window
        BY AlertAssumption
    <2>1. PICK a : a.age = 0 /\ Alerts!Noted({}, 0) = {a} /\ Alerts!Noted({}, 0) \in Lists
        BY <2>0, NotedList, EmptyList
    <2>2. /\ IsMap(marks')
          /\ \A j : Alerts!Listed(marks', j) = IF j = key THEN {a} ELSE Alerts!Listed(marks, j)
        BY <1>2, <1>3, <1>6, <2>1, WithList DEF Alerts!Charged
    <2>3. Alerts!Recent({a}) = {a}
        BY <2>1, AlertAssumption DEF Alerts!Recent
    <2> QED
        BY <1>4, <1>6, <2>1, <2>2, <2>3 DEF Marks
<1> QED
    BY <1>5, <1>6

LEMMA AlertStart ==
    ASSUME AlertInv, NEW s, NEW key \in Alerts!AlertKeys, Alerts!StartAlert(s, key)
    PROVE  AlertInv'
<1> DEFINE started == Marks(key) = {} /\ cfg.inbox
<1>1. /\ IsMap(marks')
      /\ \A k : k # key => Marks(k)' = Marks(k)
      /\ Marks(key) # {} => Marks(key)' = Marks(key)
      /\ Marks(key) = {} => \E a : a.age = 0 /\ Marks(key)' = {a}
    BY TakenMarks DEF Alerts!StartAlert, AlertInv
<1>2. /\ s \notin DOMAIN sending /\ UNCHANGED <<cfg, left, mails>>
      /\ sending' = IF started
                    THEN [t \in DOMAIN sending \cup {s} |->
                             IF t = s THEN Alerts!Alert(key) ELSE sending[t]]
                    ELSE sending
    BY AllowedMeans DEF Alerts!StartAlert, Alerts!Idle, AlertInv
<1>3. Alerts!Alert(key).key = key /\ Alerts!Alert(key).age = 0
      /\ Alerts!Alert(key) \in [key : Alerts!AlertKeys, age : {0, 1}]
    BY DEF Alerts!Alert
\* An allowed alert meets no call of its key and no recent mail.
<1>4. Marks(key) = {} => /\ \A t \in DOMAIN sending : sending[t].key # key
                         /\ \A m \in mails[key] : m.age >= Window
    <2>1. \A m \in mails[key] : m.age \in Nat
        BY DEF AlertInv, AlertTypeOK, Lists, Alerts!Attempt
    <2> QED
        BY <2>1, AlertAssumption DEF AlertInv, CallIsMarked, MailIsMarked
<1>5. AlertTypeOK'
    BY <1>1, <1>2, <1>3 DEF AlertInv, AlertTypeOK, IsMap
<1>6. OneCall' /\ CallIsLater'
    <2>1. OneCall'
        BY <1>2, <1>3, <1>4 DEF AlertInv, OneCall
    <2>2. CallIsLater'
        BY <1>2, <1>3, <1>4, AlertAssumption DEF AlertInv, CallIsLater
    <2> QED
        BY <2>1, <2>2
<1>7. CallIsMarked'
    BY <1>1, <1>2, <1>3, <1>4 DEF AlertInv, CallIsMarked
<1>8. MailIsMarked'
    <2>1. \A m \in mails[key] : m.age \in Nat
        BY DEF AlertInv, AlertTypeOK, Lists, Alerts!Attempt
    <2> QED
        BY <1>1, <1>2, <1>4, <2>1, AlertAssumption DEF AlertInv, MailIsMarked
<1>9. MarkHasCause'
    BY <1>1, <1>2, <1>3 DEF AlertInv, MarkHasCause
<1>10. MailsApart'
    BY <1>2 DEF AlertInv, MailsApart
<1> QED
    BY <1>5, <1>6, <1>7, <1>8, <1>9, <1>10 DEF AlertInv

(* The call ends and the mail went out. *)
LEMMA AlertMailOut ==
    ASSUME AlertInv, NEW s, Alerts!MailOut(s) PROVE AlertInv'
<1> DEFINE k == sending[s].key
           g == sending[s].age
<1>1. /\ s \in DOMAIN sending /\ k \in Alerts!AlertKeys /\ g \in {0, 1}
      /\ sending' = [t \in DOMAIN sending \ {s} |-> sending[t]]
      /\ mails' = [mails EXCEPT ![k] = Alerts!Noted(mails[k], g)]
      /\ UNCHANGED <<cfg, left, marks>>
    BY DEF Alerts!MailOut, Alerts!Idle, Alerts!Done, Restrict, Alerts!Restrict, AlertInv, AlertTypeOK
<1>2. mails \in [Alerts!AlertKeys -> Lists] /\ g \in 0 .. Window /\ g < Window
    BY <1>1, AlertAssumption DEF AlertInv, AlertTypeOK
<1>3. PICK a : /\ a.age = g /\ Alerts!Noted(mails[k], g) = mails[k] \cup {a}
               /\ mails[k] \cup {a} \in Lists
    <2>1. mails[k] \in Lists
        BY <1>1, <1>2
    <2> HIDE DEF k, g
    <2> QED
        BY <1>2, <2>1, NotedList
<1>4. mails' \in [Alerts!AlertKeys -> Lists] /\ mails'[k] = mails[k] \cup {a}
      /\ \A j \in Alerts!AlertKeys : j # k => mails'[j] = mails[j]
    BY <1>1, <1>2, <1>3
<1>5. \A t \in DOMAIN sending \ {s} : sending[t].key # k
    BY <1>1 DEF AlertInv, OneCall
<1>6. \A m \in mails[k] : m.age >= g + Window
    BY <1>1 DEF AlertInv, CallIsLater
<1>7. \E b \in Marks(k) : b.age = g
    BY <1>1 DEF AlertInv, CallIsMarked
<1>8. \A j : Marks(j)' = Marks(j)
    BY <1>1 DEF Marks
<1> HIDE DEF k, g
<1>9. AlertTypeOK'
    BY <1>1, <1>4 DEF AlertInv, AlertTypeOK
<1>10. OneCall' /\ CallIsMarked'
    BY <1>1, <1>8 DEF AlertInv, OneCall, CallIsMarked
<1>11. CallIsLater'
    BY <1>1, <1>4, <1>5 DEF AlertInv, CallIsLater, AlertTypeOK
<1>12. MailIsMarked'
    BY <1>3, <1>4, <1>7, <1>8 DEF AlertInv, MailIsMarked
<1>13. MarkHasCause'
    <2>1. ASSUME cfg.inbox, NEW j \in Alerts!AlertKeys, NEW b \in Marks(j)
          PROVE  \/ \E m \in mails'[j] : m.age = b.age
                 \/ \E t \in DOMAIN sending' : sending'[t].key = j /\ sending'[t].age = b.age
        <3>1. CASE \E m \in mails[j] : m.age = b.age
            BY <3>1, <1>4
        <3>2. CASE \E t \in DOMAIN sending : sending[t].key = j /\ sending[t].age = b.age
            <4>1. PICK t \in DOMAIN sending : sending[t].key = j /\ sending[t].age = b.age
                BY <3>2
            <4>2. CASE t = s
                BY <4>1, <4>2, <1>3, <1>4 DEF k, g
            <4>3. CASE t # s
                BY <4>1, <4>3, <1>1
            <4> QED
                BY <4>2, <4>3
        <3> QED
            BY <2>1, <3>1, <3>2 DEF AlertInv, MarkHasCause
    <2> QED
        BY <2>1, <1>1, <1>8 DEF MarkHasCause
<1>14. MailsApart'
    BY <1>3, <1>4, <1>6 DEF AlertInv, MailsApart
<1> QED
    BY <1>9, <1>10, <1>11, <1>12, <1>13, <1>14 DEF AlertInv

(* The call ends and the mail failed: the mark that goes was its own. *)
LEMMA AlertMailFailed ==
    ASSUME AlertInv, NEW s, Alerts!MailFailed(s) PROVE AlertInv'
<1> DEFINE k == sending[s].key
<1>1. /\ s \in DOMAIN sending /\ k \in Alerts!AlertKeys /\ sending[s].age \in {0, 1}
      /\ sending' = [t \in DOMAIN sending \ {s} |-> sending[t]]
      /\ marks' = [j \in DOMAIN marks \ {k} |-> marks[j]]
      /\ UNCHANGED <<cfg, left, mails>>
    BY DEF Alerts!MailFailed, Alerts!Idle, Alerts!Done, Alerts!Cleared, Restrict, Alerts!Restrict,
           AlertInv, AlertTypeOK
<1>2. \A j : Marks(j)' = IF j = k THEN {} ELSE Marks(j)
    BY <1>1, EmptyList DEF Marks, Alerts!Listed
<1>3. \A t \in DOMAIN sending \ {s} : sending[t].key # k
    BY <1>1 DEF AlertInv, OneCall
<1>4. \A m \in mails[k] : ~(m.age < Window)
    <2>1. \A m \in mails[k] : m.age >= sending[s].age + Window /\ m.age \in Nat
        BY <1>1 DEF AlertInv, CallIsLater, AlertTypeOK, Lists, Alerts!Attempt
    <2> QED
        BY <1>1, <2>1, AlertAssumption
<1> HIDE DEF k
<1>5. AlertTypeOK' /\ OneCall' /\ CallIsLater' /\ MailsApart'
    <2>1. AlertTypeOK'
        BY <1>1 DEF AlertInv, AlertTypeOK
    <2>2. OneCall' /\ CallIsLater'
        BY <1>1 DEF AlertInv, OneCall, CallIsLater
    <2>3. MailsApart'
        BY <1>1 DEF AlertInv, MailsApart
    <2> QED
        BY <2>1, <2>2, <2>3
<1>6. CallIsMarked'
    BY <1>1, <1>2, <1>3 DEF AlertInv, CallIsMarked
<1>7. MailIsMarked'
    BY <1>1, <1>2, <1>4 DEF AlertInv, MailIsMarked
<1>8. MarkHasCause'
    <2>1. k = sending[s].key
        BY DEF k
    <2> QED
        BY <1>1, <1>2, <2>1 DEF AlertInv, MarkHasCause
<1> QED
    BY <1>5, <1>6, <1>7, <1>8 DEF AlertInv

LEMMA AlertPrune == ASSUME AlertInv, Alerts!Prune PROVE AlertInv'
<1>1. UNCHANGED <<cfg, left, sending, mails>> /\ marks' = Alerts!Pruned(marks)
    BY DEF Alerts!Prune
<1>2. \A j \in DOMAIN marks : marks[j] \in Lists
    BY DEF AlertInv, AlertTypeOK
<1>3. IsMap(marks')
    BY <1>1, <1>2, RecentList DEF IsMap, Alerts!Pruned
<1>4. ASSUME NEW j PROVE Marks(j)' = Marks(j)
    <2>1. Marks(j)' = Alerts!Recent(Alerts!Listed(marks', j))
        BY DEF Marks
    <2> QED
        BY <1>1, <1>2, <2>1, RecentList, EmptyList DEF Marks, Alerts!Pruned, Alerts!Listed
<1> QED
    BY <1>1, <1>3, <1>4
       DEF AlertInv, AlertTypeOK, IsMap, OneCall, CallIsMarked, MailIsMarked, CallIsLater,
           MarkHasCause, MailsApart

(* A tick makes marks, calls and mails older alike; a call has at most one. *)
LEMMA AlertTick == ASSUME AlertInv, Alerts!Tick PROVE AlertInv'
<1>1. /\ \A s \in DOMAIN sending : sending[s].age = 0
      /\ marks' = Alerts!Aged(marks)
      /\ sending' = [s \in DOMAIN sending |-> [sending[s] EXCEPT !.age = 1]]
      /\ mails' = [k \in Alerts!AlertKeys |-> Alerts!Older(Alerts!Recent(mails[k]))]
      /\ UNCHANGED cfg
    BY DEF Alerts!Tick
<1>2. \A s \in DOMAIN sending : sending'[s].key = sending[s].key /\ sending'[s].age = 1
                                /\ sending'[s] \in [key : Alerts!AlertKeys, age : {0, 1}]
    BY <1>1 DEF AlertInv, AlertTypeOK
<1>3. \A k \in Alerts!AlertKeys : mails[k] \in Lists
    BY DEF AlertInv, AlertTypeOK
<1>4. \A S \in Lists : \A m \in S : m.age \in Nat /\ m.age <= Window /\ m \in Alerts!Attempt
    BY AlertAssumption DEF Lists, Alerts!Attempt
<1>5. \A k : Alerts!Listed(marks, k) \in Lists /\ Marks(k) = Alerts!Recent(Alerts!Listed(marks, k))
    BY ListedList DEF AlertInv, AlertTypeOK, IsMap, Marks
<1>6. \A k : Marks(k)' = Alerts!Recent(Alerts!Older(Alerts!Listed(marks, k)))
    <2> SUFFICES ASSUME NEW k
                 PROVE Alerts!Recent(Alerts!Listed(marks', k)) = Alerts!Recent(Alerts!Older(Alerts!Listed(marks, k)))
        BY DEF Marks
    <2>1. Alerts!Older({}) = {}
        BY DEF Alerts!Older
    <2> QED
        BY <1>1, <2>1 DEF Alerts!Listed, Alerts!Aged
\* What becomes of mails and marks, element by element.
<1>7. \A k \in Alerts!AlertKeys : \A n \in mails'[k] :
         \E m \in mails[k] : m.age < Window /\ n = [m EXCEPT !.age = m.age + 1] /\ n.age = m.age + 1
    BY <1>1, <1>3, <1>4, OlderList DEF Alerts!Attempt
<1>8. \A k \in Alerts!AlertKeys : \A m \in mails[k] : m.age < Window =>
         \E n \in mails'[k] : n.age = m.age + 1
    <2> SUFFICES ASSUME NEW k \in Alerts!AlertKeys, NEW m \in mails[k], m.age < Window
                 PROVE  \E n \in mails'[k] : n.age = m.age + 1
        OBVIOUS
    <2>1. [m EXCEPT !.age = m.age + 1] \in mails'[k]
        BY <1>1, <1>3, OlderList
    <2>2. [m EXCEPT !.age = m.age + 1].age = m.age + 1
        BY <1>3, <1>4 DEF Alerts!Attempt
    <2> QED
        BY <2>1, <2>2
<1>9. \A k : \A b \in Marks(k)' : \E a \in Marks(k) : b.age = a.age + 1
    <2> SUFFICES ASSUME NEW k, NEW b \in Marks(k)' PROVE \E a \in Marks(k) : b.age = a.age + 1
        OBVIOUS
    <2>1. PICK a \in Alerts!Listed(marks, k) : a.age < Window /\ b.age = a.age + 1
        BY <1>5, <1>6, OlderList
    <2> QED
        BY <2>1, <1>5 DEF Alerts!Recent
<1>10. \A k : \A a \in Marks(k) : a.age + 1 < Window => \E b \in Marks(k)' : b.age = a.age + 1
    <2> SUFFICES ASSUME NEW k, NEW a \in Marks(k), a.age + 1 < Window
                 PROVE  \E b \in Marks(k)' : b.age = a.age + 1
        OBVIOUS
    <2>1. a \in Alerts!Listed(marks, k)
        BY <1>5 DEF Alerts!Recent
    <2> QED
        BY <2>1, <1>5, <1>6, OlderList
<1>11. AlertTypeOK'
    <2>1. \A k \in DOMAIN marks : Alerts!Older(marks[k]) \in Lists
        BY OlderList DEF AlertInv, AlertTypeOK
    <2>2. \A k \in Alerts!AlertKeys : Alerts!Older(Alerts!Recent(mails[k])) \in Lists
        BY <1>3, OlderList
    <2> QED
        BY <1>1, <1>2, <2>1, <2>2 DEF AlertInv, AlertTypeOK, Alerts!Aged
<1>12. OneCall'
    BY <1>1, <1>2 DEF AlertInv, OneCall
<1>13. CallIsMarked'
    <2> SUFFICES ASSUME NEW s \in DOMAIN sending, NEW k, k = sending[s].key
                 PROVE  \E b \in Marks(k)' : b.age = 1
        BY <1>1, <1>2 DEF CallIsMarked, Marks
    <2>1. PICK a \in Marks(k) : a.age = 0
        BY <1>1 DEF AlertInv, CallIsMarked
    <2>2. a.age + 1 = 1 /\ a.age + 1 < Window
        BY <2>1, AlertAssumption
    <2>3. \E b \in Marks(k)' : b.age = a.age + 1
        BY <2>2, <1>10
    <2> QED
        BY <2>2, <2>3
<1>14. CallIsLater'
    <2> SUFFICES ASSUME NEW s \in DOMAIN sending, NEW n \in mails'[sending[s].key]
                 PROVE  n.age >= 1 + Window
        BY <1>1, <1>2 DEF CallIsLater
    <2>0. sending[s].key \in Alerts!AlertKeys
        BY DEF AlertInv, AlertTypeOK
    <2>1. PICK m \in mails[sending[s].key] : m.age < Window /\ n.age = m.age + 1
        BY <2>0, <1>7
    <2>2. m.age \in Nat /\ m.age >= sending[s].age + Window
        BY <2>0, <1>3, <1>4 DEF AlertInv, CallIsLater
    <2> QED
        BY <2>1, <2>2, <1>1, AlertAssumption
<1>15. MailIsMarked'
    <2> SUFFICES ASSUME NEW k \in Alerts!AlertKeys, NEW n \in mails'[k], n.age < Window
                 PROVE  \E b \in Marks(k)' : b.age = n.age
        BY DEF MailIsMarked
    <2>1. PICK m \in mails[k] : m.age < Window /\ n.age = m.age + 1
        BY <1>7
    <2>2. PICK a \in Marks(k) : a.age = m.age
        BY <2>1 DEF AlertInv, MailIsMarked
    <2> QED
        BY <2>1, <2>2, <1>10
<1>16. MarkHasCause'
    <2> SUFFICES ASSUME cfg.inbox, NEW k \in Alerts!AlertKeys, NEW b \in Marks(k)'
                 PROVE  \/ \E n \in mails'[k] : n.age = b.age
                        \/ \E s \in DOMAIN sending : sending[s].key = k /\ b.age = 1
        BY <1>1, <1>2 DEF MarkHasCause
    <2>1. PICK a \in Marks(k) : b.age = a.age + 1
        BY <1>9
    <2>2. CASE \E m \in mails[k] : m.age = a.age
        <3>1. a.age < Window
            BY <1>5 DEF Alerts!Recent
        <3> QED
            BY <2>1, <2>2, <3>1, <1>8
    <2>3. CASE \E s \in DOMAIN sending : sending[s].key = k /\ sending[s].age = a.age
        BY <2>1, <2>3, <1>1
    <2> QED
        BY <2>2, <2>3 DEF AlertInv, MarkHasCause
<1>17. MailsApart'
    <2> SUFFICES ASSUME NEW k \in Alerts!AlertKeys, NEW x \in mails'[k], NEW y \in mails'[k], x # y
                 PROVE  x.age >= y.age + Window \/ y.age >= x.age + Window
        BY DEF MailsApart
    <2>1. PICK m \in mails[k] : x = [m EXCEPT !.age = m.age + 1] /\ x.age = m.age + 1
        BY <1>7
    <2>2. PICK n \in mails[k] : y = [n EXCEPT !.age = n.age + 1] /\ y.age = n.age + 1
        BY <1>7
    <2>3. m # n /\ m.age \in Nat /\ n.age \in Nat
        BY <2>1, <2>2, <1>3, <1>4
    <2>4. m.age >= n.age + Window \/ n.age >= m.age + Window
        BY <2>3 DEF AlertInv, MailsApart
    <2> QED
        BY <2>1, <2>2, <2>3, <2>4, AlertAssumption
<1> QED
    BY <1>11, <1>12, <1>13, <1>14, <1>15, <1>16, <1>17 DEF AlertInv

LEMMA AlertNext == AlertInv /\ [Alerts!Next]_Alerts!vars => AlertInv'
<1> SUFFICES ASSUME AlertInv, [Alerts!Next]_Alerts!vars PROVE AlertInv'
    OBVIOUS
<1>1. CASE UNCHANGED Alerts!vars
    BY <1>1 DEF Alerts!vars, AlertInv, AlertTypeOK, OneCall, CallIsMarked, MailIsMarked,
                CallIsLater, MarkHasCause, Marks, MailsApart
<1>2. CASE Alerts!Check \/ \E r \in Requests : Alerts!Rejected(r)
    <2>1. \E s : \E key \in Alerts!AlertKeys : Alerts!StartAlert(s, key)
        BY <1>2 DEF Alerts!Check, Alerts!Rejected, Alerts!DueAlert, Alerts!AlertKeys
    <2> QED
        BY <2>1, AlertStart
<1>3. CASE Alerts!Deploy
    BY <1>3, EmptyList
       DEF Alerts!Deploy, Alerts!NoAttempts, Alerts!NoSends, Alerts!NoMails, AlertInv, AlertTypeOK,
           OneCall, CallIsMarked, MailIsMarked, CallIsLater, MarkHasCause, Marks,
           Alerts!Listed, MailsApart
<1> QED
    BY <1>1, <1>2, <1>3, AlertMailOut, AlertMailFailed, AlertPrune, AlertTick DEF Alerts!Next

LEMMA AlertInvariant == Alerts!Spec => []AlertInv
<1>1. Alerts!Init => AlertInv
    BY EmptyList
       DEF Alerts!Init, Alerts!NoAttempts, Alerts!NoSends, Alerts!NoMails, AlertInv, AlertTypeOK,
           OneCall, CallIsMarked, MailIsMarked, CallIsLater, MarkHasCause, Marks,
           Alerts!Listed, MailsApart
<1> QED
    BY <1>1, AlertNext, PTL DEF Alerts!Spec

(* A mail call about a key starts a window or more after every mail whose call
   succeeded, and alone (maintainerAlertDedupWindow), for any window of two ticks and
   more, whoever notices first and however many calls fail in between: only the mail
   of a call that reported an error is repeated within a window. *)
THEOREM AlertsOncePerWindow == SysSpec => []OncePerWindow
<1>1. AlertInv => OncePerWindow
    BY DEF AlertInv, OneCall, CallIsLater, MailsApart, OncePerWindow, Alerts!OncePerWindow
<1> QED
    BY <1>1, AlertInvariant, CompositionImplementsParts, PTL

(* With an inbox, a key is muted only while a call mails it or one succeeded in
   this window: a call that fails leaves nothing behind
   (sendMaintainerAlert clears its key). *)
THEOREM MutesAreEarned == SysSpec => []MutedOnlyByMail
<1>1. AlertInv => MutedOnlyByMail
    <2> SUFFICES ASSUME AlertInv, NEW k \in Alerts!AlertKeys, cfg.inbox, ~Alerts!Allowed(marks, k)
                 PROVE  Alerts!Recent(mails[k]) # {} \/ \E s \in DOMAIN sending : sending[s].key = k
        BY DEF MutedOnlyByMail, Alerts!MutedOnlyByMail
    <2>1. PICK a \in Marks(k) : TRUE
        BY AllowedMeans DEF AlertInv
    <2>2. a.age < Window
        BY DEF Marks, Alerts!Recent
    <2> QED
        BY <2>2 DEF AlertInv, MarkHasCause, Alerts!Recent
<1> QED
    BY <1>1, AlertInvariant, CompositionImplementsParts, PTL
=============================================================================
