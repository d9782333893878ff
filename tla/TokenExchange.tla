--------------------------- MODULE TokenExchange ----------------------------
(***************************************************************************)
(* Exchanging a grant for a token at 42 (requestToken in auth/auth.go),    *)
(* with two client secrets: the current one and, when the operator staged  *)
(* it, the next one.  A rejected current secret is retried with the next;  *)
(* once that worked, the latch useNextSecret makes later requests start    *)
(* with the next.  Every request runs on its own goroutine, and the latch  *)
(* is the only thing they share.                                           *)
(*                                                                         *)
(* 42's side is external: a secret is valid from when the dashboard shows  *)
(* it until it expires, the next one outliving the current one; a code is  *)
(* spent when a token is issued for it, also if that answer gets lost.     *)
(***************************************************************************)
EXTENDS Naturals

CONSTANT Requests        \* as many as run at once, each with its own code

VARIABLES
    phase,       \* which secrets 42 accepts
    staged,      \* cfg.ClientSecretNext is set
    latch,       \* useNextSecret
    pc,          \* pc[r]: what request r is doing, or how it ended
    spent,       \* requests whose code 42 has spent
    seen         \* answers 42 gave this process (history)

vars == <<phase, staged, latch, pc, spent, seen>>

Secrets == {"current", "next"}

Valid ==
    {s \in Secrets : \/ phase = "both"
                     \/ phase = "one" /\ s = "current"
                     \/ phase = "last" /\ s = "next"}

Configured == {"current"} \cup IF staged THEN {"next"} ELSE {}

Trying == {"current", "retry", "next"}     \* a round trip is under way
Ends == {"token", "rejected", "failed"}

SecretOf(step) == IF step = "current" THEN "current" ELSE "next"

Init ==
    /\ phase = "one" /\ staged \in BOOLEAN /\ latch = FALSE
    /\ pc = [r \in Requests |-> "idle"]
    /\ spent = {} /\ seen = {}

Goto(r, step) == pc' = [pc EXCEPT ![r] = step]

\* requestToken reads the latch once, before the first round trip.
Begin(r) ==
    /\ pc[r] = "idle"
    /\ Goto(r, IF staged /\ latch THEN "next" ELSE "current")
    /\ UNCHANGED <<phase, staged, latch, spent, seen>>

\* 42 issues a token and the answer arrives; after a retry the latch is still
\* to be set.
Accepted(r) ==
    /\ pc[r] \in Trying /\ SecretOf(pc[r]) \in Valid /\ r \notin spent
    /\ spent' = spent \cup {r} /\ seen' = seen \cup {<<SecretOf(pc[r]), "accepted">>}
    /\ Goto(r, IF pc[r] = "retry" THEN "latch" ELSE "token")
    /\ UNCHANGED <<phase, staged, latch>>

\* useNextSecret.Store(true)
Latch(r) ==
    /\ pc[r] = "latch"
    /\ latch' = TRUE
    /\ Goto(r, "token")
    /\ UNCHANGED <<phase, staged, spent, seen>>

\* Fault: a rejected current secret is final.
RejectedFinal(r) ==
    /\ pc[r] \in Trying /\ SecretOf(pc[r]) \notin Valid
    /\ seen' = seen \cup {<<SecretOf(pc[r]), "rejected">>}
    /\ Goto(r, "rejected")
    /\ UNCHANGED <<phase, staged, latch, spent>>

\* Fault: the latch is set on a rejection, before the next secret has worked.
RejectedLatches(r) ==
    /\ pc[r] \in Trying /\ SecretOf(pc[r]) \notin Valid
    /\ seen' = seen \cup {<<SecretOf(pc[r]), "rejected">>}
    /\ Goto(r, IF pc[r] = "current" /\ staged THEN "retry" ELSE "rejected")
    /\ latch' = (latch \/ staged)
    /\ UNCHANGED <<phase, staged, spent>>

\* 42 answers invalid_client, which spends nothing.
Rejected(r) ==
    /\ pc[r] \in Trying /\ SecretOf(pc[r]) \notin Valid
    /\ seen' = seen \cup {<<SecretOf(pc[r]), "rejected">>}
    /\ Goto(r, IF pc[r] = "current" /\ staged THEN "retry" ELSE "rejected")
    /\ UNCHANGED <<phase, staged, latch, spent>>

\* Any other failure: invalid_grant, a 5xx, a timeout, an answer cut off or
\* unreadable.  42 may have spent the code before the answer was lost.
Failed(r) ==
    /\ pc[r] \in Trying
    /\ spent' \in {spent} \cup IF SecretOf(pc[r]) \in Valid THEN {spent \cup {r}} ELSE {}
    /\ Goto(r, "failed")
    /\ UNCHANGED <<phase, staged, latch, seen>>

\* The next request, with an authorization code of its own.
Again(r) ==
    /\ pc[r] \in Ends
    /\ Goto(r, "idle") /\ spent' = spent \ {r}
    /\ UNCHANGED <<phase, staged, latch, seen>>

\* 42's rotation, which runs one way.
Rotate ==
    /\ \/ phase = "one" /\ phase' = "both"
       \/ phase = "both" /\ phase' = "last"
       \/ phase = "last" /\ phase' = "none"
    /\ UNCHANGED <<staged, latch, pc, spent, seen>>

\* A restart, with a next secret configured or not; requests die with it.
Restart ==
    /\ staged' \in BOOLEAN /\ latch' = FALSE /\ seen' = {}
    /\ pc' = [r \in Requests |-> IF pc[r] \in {"idle"} \cup Ends THEN pc[r] ELSE "failed"]
    /\ UNCHANGED <<phase, spent>>

Next ==
    \/ \E r \in Requests :
          Begin(r) \/ Accepted(r) \/ Latch(r) \/ Rejected(r) \/ Failed(r) \/ Again(r)
    \/ Rotate \/ Restart

Spec == Init /\ [][Next]_vars

-----------------------------------------------------------------------------
(* Types of the exchange; every request is at a step requestToken has. *)
TypeOK ==
    /\ phase \in {"one", "both", "last", "none"}
    /\ staged \in BOOLEAN /\ latch \in BOOLEAN
    /\ pc \in [Requests -> {"idle", "latch"} \cup Trying \cup Ends]
    /\ spent \subseteq Requests
    /\ seen \subseteq Secrets \X {"accepted", "rejected"}

(* A rejection that is reported (IsClientSecretRejected on what requestToken
   returns, which alerts the maintainer that sign-in is broken) is true: at
   that moment 42 accepts none of the configured secrets, whatever the latch
   said when the request began and however far 42 rotated since. *)
NoNeedlessRejection ==
    [][\A r \in Requests :
          pc[r] # "rejected" /\ pc'[r] = "rejected" => Configured \cap Valid = {}]_vars

(* "useNextSecret latches once cfg.ClientSecretNext has succeeded after 42
   rejected cfg.ClientSecret" (auth.go:174-176): the latch is set only in a
   process that saw both. *)
LatchEarned == latch => {<<"current", "rejected">>, <<"next", "accepted">>} \subseteq seen

(* A retry reuses the code of the first round trip, so it may only follow an
   answer that left the code unspent; retrying a lost answer would turn a
   slow sign-in into invalid_grant. *)
RetryHasCode == \A r \in Requests : pc[r] = "retry" => r \notin spent
=============================================================================
