------------------------------ MODULE CliToken ------------------------------
(***************************************************************************)
(* How a run of the command line gets its access token (AccessToken in     *)
(* auth/auth.go): from .token.json, by refreshing the expired token it     *)
(* finds there, or by an interactive login, for which it serves the        *)
(* redirect URI itself (waitForCode).                                      *)
(*                                                                         *)
(* The file is what runs share; a run may be killed at any point, also     *)
(* between truncating and writing the file.  The login's callback handlers *)
(* are goroutines: each hands its result to the run over a channel with    *)
(* room for one.  42 accepts a refresh token once (external).              *)
(***************************************************************************)
EXTENDS Functions, Sequences, Naturals, FiniteSets

CONSTANTS
    Visits,        \* requests to the redirect URI in one login
    MaxTroubles    \* how often something goes wrong that need not

VARIABLES
    file,      \* .token.json, by what can be done with it: "missing", "garbled",
               \* "fresh", "expired" (can be refreshed), "spent" (was refreshed
               \* already) or "bare" (came without a refresh token)
    pc,        \* what the run is doing
    visit,     \* visit[v]: the result a callback handler has yet to hand over
    results,   \* the channel of waitForCode
    troubles   \* how often something went wrong so far (bounded by MaxTroubles)

vars == <<file, pc, visit, results, troubles>>

Closing == pc \in {"close ok", "close error"}
Handling(v) == visit[v] \in {"code", "error"}

Seen == {v \in Visits : visit[v] # "none"}

\* One result is received and one fits into the channel: the third handler blocks.
Crowded == Cardinality(Seen) > 2

NoVisits == [v \in Visits |-> "none"]

Init ==
    /\ file = "missing" /\ pc = "idle"
    /\ visit = NoVisits /\ results = << >> /\ troubles = 0

Become(step) == pc' = step /\ UNCHANGED <<file, visit, results>>

Smooth == UNCHANGED troubles
Trouble == troubles < MaxTroubles /\ troubles' = troubles + 1

\* readStored and expired(); a missing or garbled file just means no token.
Read ==
    /\ pc = "idle"
    /\ Become(CASE file = "fresh" -> "done"
                [] file \in {"expired", "spent"} -> "refresh"
                [] OTHER -> "listen")
    /\ Smooth

Refreshed ==
    /\ pc = "refresh" /\ file = "expired"
    /\ pc' = "truncate" /\ file' = "spent"
    /\ UNCHANGED <<visit, results, troubles>>

\* Fault: a refresh that failed ends the run.
RefreshFailedFinal ==
    /\ pc = "refresh"
    /\ pc' = "failed"
    /\ file' \in {file, "spent"}
    /\ IF file = "spent" THEN Smooth ELSE Trouble
    /\ UNCHANGED <<visit, results>>

\* Rejected, or the answer got lost after 42 had spent the refresh token.
RefreshFailed ==
    /\ pc = "refresh"
    /\ pc' = "listen"
    /\ file' \in {file, "spent"}
    /\ IF file = "spent" THEN Smooth ELSE Trouble
    /\ UNCHANGED <<visit, results>>

Listen ==
    /\ pc = "listen"
    /\ pc' = "wait" /\ visit' = NoVisits /\ results' = << >>
    /\ UNCHANGED <<file, troubles>>

\* The port is taken, or the redirect URI cannot be parsed.
ListenFailed == pc = "listen" /\ Trouble /\ Become("failed")

\* validateCallback on whether the redirect carries an error, our state, a code.
Validated(error, state, code) ==
    IF ~error /\ state /\ code THEN "code" ELSE "error"

\* A request to the redirect URI, on a connection accepted while the listener was
\* open.  A browser repeats the redirect now and then; more often than that is trouble.
Visit(v, error, state, code) ==
    /\ pc = "wait" \/ Closing
    /\ visit[v] = "none"
    /\ visit' = [visit EXCEPT ![v] = Validated(error, state, code)]
    /\ IF error \/ ~state \/ ~code \/ Cardinality(Seen) > 1 THEN Trouble ELSE Smooth
    /\ UNCHANGED <<file, pc, results>>

\* Fault: the channel has no room, a result is handed over or waits.
DeliverUnbuffered(v) ==
    /\ Handling(v) /\ results = << >> /\ pc = "wait"
    /\ results' = <<visit[v]>>
    /\ visit' = [visit EXCEPT ![v] = "over"]
    /\ UNCHANGED <<file, pc, troubles>>

\* results <- result{...}, which blocks while the channel is full.
Deliver(v) ==
    /\ Handling(v) /\ results = << >>
    /\ results' = <<visit[v]>>
    /\ visit' = [visit EXCEPT ![v] = "over"]
    /\ UNCHANGED <<file, pc, troubles>>

\* r := <-results; the deferred Shutdown closes the listener.
Receive ==
    /\ pc = "wait" /\ results # << >>
    /\ pc' = IF results = <<"code">> THEN "close ok" ELSE "close error"
    /\ results' = << >>
    /\ UNCHANGED <<file, visit, troubles>>

\* server.Shutdown returns once no handler runs any more.
ShutDown ==
    /\ Closing /\ \A v \in Visits : ~Handling(v)
    /\ pc' = IF pc = "close ok" THEN "exchange" ELSE "failed"
    /\ visit' = NoVisits /\ results' = << >>
    /\ UNCHANGED <<file, troubles>>

\* The user gives up on a login whose Shutdown waits for a handler that no one will
\* ever receive from.
Interrupt ==
    /\ Closing /\ Crowded
    /\ results # << >> /\ \E v \in Visits : Handling(v)
    /\ pc' = "failed" /\ visit' = NoVisits /\ results' = << >>
    /\ UNCHANGED <<file, troubles>>

Exchanged == pc = "exchange" /\ Smooth /\ Become("truncate")

ExchangeFailed == pc = "exchange" /\ Trouble /\ Become("failed")

\* os.WriteFile: truncate, then write.
Truncate ==
    /\ pc = "truncate"
    /\ file' = "garbled" /\ pc' = "write"
    /\ UNCHANGED <<visit, results, troubles>>

Write ==
    /\ pc = "write"
    /\ file' = "fresh" /\ pc' = "done"
    /\ UNCHANGED <<visit, results, troubles>>

WriteFailed == pc \in {"truncate", "write"} /\ Trouble /\ Become("failed")

\* The next run, after this one ended.
Again ==
    /\ pc \in {"done", "failed"}
    /\ pc' = "idle"
    /\ UNCHANGED <<file, visit, results, troubles>>

Killed ==
    /\ pc \notin {"idle", "done", "failed"}
    /\ Trouble
    /\ pc' = "failed" /\ visit' = NoVisits /\ results' = << >>
    /\ UNCHANGED file

\* The access token in the file comes within expirySkew of its end; 42 may
\* have issued none to refresh it with.
Expire ==
    /\ file = "fresh" /\ file' \in {"expired", "bare"}
    /\ UNCHANGED <<pc, visit, results, troubles>>

\* The user deletes or edits the file, while no run has it in hand.
Tampered ==
    /\ pc \notin {"refresh", "truncate", "write"} /\ file' \in {"missing", "garbled"}
    /\ UNCHANGED <<pc, visit, results, troubles>>

Next ==
    \/ Read \/ Refreshed \/ RefreshFailed
    \/ Listen \/ ListenFailed \/ Receive \/ ShutDown \/ Interrupt
    \/ \E v \in Visits :
          \/ \E error, state, code \in BOOLEAN : Visit(v, error, state, code)
          \/ Deliver(v)
    \/ Exchanged \/ ExchangeFailed \/ Truncate \/ Write \/ WriteFailed
    \/ Again \/ Killed \/ Expire \/ Tampered

Spec == Init /\ [][Next]_vars

\* The run and its handlers proceed, whoever wants a token runs again, and the
\* user answers the login, or interrupts one that hangs.  Failures and kills are bounded by MaxTroubles.
Proceed ==
    \/ Read \/ Refreshed \/ RefreshFailed
    \/ Listen \/ Receive \/ ShutDown \/ Exchanged \/ Truncate \/ Write

Approved == \E v \in Visits : Visit(v, FALSE, TRUE, TRUE)

FairSpec ==
    /\ Spec
    /\ WF_vars(Proceed) /\ WF_vars(Again) /\ WF_vars(Approved) /\ WF_vars(Interrupt)
    /\ \A v \in Visits : WF_vars(Deliver(v))

-----------------------------------------------------------------------------
(* waitForCode returns once a result was received, although handlers may still be at
   work then: the room of the channel is enough for one late callback.  It is not
   enough for two, and "resolves with the authorization code from the OAuth redirect"
   (auth.go:265-266) fails there: the deferred Shutdown waits for the blocked one. *)
LoginReturns == Closing ~> (~Closing \/ Crowded)

(* No state of the file locks the command line out: whatever a crash, a lost
   answer, an edit or a login that hung left behind, runs that are repeated get a
   token. *)
Served == []<>(pc = "done")
=============================================================================
