---------------------------- MODULE OneTimeLink ----------------------------
(***************************************************************************)
(* What the emailed links promise, whatever they are for: a token is       *)
(* issued once and redeemed only if it was outstanding when its redemption *)
(* began, and one that was superseded, expired or lost its account never   *)
(* comes back.  A redemption of one step is over as it begins; one of more *)
(* claims the token first, and may use it after it was superseded.  Tokens *)
(* may die together with any step (a resend supersedes, deletion takes the *)
(* account's other links along), but a step issues at most one token and   *)
(* redeems at most one.                                                    *)
(***************************************************************************)
CONSTANT Tokens

VARIABLES
    life,      \* life[t] of each token t
    claimed    \* tokens whose redemption is under way

Lives == {"unissued", "live", "redeemed", "dead"}

TypeOK == life \in [Tokens -> Lives] /\ claimed \subseteq Tokens

Init == life = [t \in Tokens |-> "unissued"] /\ claimed = {}

Become(x) == {t \in Tokens : life[t] # x /\ life'[t] = x}

AtMostOne(S) == \A s, t \in S : s = t

Next ==
    /\ life' \in [Tokens -> Lives] /\ claimed' \subseteq Tokens
    /\ \A t \in claimed' \ claimed : life[t] = "live"
    /\ Become("unissued") = {}
    /\ AtMostOne(Become("live")) /\ AtMostOne(Become("redeemed"))
    /\ \A t \in Become("redeemed") : life[t] = "live" \/ t \in claimed
    /\ \A t \in Become("live") : life[t] = "unissued"
    /\ \A t \in Become("dead") : life[t] \in {"unissued", "live"}

Spec == Init /\ [][Next]_<<life, claimed>>
=============================================================================
