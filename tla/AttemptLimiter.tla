--------------------------- MODULE AttemptLimiter ---------------------------
(***************************************************************************)
(* The sliding-window limiter of web/auth.go, as operators on its map      *)
(* `attempts`: a key's list of time.Time is the set of its attempts, each  *)
(* with its age in ticks and a number that tells it from the others of its *)
(* tick (the order of the list decides nothing).  Attempts past the window *)
(* stay in the list until they are counted or pruned; how many they are    *)
(* does not matter, so they may coincide.  Each operator is one critical   *)
(* section of the limiter's mutex.  A key with no attempt left is not in   *)
(* the map.                                                                *)
(***************************************************************************)
EXTENDS FiniteSets, Functions, Naturals

CONSTANTS Max,      \* attempts allowed per window
          Window    \* in ticks; an attempt that old no longer counts

ASSUME LimiterAssumption == Max \in Nat \ {0} /\ Window \in Nat \ {0}

Attempt == [age : 0 .. Window, nth : Nat]

NoAttempts == [key \in {} |-> {}]

Recent(list) == {a \in list : a.age < Window}

Listed(attempts, key) == IF key \in DOMAIN attempts THEN attempts[key] ELSE {}

CountRecent(attempts, key) == Cardinality(Recent(Listed(attempts, key)))

\* The map with key's list replaced, an empty list leaving the map.
With(attempts, key, list) ==
    LET others == DOMAIN attempts \ {key}
    IN  [k \in others \cup (IF list = {} THEN {} ELSE {key}) |->
            IF k = key THEN list ELSE attempts[k]]

\* countRecentLocked drops the key's expired attempts as it counts them.
Counted(attempts, key) == With(attempts, key, Recent(Listed(attempts, key)))

\* One more attempt of the given age.
Noted(list, age) ==
    list \cup {[age |-> age, nth |-> Cardinality({a \in list : a.age = age}) + 1]}

Charged(attempts, key) == With(attempts, key, Noted(Listed(attempts, key), 0))

\* Fault: one attempt too many.
AllowedOneMore(attempts, key) == CountRecent(attempts, key) <= Max

Allowed(attempts, key) == CountRecent(attempts, key) < Max

\* Fault: an attempt that is refused takes the place of the oldest one.
TakenAgain(attempts, key) ==
    LET recent == Recent(Listed(attempts, key))
        oldest == CHOOSE a \in recent : \A b \in recent : b.age <= a.age
        kept == IF Cardinality(recent) < Max THEN recent ELSE recent \ {oldest}
    IN  With(attempts, key, Noted(kept, 0))

\* take: the map after it; the attempt succeeds iff Allowed held before.
Taken(attempts, key) ==
    LET counted == Counted(attempts, key)
    IN  IF Allowed(attempts, key) THEN Charged(counted, key) ELSE counted

Cleared(attempts, key) == Restrict(attempts, DOMAIN attempts \ {key})

\* Fault: a key with an expired attempt goes altogether.
PrunedWhole(attempts) ==
    Restrict(attempts, {k \in DOMAIN attempts : Recent(attempts[k]) = attempts[k]})

Pruned(attempts) ==
    LET live == {k \in DOMAIN attempts : Recent(attempts[k]) # {}}
    IN  [k \in live |-> Recent(attempts[k])]

\* Time passing by a tick.
Older(list) ==
    {[a EXCEPT !.age = IF a.age < Window THEN a.age + 1 ELSE Window] : a \in list}

Aged(attempts) == [k \in DOMAIN attempts |-> Older(attempts[k])]
=============================================================================
