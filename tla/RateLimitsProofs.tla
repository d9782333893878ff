-------------------------- MODULE RateLimitsProofs --------------------------
(***************************************************************************)
(* The two caps of RateLimits, for any number of keys and requests and any *)
(* window and maximum.                                                     *)
(*                                                                         *)
(* A cap speaks of what was really sent and really tried (the histories),  *)
(* the limiter decides on what it remembers.  The invariant says that the  *)
(* two agree: the recent attempts of a key's list are its history, however *)
(* far counting, pruning and clearing got with the expired ones.           *)
(***************************************************************************)
EXTENDS RateLimits, FiniteSetTheorems, TLAPS

USE LimiterAssumption

-----------------------------------------------------------------------------
(* Lists of attempts.  Within a tick attempts are numbered without gaps, so  *)
(* that the next number is a new one.                                        *)

Newest(list) == {a \in list : a.age = 0}

Numbered(list) == \A a \in Newest(list) : a.nth <= Cardinality(Newest(list))

Lists == {list \in SUBSET Attempt : IsFiniteSet(list) /\ Numbered(list)}

LEMMA EmptyList == {} \in Lists /\ Recent({}) = {}
  BY FS_EmptySet DEF Lists, Numbered, Newest, Recent

LEMMA ListCardinality == ASSUME NEW S \in Lists PROVE Cardinality(S) \in Nat
  BY FS_CardinalityType DEF Lists

\* Forgetting the expired attempts of a list.
LEMMA RecentList ==
    ASSUME NEW S \in Lists
    PROVE  Recent(S) \in Lists /\ Recent(Recent(S)) = Recent(S)
  <1>1. Recent(S) \subseteq S /\ IsFiniteSet(Recent(S))
    BY FS_Subset DEF Recent, Lists
  <1>2. Newest(Recent(S)) = Newest(S)
    BY DEF Newest, Recent, Lists
  <1> QED BY <1>1, <1>2 DEF Lists, Numbered, Recent, Newest

\* An attempt that is noted counts: it is one more, whatever expired ones the
\* list still holds.
LEMMA NotedList ==
    ASSUME NEW S \in Lists
    PROVE  /\ Noted(S, 0) \in Lists /\ Noted(S, 0) # {}
           /\ Cardinality(Noted(S, 0)) = Cardinality(S) + 1
           /\ Recent(Noted(S, 0)) = Noted(Recent(S), 0)
  <1> DEFINE n == Cardinality(Newest(S))
             new == [age |-> 0, nth |-> n + 1]
  <1>1. S \subseteq Attempt /\ IsFiniteSet(S) /\ IsFiniteSet(Newest(S)) /\ n \in Nat
    BY FS_Subset, FS_CardinalityType DEF Lists, Newest
  <1>2. Noted(S, 0) = S \cup {new}
    BY DEF Noted, Newest
  <1>3. new \in Attempt /\ new.age = 0 /\ new.nth = n + 1
    BY <1>1 DEF Attempt
  <1>4. new \notin S
    BY <1>1, <1>3 DEF Lists, Numbered, Newest
  <1>5. IsFiniteSet(S \cup {new}) /\ Cardinality(S \cup {new}) = Cardinality(S) + 1
    BY <1>1, <1>4, FS_AddElement
  <1>6. Newest(S \cup {new}) = Newest(S) \cup {new} /\ new \notin Newest(S)
    BY <1>3, <1>4 DEF Newest
  <1>7. Cardinality(Newest(S \cup {new})) = n + 1
    BY <1>1, <1>6, FS_AddElement
  <1>8. Numbered(S \cup {new})
    <2> SUFFICES ASSUME NEW a \in Newest(S) \cup {new} PROVE a.nth <= n + 1
      BY <1>6, <1>7 DEF Numbered
    <2>1. CASE a = new
      BY <2>1, <1>1, <1>3
    <2>2. CASE a \in Newest(S)
      <3>1. a.nth \in Nat /\ a.nth <= n
        BY <2>2, <1>1 DEF Lists, Numbered, Newest, Attempt
      <3> QED BY <3>1, <1>1
    <2> QED BY <2>1, <2>2
  <1>9. Recent(S \cup {new}) = Recent(S) \cup {new} /\ Newest(Recent(S)) = Newest(S)
    BY <1>3 DEF Recent, Newest
  <1>10. Noted(Recent(S), 0) = Recent(S) \cup {new}
    BY <1>9 DEF Noted, Newest
  <1> HIDE DEF new, n
  <1> QED BY <1>1, <1>2, <1>3, <1>5, <1>8, <1>9, <1>10 DEF Lists

\* A tick moves attempts out of the window and none into it.
LEMMA OlderList ==
    ASSUME NEW S \in Lists
    PROVE  /\ Older(S) \in Lists
           /\ Recent(Older(S)) = Recent(Older(Recent(S)))
           /\ Recent(Older(S)) = {} \/ S # {}
           /\ Cardinality(Recent(Older(Recent(S)))) <= Cardinality(Recent(S))
  <1> DEFINE Next1(a) == [a EXCEPT !.age = IF a.age < Window THEN a.age + 1 ELSE Window]
  <1>1. \A a \in Attempt : /\ Next1(a) \in Attempt /\ Next1(a).age # 0
                           /\ Next1(a).age < Window => a.age < Window
    BY DEF Attempt
  <1>2. \A T : Older(T) = {Next1(a) : a \in T}
    BY DEF Older
  <1> HIDE DEF Next1
  <1>3. \A T \in SUBSET Attempt : IsFiniteSet(T) =>
            IsFiniteSet(Older(T)) /\ Cardinality(Older(T)) <= Cardinality(T)
    <2> SUFFICES ASSUME NEW T \in SUBSET Attempt, IsFiniteSet(T)
                 PROVE  IsFiniteSet(Older(T)) /\ Cardinality(Older(T)) <= Cardinality(T)
      OBVIOUS
    <2> DEFINE f == [a \in T |-> Next1(a)]
    <2>1. f \in [T -> Older(T)] /\ \A b \in Older(T) : \E a \in T : f[a] = b
      BY <1>2
    <2>2. f \in Surjection(T, Older(T))
      BY <2>1 DEF Surjection
    <2> QED BY <2>2, FS_Surjection
  <1>4. Recent(S) \in Lists /\ Recent(S) \subseteq Attempt /\ IsFiniteSet(Recent(S))
        /\ S \subseteq Attempt /\ IsFiniteSet(S)
    BY RecentList DEF Lists
  <1>5. Older(S) \in Lists
    <2>1. Older(S) \subseteq Attempt /\ Newest(Older(S)) = {}
      BY <1>1, <1>2, <1>4 DEF Newest
    <2> QED BY <2>1, <1>3, <1>4 DEF Lists, Numbered
  <1>6. Recent(Older(S)) = Recent(Older(Recent(S)))
    BY <1>1, <1>2, <1>4 DEF Recent
  <1>7. Recent(Older(S)) = {} \/ S # {}
    BY <1>2 DEF Recent
  <1>8. Cardinality(Recent(Older(Recent(S)))) <= Cardinality(Recent(S))
    <2>1. IsFiniteSet(Older(Recent(S)))
          /\ Cardinality(Older(Recent(S))) <= Cardinality(Recent(S))
      BY <1>3, <1>4
    <2>2. Recent(Older(Recent(S))) \subseteq Older(Recent(S))
      BY DEF Recent
    <2>3. Cardinality(Recent(Older(Recent(S)))) <= Cardinality(Older(Recent(S)))
          /\ IsFiniteSet(Recent(Older(Recent(S))))
      BY <2>1, <2>2, FS_Subset
    <2>4. /\ Cardinality(Recent(Older(Recent(S)))) \in Nat
          /\ Cardinality(Older(Recent(S))) \in Nat /\ Cardinality(Recent(S)) \in Nat
      BY <2>1, <2>3, <1>4, FS_CardinalityType
    <2> QED BY <2>1, <2>3, <2>4
  <1> QED BY <1>5, <1>6, <1>7, <1>8

-----------------------------------------------------------------------------
(* The map of a limiter. *)

IsMap(attempts) ==
    attempts \in [DOMAIN attempts -> Lists]

LEMMA ListedInLists ==
    ASSUME NEW A, IsMap(A), NEW k
    PROVE  Listed(A, k) \in Lists /\ Cardinality(Recent(Listed(A, k))) \in Nat
  <1>1. Listed(A, k) \in Lists
    BY EmptyList DEF IsMap, Listed
  <1> QED BY <1>1, RecentList, ListCardinality

LEMMA WithList ==
    ASSUME NEW A, IsMap(A), NEW k, NEW S \in Lists
    PROVE  /\ IsMap(With(A, k, S))
           /\ \A j : Listed(With(A, k, S), j) = IF j = k THEN S ELSE Listed(A, j)
  BY DEF IsMap, With, Listed

\* What counting, charging and taking leave of the recent attempts of each key.
LEMMA CountedMap ==
    ASSUME NEW A, IsMap(A), NEW k
    PROVE  /\ IsMap(Counted(A, k))
           /\ \A j : Recent(Listed(Counted(A, k), j)) = Recent(Listed(A, j))
  BY ListedInLists, RecentList, WithList DEF Counted

LEMMA ChargedMap ==
    ASSUME NEW A, IsMap(A), NEW k
    PROVE  /\ IsMap(Charged(A, k))
           /\ \A j : Recent(Listed(Charged(A, k), j)) =
                        IF j = k THEN Noted(Recent(Listed(A, k)), 0) ELSE Recent(Listed(A, j))
  BY ListedInLists, NotedList, WithList DEF Charged

LEMMA TakenMap ==
    ASSUME NEW A, IsMap(A), NEW k
    PROVE  /\ IsMap(Taken(A, k))
           /\ \A j : Recent(Listed(Taken(A, k), j)) =
                        IF j = k /\ Allowed(A, k)
                        THEN Noted(Recent(Listed(A, k)), 0) ELSE Recent(Listed(A, j))
  <1> DEFINE C == Counted(A, k)
  <1>1. IsMap(C) /\ \A j : Recent(Listed(C, j)) = Recent(Listed(A, j))
    BY CountedMap
  <1> HIDE DEF C
  <1>2. /\ IsMap(Charged(C, k))
        /\ \A j : Recent(Listed(Charged(C, k), j)) =
                        IF j = k THEN Noted(Recent(Listed(C, k)), 0) ELSE Recent(Listed(C, j))
    BY <1>1, ChargedMap
  <1>3. Taken(A, k) = IF Allowed(A, k) THEN Charged(C, k) ELSE C
    BY DEF Taken, C
  <1>4. CASE Allowed(A, k)
    BY <1>1, <1>2, <1>3, <1>4
  <1>5. CASE ~Allowed(A, k)
    BY <1>1, <1>3, <1>5
  <1> QED BY <1>4, <1>5

\* Pruning takes away what no count would have seen.
LEMMA PrunedMap ==
    ASSUME NEW A, IsMap(A)
    PROVE  IsMap(Pruned(A)) /\ \A j : Recent(Listed(Pruned(A), j)) = Recent(Listed(A, j))
  <1>1. \A j \in DOMAIN A : Recent(A[j]) \in Lists /\ Recent(Recent(A[j])) = Recent(A[j])
    BY RecentList DEF IsMap
  <1>2. IsMap(Pruned(A))
    BY <1>1 DEF IsMap, Pruned
  <1>3. ASSUME NEW j PROVE Recent(Listed(Pruned(A), j)) = Recent(Listed(A, j))
    BY <1>1, EmptyList DEF Pruned, Listed
  <1> QED BY <1>2, <1>3

LEMMA AgedMap ==
    ASSUME NEW A, IsMap(A)
    PROVE  /\ IsMap(Aged(A))
           /\ \A j : Recent(Listed(Aged(A), j)) = Recent(Older(Recent(Listed(A, j))))
  <1>1. \A j \in DOMAIN A : /\ Older(A[j]) \in Lists
                            /\ Recent(Older(A[j])) = Recent(Older(Recent(A[j])))
    BY OlderList DEF IsMap
  <1>2. Recent(Older(Recent({}))) = {}
    BY DEF Recent, Older
  <1>3. IsMap(Aged(A))
    BY <1>1 DEF IsMap, Aged
  <1>4. ASSUME NEW j PROVE Recent(Listed(Aged(A), j)) = Recent(Older(Recent(Listed(A, j))))
    BY <1>1, <1>2, EmptyList DEF Aged, Listed
  <1> QED BY <1>3, <1>4

-----------------------------------------------------------------------------
(* The invariant. *)

InsideOf(k) == {r \in DOMAIN inside : inside[r] = k}

Remembers(attempts, history) ==
    /\ IsMap(attempts)
    /\ history \in [Keys -> Lists]
    /\ \A k \in Keys : Recent(Listed(attempts, k)) = history[k]

RateInv ==
    /\ Remembers(sends, granted)
    /\ Remembers(bad, failed)
    /\ inside \in [DOMAIN inside -> Keys \cup {NoKey}]
    /\ DOMAIN inside \subseteq Requests
    /\ SendCap
    /\ BadTokenCap

\* The cardinalities are numbers.
LEMMA Counts ==
    ASSUME RateInv
    PROVE  /\ IsFiniteSet(Requests) /\ Cardinality(Requests) \in Nat
           /\ \A k : /\ IsFiniteSet(InsideOf(k))
                     /\ Cardinality(InsideOf(k)) \in Nat
                     /\ Cardinality(InsideOf(k)) <= Cardinality(Requests)
           /\ \A k \in Keys : Cardinality(granted[k]) \in Nat /\ Cardinality(failed[k]) \in Nat
  <1>1. IsFiniteSet(Requests)
    BY RateAssumption
  <1>2. \A k : InsideOf(k) \subseteq Requests
    BY DEF RateInv, InsideOf
  <1> QED BY <1>1, <1>2, FS_Subset, FS_CardinalityType, ListCardinality DEF RateInv, Remembers

LEMMA NoAttemptsMap == Remembers(NoAttempts, NoHistory)
  BY EmptyList DEF Remembers, IsMap, NoAttempts, NoHistory, Listed

LEMMA NothingHappened ==
    /\ Nobody \in [DOMAIN Nobody -> Keys \cup {NoKey}] /\ DOMAIN Nobody \subseteq Requests
    /\ \A k \in Keys :
          /\ Cardinality(NoHistory[k]) <= Max
          /\ Cardinality(NoHistory[k]) + Cardinality({r \in DOMAIN Nobody : Nobody[r] = k})
                <= MostFailures
  <1>1. Cardinality({}) = 0 /\ Cardinality(Requests) \in Nat
    BY FS_EmptySet, FS_CardinalityType, RateAssumption
  <1>2. \A k \in Keys : NoHistory[k] = {} /\ {r \in DOMAIN Nobody : Nobody[r] = k} = {}
    BY DEF Nobody, NoHistory
  <1>3. 0 <= Max /\ 0 + 0 <= MostFailures
    BY <1>1 DEF MostFailures
  <1> QED BY <1>1, <1>2, <1>3 DEF Nobody

\* A send is granted on the count of what was granted, not of what is remembered.
LEMMA SendStep == ASSUME RateInv, NEW k \in Keys, RequestSend(k) PROVE RateInv'
  <1>1. Remembers(sends', granted')
    <2>1. CASE Allowed(sends, k)
      <3>1. granted' = [granted EXCEPT ![k] = Noted(granted[k], 0)]
        BY <2>1 DEF RequestSend, OneMore
      <3>2. granted' \in [Keys -> Lists]
        BY <3>1, NotedList DEF RateInv, Remembers
      <3> QED BY <2>1, <3>1, <3>2, TakenMap DEF RateInv, Remembers, RequestSend
    <2>2. CASE ~Allowed(sends, k)
      BY <2>2, TakenMap DEF RateInv, Remembers, RequestSend
    <2> QED BY <2>1, <2>2
  <1>2. SendCap'
    <2>1. CASE Allowed(sends, k)
      <3>1. granted' = [granted EXCEPT ![k] = Noted(granted[k], 0)]
        BY <2>1 DEF RequestSend, OneMore
      <3>2. Cardinality(granted[k]) < Max
        BY <2>1 DEF Allowed, CountRecent, RateInv, Remembers
      <3>3. granted[k] \in Lists /\ Cardinality(granted[k]) \in Nat
        BY ListCardinality DEF RateInv, Remembers
      <3>4. Cardinality(Noted(granted[k], 0)) = Cardinality(granted[k]) + 1
        BY <3>3, NotedList
      <3> QED BY <3>1, <3>2, <3>3, <3>4 DEF SendCap, RateInv, Remembers
    <2>2. CASE ~Allowed(sends, k)
      BY <2>2 DEF RequestSend, SendCap, RateInv
    <2> QED BY <2>1, <2>2
  <1> QED BY <1>1, <1>2 DEF RateInv, RequestSend, Remembers, BadTokenCap

\* A request comes in, which is allowed on the count of the failures.
LEMMA PresentStep ==
    ASSUME RateInv, NEW r \in Requests, NEW k \in Keys \cup {NoKey}, Present(r, k)
    PROVE  RateInv'
  <1>1. Remembers(bad', failed')
    BY CountedMap DEF Present, RateInv, Remembers
  <1>2. inside' \in [DOMAIN inside' -> Keys \cup {NoKey}] /\ DOMAIN inside' \subseteq Requests
    BY DEF Present, RateInv
  <1>3. BadTokenCap'
    <2> SUFFICES ASSUME NEW j \in Keys
                 PROVE  Cardinality(failed[j]) + Cardinality(InsideOf(j)') <= MostFailures
      BY DEF BadTokenCap, InsideOf, Present
    <2>0. Cardinality(failed[j]) + Cardinality(InsideOf(j)) <= MostFailures
      BY DEF RateInv, BadTokenCap, InsideOf
    <2>1. CASE InsideOf(j)' = InsideOf(j)
      BY <2>0, <2>1
    <2>2. CASE j = k /\ Allowed(bad, k)
      <3>1. Cardinality(failed[j]) < Max /\ Cardinality(failed[j]) \in Nat
        BY <2>2, Counts DEF Allowed, CountRecent, RateInv, Remembers
      <3>2. InsideOf(j)' \subseteq Requests
        BY <1>2 DEF InsideOf
      <3>3. /\ Cardinality(InsideOf(j)') <= Cardinality(Requests)
            /\ Cardinality(InsideOf(j)') \in Nat /\ Cardinality(Requests) \in Nat
        BY <3>2, Counts, FS_Subset, FS_CardinalityType
      <3> QED BY <3>1, <3>3 DEF MostFailures
    <2>3. CASE inside' # inside /\ j # k
      <3>1. InsideOf(j)' = InsideOf(j)
        BY <2>3 DEF Present, InsideOf, RateInv
      <3> QED BY <3>1, <2>1
    <2>4. CASE inside' = inside
      BY <2>1, <2>4 DEF InsideOf
    <2>5. inside' # inside => k = NoKey \/ Allowed(bad, k)
      BY DEF Present
    <2> QED BY <2>2, <2>3, <2>4, <2>5, RateAssumption
  <1> QED BY <1>1, <1>2, <1>3 DEF RateInv, Present, SendCap, Remembers

\* A request goes: one is fewer inside, and at most that one has failed.
LEMMA LeaveStep ==
    ASSUME RateInv, NEW r \in Requests, NotCharged(r) \/ BadToken(r)
    PROVE  RateInv'
  <1> DEFINE k == inside[r]
  <1>0. /\ r \in DOMAIN inside /\ k \in Keys \cup {NoKey}
        /\ inside' = [q \in DOMAIN inside \ {r} |-> inside[q]]
    BY DEF NotCharged, BadToken, Leave, Restrict, RateInv
  <1>1. inside' \in [DOMAIN inside' -> Keys \cup {NoKey}] /\ DOMAIN inside' \subseteq Requests
    BY <1>0 DEF RateInv
  <1>2. ASSUME NEW j \in Keys
        PROVE  /\ InsideOf(j)' = IF j = k THEN InsideOf(j) \ {r} ELSE InsideOf(j)
               /\ Cardinality(InsideOf(j)') \in Nat
               /\ j # k => Cardinality(InsideOf(j)') = Cardinality(InsideOf(j))
               /\ j = k => Cardinality(InsideOf(j)') = Cardinality(InsideOf(j)) - 1
    <2>1. InsideOf(j)' = IF j = k THEN InsideOf(j) \ {r} ELSE InsideOf(j)
      BY <1>0 DEF InsideOf
    <2>2. j = k => r \in InsideOf(j)
      BY <1>0 DEF InsideOf
    <2>3. CASE j = k
      <3>1. /\ Cardinality(InsideOf(j) \ {r}) = Cardinality(InsideOf(j)) - 1
            /\ IsFiniteSet(InsideOf(j) \ {r})
        BY <2>2, <2>3, Counts, FS_RemoveElement
      <3> QED BY <2>1, <2>3, <3>1, FS_CardinalityType
    <2>4. CASE j # k
      BY <2>1, <2>4, Counts
    <2> HIDE DEF k
    <2> QED BY <2>1, <2>3, <2>4
  <1>3. CASE UNCHANGED <<bad, failed>>
    <2>1. ASSUME NEW j \in Keys
          PROVE  Cardinality(failed[j]) + Cardinality(InsideOf(j)') <= MostFailures
      <3>1. Cardinality(failed[j]) + Cardinality(InsideOf(j)) <= MostFailures
        BY DEF RateInv, BadTokenCap, InsideOf
      <3>2. Cardinality(failed[j]) \in Nat /\ Cardinality(InsideOf(j)) \in Nat
            /\ Cardinality(Requests) \in Nat
        BY Counts
      <3> HIDE DEF k
      <3> QED BY <3>1, <3>2, <1>2 DEF MostFailures
    <2>2. BadTokenCap'
      BY <2>1, <1>3 DEF BadTokenCap, InsideOf
    <2> QED BY <2>2, <1>1, <1>3 DEF RateInv, NotCharged, BadToken, SendCap, Remembers
  <1>4. CASE BadToken(r) /\ k \in Keys /\ bad' = Charged(bad, k)
             /\ failed' = [failed EXCEPT ![k] = Noted(failed[k], 0)]
    <2>0. failed \in [Keys -> Lists] /\ IsMap(bad)
      BY DEF RateInv, Remembers
    <2>1. failed[k] \in Lists /\ Cardinality(Noted(failed[k], 0)) = Cardinality(failed[k]) + 1
          /\ Noted(failed[k], 0) \in Lists
      BY <1>4, <2>0, NotedList
    <2>2. Remembers(bad', failed')
      BY <1>4, <2>0, <2>1, ChargedMap DEF RateInv, Remembers
    <2>3. ASSUME NEW j \in Keys
          PROVE  Cardinality(failed'[j]) + Cardinality(InsideOf(j)') <= MostFailures
      <3>1. Cardinality(failed[j]) + Cardinality(InsideOf(j)) <= MostFailures
        BY DEF RateInv, BadTokenCap, InsideOf
      <3>2. Cardinality(failed[j]) \in Nat /\ Cardinality(InsideOf(j)) \in Nat
            /\ Cardinality(Requests) \in Nat
        BY Counts
      <3>3. Cardinality(failed'[j]) = IF j = k THEN Cardinality(failed[j]) + 1
                                               ELSE Cardinality(failed[j])
        BY <1>4, <2>0, <2>1
      <3> HIDE DEF k
      <3> QED BY <3>1, <3>2, <3>3, <1>2 DEF MostFailures
    <2>4. BadTokenCap'
      BY <2>3 DEF BadTokenCap, InsideOf
    <2> QED BY <2>2, <2>4, <1>1, <1>4 DEF RateInv, BadToken, SendCap, Remembers
  <1> QED BY <1>0, <1>3, <1>4 DEF NotCharged, BadToken, OneMore

\* Pruning changes nothing that is counted, a tick lets attempts out of it.
LEMMA PruneStep == ASSUME RateInv, PruneSends \/ PruneBad PROVE RateInv'
  <1>1. Remembers(sends', granted') /\ Remembers(bad', failed')
    BY PrunedMap DEF RateInv, Remembers, PruneSends, PruneBad
  <1> QED BY <1>1 DEF RateInv, PruneSends, PruneBad, SendCap, BadTokenCap, Remembers

LEMMA TickStep == ASSUME RateInv, Tick PROVE RateInv'
  <1>1. ASSUME NEW A, NEW history, Remembers(A, history)
        PROVE  /\ Remembers(Aged(A), Passed(history))
               /\ \A k \in Keys : /\ Cardinality(Passed(history)[k]) <= Cardinality(history[k])
                                  /\ Cardinality(Passed(history)[k]) \in Nat
    <2>1. ASSUME NEW k \in Keys
          PROVE  /\ Passed(history)[k] = Recent(Listed(Aged(A), k))
                 /\ Passed(history)[k] \in Lists
                 /\ Cardinality(Passed(history)[k]) <= Cardinality(history[k])
                 /\ Cardinality(Passed(history)[k]) \in Nat
      <3>1. history[k] = Recent(Listed(A, k)) /\ Listed(A, k) \in Lists
        BY <1>1, ListedInLists DEF Remembers
      <3>2. Passed(history)[k] = Recent(Older(history[k]))
        BY DEF Passed
      <3>3. Passed(history)[k] = Recent(Listed(Aged(A), k))
        BY <1>1, <3>1, <3>2, AgedMap DEF Remembers
      <3>4. Cardinality(Passed(history)[k]) <= Cardinality(history[k])
        BY <3>1, <3>2, OlderList
      <3>5. Passed(history)[k] \in Lists
        BY <3>1, <3>2, OlderList, RecentList
      <3> QED BY <3>3, <3>4, <3>5, ListCardinality
    <2>2. Passed(history) \in [Keys -> Lists]
      BY <2>1 DEF Passed
    <2> QED BY <2>1, <2>2, <1>1, AgedMap DEF Remembers
  <1>2. Remembers(sends', granted') /\ Remembers(bad', failed')
    BY <1>1 DEF RateInv, Tick
  <1>3. SendCap'
    <2> SUFFICES ASSUME NEW k \in Keys PROVE Cardinality(Passed(granted)[k]) <= Max
      BY DEF SendCap, Tick
    <2>1. Cardinality(granted[k]) <= Max /\ Cardinality(granted[k]) \in Nat
      BY Counts DEF RateInv, SendCap
    <2>2. /\ Cardinality(Passed(granted)[k]) <= Cardinality(granted[k])
          /\ Cardinality(Passed(granted)[k]) \in Nat
      BY <1>1 DEF RateInv
    <2> QED BY <2>1, <2>2
  <1>4. BadTokenCap'
    <2> SUFFICES ASSUME NEW k \in Keys
                 PROVE  Cardinality(Passed(failed)[k]) + Cardinality(InsideOf(k)) <= MostFailures
      BY DEF BadTokenCap, Tick, InsideOf
    <2>1. Cardinality(failed[k]) + Cardinality(InsideOf(k)) <= MostFailures
      BY DEF RateInv, BadTokenCap, InsideOf
    <2>2. /\ Cardinality(Passed(failed)[k]) <= Cardinality(failed[k])
          /\ Cardinality(Passed(failed)[k]) \in Nat
      BY <1>1 DEF RateInv
    <2>3. Cardinality(failed[k]) \in Nat /\ Cardinality(InsideOf(k)) \in Nat
          /\ Cardinality(Requests) \in Nat
      BY Counts
    <2> QED BY <2>1, <2>2, <2>3 DEF MostFailures
  <1> QED BY <1>2, <1>3, <1>4 DEF RateInv, Tick

LEMMA RateNext == RateInv /\ [Next]_vars => RateInv'
  <1> SUFFICES ASSUME RateInv, [Next]_vars PROVE RateInv'
    OBVIOUS
  <1>1. CASE Restart
    BY <1>1, NoAttemptsMap, NothingHappened DEF Restart, RateInv, SendCap, BadTokenCap
  <1>2. CASE UNCHANGED vars
    BY <1>2 DEF vars, RateInv, SendCap, BadTokenCap, Remembers
  <1> QED BY <1>1, <1>2, SendStep, PresentStep, LeaveStep, PruneStep, TickStep DEF Next

\* What the limiters remember is what really happened in the window, and both
\* caps hold.
THEOREM LimitersRemember == Spec => []RateInv
  <1>1. Init => RateInv
    BY NoAttemptsMap, NothingHappened DEF Init, RateInv, SendCap, BadTokenCap
  <1> QED BY <1>1, RateNext, PTL DEF Spec

\* A process mails a key at most Max times in any window (take), for any window and
\* maximum, however pruning and refused attempts fall between.
THEOREM SendsAreCapped == Spec => []SendCap
  BY LimitersRemember, PTL DEF RateInv

\* A client tries at most Max - 1 bad tokens in a window and one per request past the
\* gate (tokenAttemptAllowed and recordBadToken apart), for any number of requests.
THEOREM BadTokensAreCapped == Spec => []BadTokenCap
  BY LimitersRemember, PTL DEF RateInv

\* A key is refused only when Max of its attempts were granted or charged in the window
\* (countRecentLocked counts nothing else), for any window, maximum and number of keys:
\* the cap is not kept by refusing too much.
THEOREM LockoutsAreEarned == Spec => []LockoutIsEarned
  <1>1. ASSUME RateInv PROVE LockoutIsEarned
    <2> SUFFICES ASSUME NEW k \in Keys
                 PROVE  /\ Allowed(sends, k) \/ Cardinality(granted[k]) >= Max
                        /\ Allowed(bad, k) \/ Cardinality(failed[k]) >= Max
      BY DEF LockoutIsEarned
    <2>1. /\ CountRecent(sends, k) = Cardinality(granted[k])
          /\ CountRecent(bad, k) = Cardinality(failed[k])
      BY <1>1 DEF RateInv, Remembers, CountRecent
    <2>2. Cardinality(granted[k]) \in Nat /\ Cardinality(failed[k]) \in Nat
      BY <1>1, Counts
    <2> QED BY <2>1, <2>2 DEF Allowed
  <1> QED BY <1>1, LimitersRemember, PTL
=============================================================================
