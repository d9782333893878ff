-------------------------- MODULE SnapshotsProofs ---------------------------
(***************************************************************************)
(* What curation leaves of a text, for any logins and texts; and what the  *)
(* store keeps right between its memory and its tables, for any records at *)
(* 42 and any number of downloads: whom a feedback is shown from, the      *)
(* campus zone, and the counter.                                           *)
(*                                                                         *)
(* Texts need induction over data: over the positions of a text, the size  *)
(* of a set of logins, and the steps of the loop over them.  It is one     *)
(* lemma about sets of numbers, from the well-foundedness of <.            *)
(***************************************************************************)
EXTENDS Snapshots, FiniteSetTheorems, SequenceTheorems, WellFoundedInduction, TLAPS

USE DEF Text

-----------------------------------------------------------------------------
(* Induction, for the sets that a step of a proof defines.                 *)

LEMMA Least ==
  ASSUME NEW T, T \subseteq Nat, T # {}
  PROVE  \E m \in T : \A n \in T : ~ (n < m)
  <1> DEFINE R == {ss \in Nat \X Nat : ss[1] < ss[2]}
  <1>1. IsWellFoundedOn(R, Nat)
    BY NatLessThanWellFounded DEF OpToRel
  <1>2. \E m \in T : \A n \in T : ~ (<<n, m>> \in R)
    <2> HIDE DEF R
    <2> QED BY <1>1, WFMin
  <1> QED BY <1>2

LEMMA Induction ==
  ASSUME NEW T, 0 \in T, \A n \in Nat : n \in T => n + 1 \in T
  PROVE  \A n \in Nat : n \in T
  <1>1. SUFFICES ASSUME Nat \ T # {} PROVE FALSE
    OBVIOUS
  <1>2. PICK m \in Nat \ T : \A n \in Nat \ T : ~ (n < m)
    BY <1>1, Least
  <1>3. m - 1 \in Nat /\ m - 1 < m /\ (m - 1) + 1 = m
    BY <1>2
  <1> QED BY <1>2, <1>3

-----------------------------------------------------------------------------
(* Texts: where logins stand, and what masking leaves of that.             *)

Name == Seq(Letter) \ {<< >>}

LEMMA NameIsText ==
  ASSUME NEW login \in Name
  PROVE  /\ login \in Text
         /\ Len(login) \in Nat \ {0} /\ DOMAIN login = 1 .. Len(login)
         /\ \A i \in DOMAIN login : login[i] \in Letter /\ login[i] # Redacted
  <1>1. login \in Seq(Letter) /\ login # << >>
    BY DEF Name
  <1>2. Letter \subseteq Symbol
    BY DEF Symbol
  <1>3. login \in Text
    BY <1>1, <1>2, SeqMonotonic DEF Text
  <1>4. \A i \in DOMAIN login : login[i] \in Letter
    BY <1>1
  <1> QED BY <1>1, <1>3, <1>4, PeopleAssumption

LEMMA OccurrenceIs ==
  ASSUME NEW login \in Name, NEW text \in Text, NEW r \in Occurrences(login, text)
  PROVE  /\ r = <<r[1], r[2]>>
         /\ r[1] \in 1 .. Len(text) /\ r[2] \in 1 .. Len(text)
         /\ r[2] = r[1] + Len(login) - 1 /\ r[1] <= r[2]
         /\ \A i \in Positions(r) : text[i] = login[i - r[1] + 1]
  <1>1. r[1] \in 1 .. Len(text) /\ r[2] \in 1 .. Len(text) /\ SubSeq(text, r[1], r[2]) = login
    BY DEF Occurrences
  <1>2. Len(login) \in Nat \ {0}
    BY NameIsText
  <1>3. r[1] <= r[2] /\ r[2] = r[1] + Len(login) - 1
    BY <1>1, <1>2
  <1>4. \A i \in 1 .. Len(login) : login[i] = text[r[1] + i - 1]
    <2> DEFINE a == r[1]
               b == r[2]
    <2>1. a \in 1 .. Len(text) /\ b \in 1 .. Len(text) /\ a <= b
          /\ Len(login) = b - a + 1 /\ login = SubSeq(text, a, b)
      BY <1>1, <1>2, <1>3
    <2> HIDE DEF a, b
    <2>2. \A i \in 1 .. (b - a + 1) : SubSeq(text, a, b)[i] = text[a + i - 1]
      BY <2>1
    <2>3. \A i \in 1 .. Len(login) : login[i] = text[a + i - 1]
      BY <2>1, <2>2
    <2> QED BY <2>3 DEF a
  <1>5. ASSUME NEW i \in Positions(r) PROVE text[i] = login[i - r[1] + 1]
    <2> DEFINE first == r[1]
               last == r[2]
               long == Len(login)
    <2>1. i \in first .. last /\ first \in Nat /\ last \in Nat
      BY <1>1 DEF Positions
    <2>2. long \in Nat /\ last = first + long - 1
      BY <1>2, <1>3
    <2> HIDE DEF first, last, long
    <2>3. i - first + 1 \in 1 .. long /\ first + (i - first + 1) - 1 = i
      BY <2>1, <2>2
    <2> QED BY <1>4, <2>3 DEF first, long
  <1> QED BY <1>1, <1>3, <1>5 DEF Occurrences

LEMMA IsOccurrence ==
  ASSUME NEW login \in Name, NEW text \in Text,
         NEW a \in 1 .. Len(text), NEW b \in 1 .. Len(text), b = a + Len(login) - 1,
         \A i \in a .. b : text[i] = login[i - a + 1]
  PROVE  <<a, b>> \in Occurrences(login, text)
  <1>1. login \in Text /\ Len(login) \in Nat \ {0} /\ DOMAIN login = 1 .. Len(login)
    BY NameIsText
  <1>2. /\ Len(SubSeq(text, a, b)) = Len(login)
        /\ SubSeq(text, a, b) \in Text
        /\ \A i \in 1 .. Len(login) : SubSeq(text, a, b)[i] = text[a + i - 1]
    BY <1>1
  <1>3. \A i \in 1 .. Len(login) : SubSeq(text, a, b)[i] = login[i]
    <2> SUFFICES ASSUME NEW i \in 1 .. Len(login) PROVE text[a + i - 1] = login[i]
      BY <1>2
    <2>1. a + i - 1 \in a .. b /\ (a + i - 1) - a + 1 = i
      BY <1>1
    <2> QED BY <2>1
  <1>4. SubSeq(text, a, b) = login
    BY <1>1, <1>2, <1>3, SeqEqual
  <1> QED BY <1>4 DEF Occurrences

\* The set that FromTheLeft chooses exists: each occurrence is decided by those
\* before it.
LEMMA LeftmostExists ==
  ASSUME NEW login \in Name, NEW text \in Text
  PROVE  LET found == FromTheLeft(login, text)
         IN  /\ found \in SUBSET Occurrences(login, text)
             /\ \A r \in Occurrences(login, text) :
                   r \in found <=> ~ \E c \in found : c[1] < r[1] /\ r[1] <= c[2]
  <1> DEFINE All == Occurrences(login, text)
             Decided(C, n) == \A r \in All : r[1] <= n =>
                                (r \in C <=> ~ \E c \in C : c[1] < r[1] /\ r[1] <= c[2])
             T == {n \in Nat : \E C \in SUBSET All : Decided(C, n) /\ \A c \in C : c[1] <= n}
  <1>1. \A r \in All : /\ r[1] \in 1 .. Len(text) /\ r[2] \in 1 .. Len(text)
                       /\ r = <<r[1], r[2]>> /\ r[2] = r[1] + Len(login) - 1
    BY OccurrenceIs
  <1>2. Len(text) \in Nat /\ Len(login) \in Nat \ {0}
    BY NameIsText
  <1>3. 0 \in T
    <2>1. Decided({}, 0)
      BY <1>1, <1>2
    <2> HIDE DEF All, Decided
    <2> QED BY <2>1
  <1>4. ASSUME NEW n \in Nat, n \in T PROVE n + 1 \in T
    <2>1. PICK C \in SUBSET All : Decided(C, n) /\ \A c \in C : c[1] <= n
      BY <1>4
    <2> DEFINE New == {r \in All : r[1] = n + 1 /\ ~ \E c \in C : c[1] < r[1] /\ r[1] <= c[2]}
               D == C \cup New
    <2>2. D \in SUBSET All /\ \A c \in D : c[1] <= n + 1
      BY <1>1, <2>1
    <2>3. ASSUME NEW r \in All, r[1] <= n + 1
          PROVE  r \in D <=> ~ \E c \in D : c[1] < r[1] /\ r[1] <= c[2]
      <3>0. r[1] \in Nat
        BY <1>1
      <3>1. \A c \in New : ~ (c[1] < r[1])
        BY <1>1, <2>3
      <3>2. (\E c \in D : c[1] < r[1] /\ r[1] <= c[2]) <=> (\E c \in C : c[1] < r[1] /\ r[1] <= c[2])
        BY <3>1
      <3>3. CASE r[1] <= n
        <4>1. r \notin New
          BY <3>0, <3>3
        <4>2. r \in C <=> ~ \E c \in C : c[1] < r[1] /\ r[1] <= c[2]
          BY <2>1, <3>3
        <4> QED BY <3>2, <4>1, <4>2
      <3>4. CASE r[1] = n + 1
        <4>1. r \notin C
          BY <2>1, <3>4
        <4> QED BY <3>2, <3>4, <4>1
      <3> QED BY <2>3, <3>0, <3>3, <3>4
    <2>4. Decided(D, n + 1)
      BY <2>3
    <2> HIDE DEF All, Decided, D
    <2> QED BY <2>2, <2>4
  <1>5. Len(text) \in T
    <2> HIDE DEF T
    <2> QED BY <1>2, <1>3, <1>4, Induction
  <1>6. PICK C \in SUBSET All : Decided(C, Len(text))
    BY <1>5
  <1>7. \A r \in All : r \in C <=> ~ \E c \in C : c[1] < r[1] /\ r[1] <= c[2]
    BY <1>1, <1>6
  <1> QED BY <1>7, Zenon DEF FromTheLeft

Overlap(r, c) == Positions(r) \cap Positions(c) # {}

\* What is erased of one login: occurrences that do not overlap, and one of them at
\* least in the way of every occurrence that is left.
LEMMA LeftmostCovers ==
  ASSUME NEW login \in Name, NEW text \in Text
  PROVE  LET found == FromTheLeft(login, text)
         IN  /\ found \in SUBSET Occurrences(login, text)
             /\ \A r, c \in found : Overlap(r, c) => r = c
             /\ \A r \in Occurrences(login, text) : \E c \in found : Overlap(r, c)
  <1> DEFINE All == Occurrences(login, text)
             found == FromTheLeft(login, text)
  <1>1. /\ found \in SUBSET All
        /\ \A r \in All : r \in found <=> ~ \E c \in found : c[1] < r[1] /\ r[1] <= c[2]
    BY LeftmostExists
  <1> HIDE DEF found
  <1>2. \A r \in All : /\ r[1] \in Nat /\ r[2] \in Nat /\ r[1] <= r[2]
                       /\ r = <<r[1], r[2]>> /\ r[2] = r[1] + Len(login) - 1
    BY OccurrenceIs
  <1>3. Len(login) \in Nat \ {0}
    BY NameIsText
  <1> HIDE DEF All
  <1>4. ASSUME NEW r \in found, NEW c \in found, Overlap(r, c) PROVE r = c
    <2>1. PICK i \in Positions(r) : i \in Positions(c)
      BY <1>4 DEF Overlap
    <2>2. i \in Int /\ r[1] <= i /\ i <= r[2] /\ c[1] <= i /\ i <= c[2]
      BY <1>1, <1>2, <2>1 DEF Positions
    <2>3. r[1] \in Nat /\ r[2] \in Nat /\ c[1] \in Nat /\ c[2] \in Nat
      BY <1>1, <1>2
    <2>4. ~ (c[1] < r[1] /\ r[1] <= c[2]) /\ ~ (r[1] < c[1] /\ c[1] <= r[2])
      BY <1>1
    <2>5. c[1] = r[1]
      BY <2>2, <2>3, <2>4
    <2> QED BY <1>1, <1>2, <2>5
  <1>5. ASSUME NEW r \in All PROVE \E c \in found : Overlap(r, c)
    <2>1. r[1] \in Positions(r)
      BY <1>2 DEF Positions
    <2>2. CASE r \in found
      BY <2>1, <2>2 DEF Overlap
    <2>3. CASE r \notin found
      <3>1. PICK c \in found : c[1] < r[1] /\ r[1] <= c[2]
        BY <1>1, <2>3
      <3>2. r[1] \in Positions(c)
        BY <1>1, <1>2, <3>1 DEF Positions
      <3> QED BY <2>1, <3>2 DEF Overlap
    <2> QED BY <2>2, <2>3
  <1> QED BY <1>1, <1>4, <1>5 DEF found, All

LEMMA MaskIs ==
  ASSUME NEW text \in Text, NEW ranges
  PROVE  /\ Mask(text, ranges) \in Text
         /\ Len(Mask(text, ranges)) = Len(text)
         /\ DOMAIN Mask(text, ranges) = DOMAIN text
         /\ \A i \in DOMAIN text :
               Mask(text, ranges)[i] = IF \E r \in ranges : i \in Positions(r) THEN Redacted ELSE text[i]
  <1> DEFINE masked == Mask(text, ranges)
  <1>1. /\ DOMAIN masked = DOMAIN text
        /\ \A i \in DOMAIN text :
              masked[i] = IF \E r \in ranges : i \in Positions(r) THEN Redacted ELSE text[i]
    BY DEF Mask
  <1>2. masked = [i \in DOMAIN text |-> masked[i]]
    BY DEF Mask
  <1>3. DOMAIN text = 1 .. Len(text) /\ Len(text) \in Nat /\ \A i \in DOMAIN text : text[i] \in Symbol
    OBVIOUS
  <1> HIDE DEF masked
  <1>4. \A i \in DOMAIN text : masked[i] \in Symbol
    BY <1>1, <1>3 DEF Symbol
  <1>5. masked \in [1 .. Len(text) -> Symbol]
    BY <1>2, <1>3, <1>4
  <1>6. masked \in Text /\ Len(masked) = Len(text)
    BY <1>3, <1>5
  <1> QED BY <1>1, <1>6 DEF masked

LEMMA MaskTwice ==
  ASSUME NEW text \in Text, NEW first, NEW second
  PROVE  Mask(Mask(text, first), second) = Mask(text, first \cup second)
  <1> DEFINE masked == Mask(text, first)
  <1>1. /\ masked \in Text /\ DOMAIN masked = DOMAIN text
        /\ \A i \in DOMAIN text :
              masked[i] = IF \E r \in first : i \in Positions(r) THEN Redacted ELSE text[i]
    BY MaskIs
  <1> HIDE DEF masked
  <1>2. Mask(masked, second) = Mask(text, first \cup second)
    BY <1>1, Zenon DEF Mask
  <1> QED BY <1>2 DEF masked

\* A mark holds no part of a login, so what can still be found is what was there and
\* is not touched.
LEMMA OccurrencesLeft ==
  ASSUME NEW login \in Name, NEW text \in Text, NEW ranges
  PROVE  Occurrences(login, Mask(text, ranges))
            = {r \in Occurrences(login, text) : \A c \in ranges : ~ Overlap(r, c)}
  <1> DEFINE masked == Mask(text, ranges)
  <1>1. /\ masked \in Text /\ Len(masked) = Len(text)
        /\ \A i \in 1 .. Len(text) :
              masked[i] = IF \E r \in ranges : i \in Positions(r) THEN Redacted ELSE text[i]
    BY MaskIs
  <1> HIDE DEF masked
  <1>2. Len(login) \in Nat \ {0} /\ DOMAIN login = 1 .. Len(login)
        /\ \A i \in DOMAIN login : login[i] # Redacted
    BY NameIsText
  <1>3. ASSUME NEW r \in Occurrences(login, masked)
        PROVE  r \in Occurrences(login, text) /\ \A c \in ranges : ~ Overlap(r, c)
    <2>1. /\ r = <<r[1], r[2]>>
          /\ r[1] \in 1 .. Len(text) /\ r[2] \in 1 .. Len(text)
          /\ r[2] = r[1] + Len(login) - 1
          /\ \A i \in Positions(r) : masked[i] = login[i - r[1] + 1]
      BY <1>1, OccurrenceIs
    <2>2. ASSUME NEW i \in Positions(r)
          PROVE  text[i] = login[i - r[1] + 1] /\ ~ \E c \in ranges : i \in Positions(c)
      <3>1. i \in 1 .. Len(text) /\ i - r[1] + 1 \in DOMAIN login
        BY <1>2, <2>1 DEF Positions
      <3>2. masked[i] # Redacted
        BY <1>2, <2>1, <3>1
      <3> QED BY <1>1, <2>1, <3>1, <3>2
    <2>3. <<r[1], r[2]>> \in Occurrences(login, text)
      BY <2>1, <2>2, IsOccurrence DEF Positions
    <2> QED BY <2>1, <2>2, <2>3 DEF Overlap
  <1>4. ASSUME NEW r \in Occurrences(login, text), \A c \in ranges : ~ Overlap(r, c)
        PROVE  r \in Occurrences(login, masked)
    <2>1. /\ r = <<r[1], r[2]>>
          /\ r[1] \in 1 .. Len(text) /\ r[2] \in 1 .. Len(text)
          /\ r[2] = r[1] + Len(login) - 1
          /\ \A i \in Positions(r) : text[i] = login[i - r[1] + 1]
      BY OccurrenceIs
    <2>2. ASSUME NEW i \in Positions(r) PROVE masked[i] = login[i - r[1] + 1]
      <3>1. i \in 1 .. Len(text)
        BY <2>1 DEF Positions
      <3>2. ~ \E c \in ranges : i \in Positions(c)
        BY <1>4 DEF Overlap
      <3> QED BY <1>1, <2>1, <3>1, <3>2
    <2>3. <<r[1], r[2]>> \in Occurrences(login, masked)
      BY <1>1, <2>1, <2>2, IsOccurrence DEF Positions
    <2> QED BY <2>1, <2>3
  <1> QED BY <1>3, <1>4 DEF masked

-----------------------------------------------------------------------------
(* The loop over the logins: their order, the function that Scrub defines, *)
(* and what it has masked after n of them.                                 *)

IsLongestFirst(order, logins) ==
  /\ order \in [1 .. Cardinality(logins) -> logins]
  /\ \A login \in logins : \E i \in DOMAIN order : order[i] = login
  /\ \A i, j \in DOMAIN order : i < j => Len(order[i]) >= Len(order[j])

\* A finite set of logins can be sorted.
LEMMA LongestFirstExists ==
  ASSUME NEW logins \in SUBSET Name, IsFiniteSet(logins)
  PROVE  IsLongestFirst(LongestFirst(logins), logins)
  <1> DEFINE T == {n \in Nat : \A S \in SUBSET logins :
                      IsFiniteSet(S) /\ Cardinality(S) = n => \E order : IsLongestFirst(order, S)}
  <1>1. 0 \in T
    <2> SUFFICES ASSUME NEW S \in SUBSET logins, IsFiniteSet(S), Cardinality(S) = 0
                 PROVE  \E order : IsLongestFirst(order, S)
      OBVIOUS
    <2>1. S = {}
      BY FS_EmptySet
    <2>2. IsLongestFirst([i \in {} |-> i], S)
      BY <2>1 DEF IsLongestFirst
    <2> QED BY <2>2
  <1>2. ASSUME NEW n \in Nat, n \in T PROVE n + 1 \in T
    <2> SUFFICES ASSUME NEW S \in SUBSET logins, IsFiniteSet(S), Cardinality(S) = n + 1
                 PROVE  \E order : IsLongestFirst(order, S)
      OBVIOUS
    <2>1. \A login \in S : Len(login) \in Nat
      BY DEF Name
    <2>2. PICK short \in S : \A login \in S : ~ (Len(login) < Len(short))
      <3> DEFINE L == {Len(login) : login \in S}
      <3>1. L \subseteq Nat /\ L # {}
        <4>1. S # {}
          BY FS_EmptySet
        <4> QED BY <2>1, <4>1
      <3>2. \E m \in L : \A k \in L : ~ (k < m)
        <4> HIDE DEF L
        <4> QED BY <3>1, Least
      <3> QED BY <3>2
    <2> DEFINE Rest == S \ {short}
    <2>3. IsFiniteSet(Rest) /\ Cardinality(Rest) = n
      <3>1. IsFiniteSet(Rest) /\ Cardinality(Rest) = Cardinality(S) - 1
        BY FS_RemoveElement
      <3> QED BY <3>1
    <2>4. PICK order : IsLongestFirst(order, Rest)
      BY <1>2, <2>3
    <2> DEFINE longer == [i \in 1 .. (n + 1) |-> IF i = n + 1 THEN short ELSE order[i]]
    <2>5. order \in [1 .. n -> Rest]
      BY <2>3, <2>4 DEF IsLongestFirst
    <2>6. longer \in [1 .. (n + 1) -> S]
      BY <2>5
    <2>7. ASSUME NEW login \in S PROVE \E i \in 1 .. (n + 1) : longer[i] = login
      <3>1. CASE login = short
        BY <3>1
      <3>2. CASE login \in Rest
        <4>1. PICK i \in 1 .. n : order[i] = login
          BY <2>4, <2>5, <3>2 DEF IsLongestFirst
        <4> QED BY <4>1
      <3> QED BY <3>1, <3>2
    <2>8. ASSUME NEW i \in 1 .. (n + 1), NEW j \in 1 .. (n + 1), i < j
          PROVE  Len(longer[i]) >= Len(longer[j])
      <3>1. longer[i] \in S /\ Len(longer[i]) \in Nat /\ Len(short) \in Nat
        BY <2>1, <2>6
      <3>2. CASE j = n + 1
        BY <2>2, <3>1, <3>2
      <3>3. CASE j # n + 1
        <4>1. i \in 1 .. n /\ j \in 1 .. n /\ longer[i] = order[i] /\ longer[j] = order[j]
          BY <2>8, <3>3
        <4> HIDE DEF longer
        <4> QED BY <2>4, <2>5, <2>8, <4>1 DEF IsLongestFirst
      <3> QED BY <3>2, <3>3
    <2>9. IsLongestFirst(longer, S)
      <3>1. DOMAIN longer = 1 .. (n + 1)
        OBVIOUS
      <3> HIDE DEF longer
      <3> QED BY <2>6, <2>7, <2>8, <3>1 DEF IsLongestFirst
    <2> QED BY <2>9
  <1>3. Cardinality(logins) \in T
    <2> HIDE DEF T
    <2> QED BY <1>1, <1>2, Induction, FS_CardinalityType
  <1>4. \E order : IsLongestFirst(order, logins)
    BY <1>3
  <1>5. \E order \in [1 .. Cardinality(logins) -> logins] :
           /\ \A login \in logins : \E i \in DOMAIN order : order[i] = login
           /\ \A i, j \in DOMAIN order : i < j => Len(order[i]) >= Len(order[j])
    BY <1>4 DEF IsLongestFirst
  <1> QED BY <1>5, Zenon DEF LongestFirst, IsLongestFirst

IsScrubbed(f, order, text) ==
  f = [n \in 0 .. Len(order) |-> IF n = 0 THEN text ELSE Erase(f[n - 1], order[n])]

\* The recursive function of Scrub exists: it can be made longer by one login.
LEMMA ScrubbedExists ==
  ASSUME NEW order, Len(order) \in Nat, NEW text
  PROVE  \E f : IsScrubbed(f, order, text)
  <1> DEFINE T == {k \in Nat : \E f : f = [n \in 0 .. k |-> IF n = 0 THEN text
                                                         ELSE Erase(f[n - 1], order[n])]}
  <1>1. 0 \in T
    <2> DEFINE f == [n \in 0 .. 0 |-> text]
    <2>1. f = [n \in 0 .. 0 |-> IF n = 0 THEN text ELSE Erase(f[n - 1], order[n])]
      OBVIOUS
    <2> QED BY <2>1
  <1>2. ASSUME NEW k \in Nat, k \in T PROVE k + 1 \in T
    <2>1. PICK f : f = [n \in 0 .. k |-> IF n = 0 THEN text ELSE Erase(f[n - 1], order[n])]
      BY <1>2
    <2> DEFINE g == [n \in 0 .. (k + 1) |-> IF n = k + 1 THEN Erase(f[k], order[n]) ELSE f[n]]
    <2>2. ASSUME NEW n \in 0 .. (k + 1)
          PROVE  g[n] = IF n = 0 THEN text ELSE Erase(g[n - 1], order[n])
      <3>1. CASE n = k + 1
        BY <3>1
      <3>2. CASE n = 0
        BY <2>1, <3>2
      <3>3. CASE n # k + 1 /\ n # 0
        <4>1. n \in 0 .. k /\ n - 1 \in 0 .. k /\ g[n] = f[n] /\ g[n - 1] = f[n - 1]
          BY <3>3
        <4>2. f[n] = Erase(f[n - 1], order[n])
          BY <2>1, <3>3, <4>1
        <4> QED BY <3>3, <4>1, <4>2
      <3> QED BY <3>1, <3>2, <3>3
    <2>3. g = [n \in 0 .. (k + 1) |-> IF n = 0 THEN text ELSE Erase(g[n - 1], order[n])]
      <3>1. g = [n \in 0 .. (k + 1) |-> g[n]]
        OBVIOUS
      <3> HIDE DEF g
      <3> QED BY <2>2, <3>1
    <2> HIDE DEF g
    <2> QED BY <2>3
  <1>3. Len(order) \in T
    <2> HIDE DEF T
    <2> QED BY <1>1, <1>2, Induction
  <1> QED BY <1>3 DEF IsScrubbed

LEMMA ScrubIs ==
  ASSUME NEW people, NEW text, Len(LongestFirst({Login[p] : p \in people})) \in Nat
  PROVE  \E f : /\ IsScrubbed(f, LongestFirst({Login[p] : p \in people}), text)
                /\ Scrub(people, text) = f[Len(LongestFirst({Login[p] : p \in people}))]
  <1> DEFINE order == LongestFirst({Login[p] : p \in people})
             f == CHOOSE f : IsScrubbed(f, order, text)
  <1>1. IsScrubbed(f, order, text)
    BY ScrubbedExists
  <1>2. Scrub(people, text) = f[Len(order)]
    BY DEF Scrub, IsScrubbed
  <1> QED BY <1>1, <1>2

\* What the first n logins of an order have become of a text.
NamesOf(order, n, text) == UNION {Occurrences(order[i], text) : i \in 1 .. n}

IsMasked(names, text, masked) ==
  /\ masked \in SUBSET names
  /\ \A r, c \in masked : Overlap(r, c) => r = c
  /\ \A r \in names : \E c \in masked : Overlap(r, c) /\ c[2] - c[1] >= r[2] - r[1]

\* One more login, no longer than those before: what is found of it is all that does
\* not overlap what is masked already.
LEMMA EraseMasks ==
  ASSUME NEW text \in Text, NEW order, NEW n \in Nat,
         \A i \in 1 .. (n + 1) : order[i] \in Name /\ Len(order[i]) >= Len(order[n + 1]),
         NEW masked, IsMasked(NamesOf(order, n, text), text, masked)
  PROVE  \E more : /\ Erase(Mask(text, masked), order[n + 1]) = Mask(text, more)
                   /\ IsMasked(NamesOf(order, n + 1, text), text, more)
  <1> DEFINE login == order[n + 1]
             before == Mask(text, masked)
             found == FromTheLeft(login, before)
             All == Occurrences(login, text)
             Old == NamesOf(order, n, text)
             Now == NamesOf(order, n + 1, text)
             more == masked \cup found
  <1>1. login \in Name /\ before \in Text
    BY MaskIs
  <1>2. Erase(before, login) = Mask(text, more)
    BY MaskTwice DEF Erase
  <1>3. /\ found \in SUBSET Occurrences(login, before)
        /\ \A r, c \in found : Overlap(r, c) => r = c
        /\ \A r \in Occurrences(login, before) : \E c \in found : Overlap(r, c)
    <2> HIDE DEF login, before
    <2> QED BY <1>1, LeftmostCovers
  <1>4. Occurrences(login, before) = {r \in All : \A c \in masked : ~ Overlap(r, c)}
    <2> HIDE DEF login
    <2> QED BY <1>1, OccurrencesLeft
  <1>5. Now = Old \cup All
    <2>1. 1 .. (n + 1) = (1 .. n) \cup {n + 1}
      OBVIOUS
    <2> QED BY <2>1 DEF NamesOf
  <1>6. \A r \in All : r[2] - r[1] = Len(login) - 1
    <2> SUFFICES ASSUME NEW r \in All PROVE r[2] - r[1] = Len(login) - 1
      OBVIOUS
    <2>1. /\ r[1] \in 1 .. Len(text) /\ r[2] = r[1] + Len(login) - 1
      BY <1>1, OccurrenceIs
    <2>2. Len(login) \in Nat
      BY <1>1, NameIsText
    <2> HIDE DEF login
    <2> QED BY <2>1, <2>2
  <1>7. \A c \in Old : c[2] - c[1] >= Len(login) - 1
    <2> SUFFICES ASSUME NEW i \in 1 .. n, NEW c \in Occurrences(order[i], text)
                 PROVE  c[2] - c[1] >= Len(login) - 1
      BY DEF NamesOf
    <2>1. i \in 1 .. (n + 1)
      OBVIOUS
    <2>2. order[i] \in Name /\ Len(order[i]) >= Len(login)
      BY <2>1
    <2>3. c[1] \in 1 .. Len(text) /\ c[2] = c[1] + Len(order[i]) - 1
      BY <2>2, OccurrenceIs
    <2>4. Len(login) \in Nat /\ Len(order[i]) \in Nat
      BY <1>1, <2>2, NameIsText
    <2> HIDE DEF login
    <2> QED BY <2>2, <2>3, <2>4
  <1>8. Len(login) \in Nat
    BY <1>1, NameIsText
  <1> HIDE DEF login, before, found, All, Old, Now
  <1>9. /\ masked \in SUBSET Old
        /\ \A r, c \in masked : Overlap(r, c) => r = c
        /\ \A r \in Old : \E c \in masked : Overlap(r, c) /\ c[2] - c[1] >= r[2] - r[1]
    BY DEF IsMasked, Old
  <1>10. more \in SUBSET Now
    BY <1>3, <1>4, <1>5, <1>9
  <1>11. ASSUME NEW r \in more, NEW c \in more, Overlap(r, c) PROVE r = c
    <2>1. Overlap(c, r)
      BY <1>11 DEF Overlap
    <2> QED BY <1>3, <1>4, <1>9, <1>11, <2>1
  <1>12. ASSUME NEW r \in Now
         PROVE  \E c \in more : Overlap(r, c) /\ c[2] - c[1] >= r[2] - r[1]
    <2>1. CASE r \in Old
      BY <1>9, <2>1
    <2>2. CASE r \in All /\ \E c \in masked : Overlap(r, c)
      <3>1. PICK c \in masked : Overlap(r, c)
        BY <2>2
      <3>2. c[2] - c[1] >= r[2] - r[1]
        BY <1>6, <1>7, <1>9, <2>2
      <3> QED BY <3>1, <3>2
    <2>3. CASE r \in Occurrences(login, before)
      <3>1. PICK c \in found : Overlap(r, c)
        BY <1>3, <2>3
      <3>2. c \in All /\ r \in All
        BY <1>3, <1>4, <2>3
      <3>3. c[2] - c[1] = r[2] - r[1] /\ r[2] - r[1] = Len(login) - 1
        BY <1>6, <3>2
      <3>4. c[2] - c[1] >= r[2] - r[1]
        BY <1>8, <3>3
      <3> QED BY <3>1, <3>4
    <2> QED BY <1>4, <1>5, <2>1, <2>2, <2>3
  <1>13. IsMasked(Now, text, more)
    BY <1>10, <1>11, <1>12 DEF IsMasked
  <1> QED BY <1>2, <1>13 DEF Now, before, login

\* The loop of loginScrubber, for any people and any text.
LEMMA ScrubMasks ==
  ASSUME NEW people \in SUBSET People, NEW text \in Text
  PROVE  NamesMasked(people, text, Scrub(people, text))
  <1> DEFINE logins == {Login[p] : p \in people}
             order == LongestFirst(logins)
  <1>1. logins \in SUBSET Name
    BY PeopleAssumption DEF Name
  <1>2. IsFiniteSet(logins)
    <2> HIDE DEF logins
    <2>1. IsFiniteSet(people)
      BY FS_Subset, PeopleAssumption
    <2>2. [p \in people |-> Login[p]] \in Surjection(people, logins)
      BY DEF Surjection, logins
    <2> QED BY <2>1, <2>2, FS_Surjection
  <1> HIDE DEF logins
  <1>3. IsLongestFirst(order, logins)
    BY <1>1, <1>2, LongestFirstExists
  <1>4. Len(order) \in Nat /\ DOMAIN order = 1 .. Len(order) /\ \A i \in 1 .. Len(order) : order[i] \in logins
    <2>1. Cardinality(logins) \in Nat
      BY <1>2, FS_CardinalityType
    <2>2. order \in [1 .. Cardinality(logins) -> logins]
      BY <1>3 DEF IsLongestFirst
    <2> HIDE DEF order
    <2>3. order \in Seq(logins) /\ Len(order) = Cardinality(logins)
      BY <2>1, <2>2
    <2> QED BY <2>1, <2>2, <2>3
  <1>5. PICK f : IsScrubbed(f, order, text) /\ Scrub(people, text) = f[Len(order)]
    BY <1>4, ScrubIs DEF logins
  <1> HIDE DEF order
  <1> DEFINE T == {n \in Nat : n <= Len(order) =>
                      \E masked : /\ f[n] = Mask(text, masked)
                                  /\ IsMasked(NamesOf(order, n, text), text, masked)}
  <1>6. f = [n \in 0 .. Len(order) |-> IF n = 0 THEN text ELSE Erase(f[n - 1], order[n])]
    BY <1>5 DEF IsScrubbed
  <1>7. 0 \in T
    <2>1. f[0] = text
      BY <1>4, <1>6
    <2>2. text = Mask(text, {})
      BY DEF Mask
    <2>3. IsMasked(NamesOf(order, 0, text), text, {})
      BY DEF IsMasked, NamesOf
    <2> QED BY <2>1, <2>2, <2>3
  <1>8. ASSUME NEW n \in Nat, n \in T PROVE n + 1 \in T
    <2> SUFFICES ASSUME n + 1 <= Len(order)
                 PROVE  \E masked : /\ f[n + 1] = Mask(text, masked)
                                    /\ IsMasked(NamesOf(order, n + 1, text), text, masked)
      OBVIOUS
    <2>1. PICK masked : f[n] = Mask(text, masked) /\ IsMasked(NamesOf(order, n, text), text, masked)
      BY <1>4, <1>8
    <2>2. f[n + 1] = Erase(f[n], order[n + 1])
      BY <1>4, <1>6
    <2>3. ASSUME NEW i \in 1 .. (n + 1)
          PROVE  order[i] \in Name /\ Len(order[i]) >= Len(order[n + 1])
      <3>1. i \in DOMAIN order /\ n + 1 \in DOMAIN order
        BY <1>4
      <3>2. order[i] \in Name /\ order[n + 1] \in Name
        BY <1>1, <1>4, <3>1
      <3>3. i # n + 1 => i < n + 1
        OBVIOUS
      <3>4. Len(order[n + 1]) \in Nat
        BY <3>2, NameIsText
      <3> QED BY <1>3, <3>1, <3>2, <3>3, <3>4 DEF IsLongestFirst
    <2>4. \E more : /\ Erase(Mask(text, masked), order[n + 1]) = Mask(text, more)
                    /\ IsMasked(NamesOf(order, n + 1, text), text, more)
      BY <2>1, <2>3, EraseMasks
    <2> QED BY <2>1, <2>2, <2>4
  <1>9. Len(order) \in T
    <2> HIDE DEF T
    <2> QED BY <1>4, <1>7, <1>8, Induction
  <1>10. PICK masked : /\ f[Len(order)] = Mask(text, masked)
                       /\ IsMasked(NamesOf(order, Len(order), text), text, masked)
    BY <1>4, <1>9
  <1>11. NamesOf(order, Len(order), text) = UNION {Occurrences(Login[p], text) : p \in people}
    <2>0. {order[i] : i \in 1 .. Len(order)} = logins
      <3>1. \A login \in logins : \E i \in 1 .. Len(order) : order[i] = login
        BY <1>3, <1>4 DEF IsLongestFirst
      <3> QED BY <1>4, <3>1
    <2>1. {order[i] : i \in 1 .. Len(order)} = {Login[p] : p \in people}
      BY <2>0 DEF logins
    <2>2. NamesOf(order, Len(order), text) = UNION {Occurrences(login, text) : login \in {order[i] : i \in 1 .. Len(order)}}
      BY DEF NamesOf
    <2>3. UNION {Occurrences(Login[p], text) : p \in people} = UNION {Occurrences(login, text) : login \in {Login[p] : p \in people}}
      OBVIOUS
    <2> QED BY <2>1, <2>2, <2>3
  <1> QED BY <1>5, <1>10, <1>11 DEF NamesMasked, IsMasked, Overlap

\* loginScrubber "removes the given logins from a string" (snapshot.go:440): none of
\* them is found in what it returns, not even one that the removal of another would
\* have made.
THEOREM NoLoginLeft ==
  ASSUME NEW people \in SUBSET People, NEW text \in Text, NEW p \in people
  PROVE  Occurrences(Login[p], Scrub(people, text)) = {}
  <1> DEFINE Names == UNION {Occurrences(Login[q], text) : q \in people}
  <1>1. PICK masked \in SUBSET Names :
           /\ Scrub(people, text) = Mask(text, masked)
           /\ \A r \in Names : \E c \in masked : Overlap(r, c) /\ c[2] - c[1] >= r[2] - r[1]
    <2>1. NamesMasked(people, text, Scrub(people, text))
      BY ScrubMasks
    <2> QED BY <2>1, Zenon DEF NamesMasked, Overlap
  <1>2. Login[p] \in Name
    BY PeopleAssumption DEF Name
  <1>3. Occurrences(Login[p], Mask(text, masked))
           = {r \in Occurrences(Login[p], text) : \A c \in masked : ~ Overlap(r, c)}
    BY <1>2, OccurrencesLeft
  <1>4. \A r \in Occurrences(Login[p], text) : r \in Names
    OBVIOUS
  <1> QED BY <1>1, <1>3, <1>4

\* "Logins are matched longest-first so one that is a prefix of another can't partially
\* match" (snapshot.go:441-442): where a login stands that only logins within it
\* overlap, all of it is masked.
THEOREM LongestIsWhole ==
  ASSUME NEW people \in SUBSET People, NEW text \in Text, NEW p \in people,
         NEW r \in Occurrences(Login[p], text),
         \A q \in people : \A c \in Occurrences(Login[q], text) :
            Overlap(r, c) => Positions(c) \subseteq Positions(r)
  PROVE  \A i \in Positions(r) : Scrub(people, text)[i] = Redacted
  <1> DEFINE Names == UNION {Occurrences(Login[q], text) : q \in people}
  <1>1. PICK masked \in SUBSET Names :
           /\ Scrub(people, text) = Mask(text, masked)
           /\ \A s \in Names : \E c \in masked : Overlap(s, c) /\ c[2] - c[1] >= s[2] - s[1]
    <2>1. NamesMasked(people, text, Scrub(people, text))
      BY ScrubMasks
    <2> QED BY <2>1, Zenon DEF NamesMasked, Overlap
  <1>2. PICK c \in masked : Overlap(r, c) /\ c[2] - c[1] >= r[2] - r[1]
    BY <1>1
  <1>3. PICK q \in people : c \in Occurrences(Login[q], text)
    BY <1>1, <1>2
  <1>4. Positions(c) \subseteq Positions(r)
    BY <1>2, <1>3
  <1>5. Login[p] \in Name /\ Login[q] \in Name
    BY PeopleAssumption DEF Name
  <1>6. /\ r[1] \in 1 .. Len(text) /\ r[2] \in 1 .. Len(text) /\ r[1] <= r[2]
        /\ c[1] \in 1 .. Len(text) /\ c[2] \in 1 .. Len(text) /\ c[1] <= c[2]
    BY <1>3, <1>5, OccurrenceIs
  <1>7. c[1] \in Positions(c) /\ c[2] \in Positions(c)
    BY <1>6 DEF Positions
  <1>8. r[1] <= c[1] /\ c[2] <= r[2]
    BY <1>4, <1>6, <1>7 DEF Positions
  <1>9. c[1] = r[1] /\ c[2] = r[2]
    BY <1>2, <1>6, <1>8
  <1>10. \A i \in Positions(r) : i \in DOMAIN text /\ i \in Positions(c)
    BY <1>6, <1>9 DEF Positions
  <1> QED BY <1>1, <1>10 DEF Mask

-----------------------------------------------------------------------------
(* The stored evaluation is one of two curations of what 42 holds: of this *)
(* version, or of one that did not know lists of feedback.                 *)

EvalInv ==
    /\ at42 \in Records
    /\ eval \in {NoEval, EvalFrom(at42.st), LegacyEvalFrom(at42.st)}
    /\ fetched => eval = EvalFrom(at42.st)

LEMMA EvalNext == EvalInv /\ [Next]_vars => EvalInv'
  <1> SUFFICES ASSUME EvalInv, [Next]_vars PROVE EvalInv'
    OBVIOUS
  <1>0. at42' = at42
    BY DEF Next, Store, StoreUnanswered, Written, NoteCampusZone, DeleteAccount, IncrementDownloads, Persist,
           PersistFails, Restart, snapVars, statVars, vars
  <1>1. ASSUME NEW a \in Accounts, Store(a) \/ StoreUnanswered(a) PROVE EvalInv'
    BY <1>0, <1>1 DEF Store, StoreUnanswered, Written, EvalInv
  <1>2. ASSUME NEW a \in Accounts, DeleteAccount(a) PROVE EvalInv'
    BY <1>0, <1>2 DEF DeleteAccount, EvalInv
  <1>3. CASE UNCHANGED <<eval, fetched>>
    BY <1>0, <1>3 DEF EvalInv
  <1> QED BY <1>1, <1>2, <1>3
        DEF Next, NoteCampusZone, IncrementDownloads, Persist, PersistFails, Restart,
            snapVars, vars

LEMMA InvEval == Spec => []EvalInv
  <1>1. Init => EvalInv
    BY DEF Init, EvalInv
  <1> QED BY <1>1, EvalNext, PTL DEF Spec

LEMMA EvalFeedbacks ==
    ASSUME NEW st
    PROVE  /\ EvalFrom(st).legacy = << >>
           /\ DOMAIN EvalFrom(st).feedbacks = DOMAIN st.feedbacks
           /\ \A i \in DOMAIN st.feedbacks :
                 EvalFrom(st).feedbacks[i].author =
                    IF st.feedbacks[i].user = Owner THEN Owner ELSE NoOne
  BY DEF EvalFrom

\* After a sync that fetched the evaluations, the profile shows a feedback as its
\* owner's only when the owner wrote it (buildEvals), whatever 42 held and through
\* later syncs that failed to fetch them.
THEOREM AuthorsAreTrue == Spec => []AuthorsTrue
  <1>1. EvalInv => AuthorsTrue
    <2> SUFFICES ASSUME EvalInv, fetched PROVE AuthorsTrue
      BY DEF AuthorsTrue
    <2> DEFINE st == at42.st
               e == EvalFrom(st)
    <2>1. eval = e
      BY DEF EvalInv
    <2>2. /\ e.legacy = << >> /\ DOMAIN e.feedbacks = DOMAIN st.feedbacks
          /\ \A i \in DOMAIN st.feedbacks :
                e.feedbacks[i].author = IF st.feedbacks[i].user = Owner THEN Owner ELSE NoOne
      BY EvalFeedbacks
    <2> HIDE DEF e
    <2>3. AllFeedbacks(e) = e.feedbacks
      BY <2>2 DEF AllFeedbacks
    <2>4. CASE e.feedbacks = << >>
      <3>1. DOMAIN st.feedbacks = {}
        BY <2>2, <2>4
      <3>2. DOMAIN BuildEntries(at42.given, e) = DOMAIN st.feedbacks
        BY <2>2, <2>3 DEF BuildEntries
      <3> QED BY <2>1, <3>1, <3>2 DEF AuthorsTrue
    <2>5. CASE e.feedbacks # << >>
      <3>1. BuildEntries(at42.given, e) = [i \in DOMAIN st.feedbacks |-> e.feedbacks[i]]
        BY <2>2, <2>3, <2>5 DEF BuildEntries
      <3> QED BY <2>1, <2>2, <3>1, PeopleAssumption DEF AuthorsTrue
    <2> QED BY <2>4, <2>5
  <1> QED BY <1>1, InvEval, PTL

LEMMA FeedbackIs ==
    ASSUME NEW st \in ScaleTeam
    PROVE  /\ \E n \in Nat : DOMAIN st.feedbacks = 1 .. n
           /\ \A i \in DOMAIN st.feedbacks : /\ st.feedbacks[i].user \in People
                                            /\ st.feedbacks[i].comment \in Text
  <1> DEFINE Feedback == [user : People, comment : Text]
             given == st.feedbacks
  <1>1. given \in Seq(Feedback)
    BY DEF ScaleTeam
  <1>2. \A f \in Feedback : f.user \in People /\ f.comment \in Text
    OBVIOUS
  <1> HIDE DEF Feedback, given
  <1>3. /\ Len(given) \in Nat /\ DOMAIN given = 1 .. Len(given)
        /\ \A i \in DOMAIN given : given[i] \in Feedback
    BY <1>1
  <1>4. /\ \E n \in Nat : DOMAIN given = 1 .. n
        /\ \A i \in DOMAIN given : given[i].user \in People /\ given[i].comment \in Text
    BY <1>2, <1>3
  <1> QED BY <1>4 DEF given

LEMMA ScrubbedWhere ==
    ASSUME NEW st \in ScaleTeam
    PROVE  LET masked(text, stored) == NamesMasked(Participants(st) \ {Owner, NoOne}, text, stored)
               e == EvalFrom(st)
           IN  /\ masked(st.comment, e.comment)
               /\ e.team = << >> \/ masked(st.team.name, e.team)
               /\ \A i \in DOMAIN st.feedbacks : masked(st.feedbacks[i].comment, e.feedbacks[i].comment)
  <1>1. /\ st.comment \in Text /\ st.team.name \in Text
        /\ st.corrector \in People /\ st.truant \in People \cup {NoOne}
        /\ st.correcteds \subseteq People /\ st.team.users \subseteq People
    BY DEF ScaleTeam
  <1>2. Others(st) \in SUBSET People
    BY <1>1, FeedbackIs DEF Others, Participants
  <1>3. \A text \in Text : NamesMasked(Others(st), text, Scrub(Others(st), text))
    BY <1>2, ScrubMasks
  <1>4. \A i \in DOMAIN st.feedbacks : st.feedbacks[i].comment \in Text
    BY FeedbackIs
  <1> QED BY <1>1, <1>3, <1>4 DEF EvalFrom, Others

\* What is stored, by this version or an earlier one, is part of what this one makes.
LEMMA StoredEval ==
    ASSUME EvalInv, eval # NoEval
    PROVE  LET e == EvalFrom(at42.st)
           IN  /\ eval.comment = e.comment /\ eval.team = e.team
               /\ DOMAIN AllFeedbacks(eval) \subseteq DOMAIN e.feedbacks
               /\ \A i \in DOMAIN AllFeedbacks(eval) :
                     /\ AllFeedbacks(eval)[i].comment = e.feedbacks[i].comment
                     /\ AllFeedbacks(eval)[i].author \in {Owner, NoOne}
  <1> DEFINE e == EvalFrom(at42.st)
  <1>1. /\ e.legacy = << >>
        /\ \A i \in DOMAIN e.feedbacks : e.feedbacks[i].author \in {Owner, NoOne}
    BY EvalFeedbacks
  <1>2. CASE eval = e
    <2>1. AllFeedbacks(e) = e.feedbacks
      BY <1>1 DEF AllFeedbacks
    <2> QED BY <1>1, <1>2, <2>1
  <1>3. CASE eval = LegacyEvalFrom(at42.st)
    <2>1. /\ eval.comment = e.comment /\ eval.team = e.team
          /\ eval.feedbacks = << >>
          /\ eval.legacy = IF e.feedbacks = << >> THEN << >>
                           ELSE <<[author |-> NoOne, comment |-> Head(e.feedbacks).comment]>>
      BY <1>3 DEF LegacyEvalFrom, EvalFrom
    <2>2. CASE e.feedbacks = << >>
      <3>1. AllFeedbacks(eval) = << >>
        BY <2>1, <2>2 DEF AllFeedbacks
      <3> QED BY <2>1, <3>1
    <2>3. CASE e.feedbacks # << >>
      <3>1. /\ AllFeedbacks(eval) = <<[author |-> NoOne, comment |-> Head(e.feedbacks).comment]>>
        BY <2>1, <2>3 DEF AllFeedbacks
      <3>2. Head(e.feedbacks) = e.feedbacks[1]
        OBVIOUS
      <3>3. 1 \in DOMAIN e.feedbacks
        <4>1. PICK n \in Nat : DOMAIN at42.st.feedbacks = 1 .. n
          BY FeedbackIs, SnapshotAssumption DEF EvalInv
        <4>2. e.feedbacks = [i \in 1 .. n |-> e.feedbacks[i]]
          BY <4>1 DEF EvalFrom
        <4>3. CASE n = 0
          BY <2>3, <4>2, <4>3
        <4> QED BY <4>1, <4>2, <4>3
      <3> QED BY <2>1, <3>1, <3>2, <3>3
    <2> QED BY <2>2, <2>3
  <1> QED BY <1>2, <1>3 DEF EvalInv

\* Of every kept text the logins of all others who took part are masked, longest first,
\* and nothing else is (loginScrubber), and no author but the owner is stored (evalFrom),
\* also in what an earlier version stored; for any logins, overlapping ones too.
THEOREM StrangersAreRemoved == Spec => []StrangersRemoved
  <1>1. EvalInv => StrangersRemoved
    <2> SUFFICES ASSUME EvalInv, eval # NoEval PROVE StrangersRemoved
      BY DEF StrangersRemoved
    <2>1. at42.st \in ScaleTeam
      BY SnapshotAssumption DEF EvalInv
    <2> DEFINE st == at42.st
               e == EvalFrom(st)
               masked(text, stored) == NamesMasked(Participants(st) \ {Owner, NoOne}, text, stored)
    <2>2. /\ masked(st.comment, e.comment)
          /\ e.team = << >> \/ masked(st.team.name, e.team)
          /\ \A i \in DOMAIN st.feedbacks : masked(st.feedbacks[i].comment, e.feedbacks[i].comment)
      BY <2>1, ScrubbedWhere
    <2>3. /\ eval.comment = e.comment /\ eval.team = e.team
          /\ DOMAIN AllFeedbacks(eval) \subseteq DOMAIN e.feedbacks
          /\ \A i \in DOMAIN AllFeedbacks(eval) :
                /\ AllFeedbacks(eval)[i].comment = e.feedbacks[i].comment
                /\ AllFeedbacks(eval)[i].author \in {Owner, NoOne}
      BY StoredEval
    <2>4. DOMAIN e.feedbacks = DOMAIN st.feedbacks
      BY EvalFeedbacks
    <2>5. \A i \in DOMAIN AllFeedbacks(eval) : masked(st.feedbacks[i].comment, AllFeedbacks(eval)[i].comment)
      BY <2>2, <2>3, <2>4
    <2> QED BY <2>2, <2>3, <2>5 DEF StrangersRemoved
  <1> QED BY <1>1, InvEval, PTL

-----------------------------------------------------------------------------
(* The campus zone.  Inductive as it stands: the moment between a row and  *)
(* the index is what `noting` marks, a row whose statement reported an     *)
(* error is marked by `unnoted`, and a restart ends both.                  *)

LEMMA ZoneNext == ZoneKnown /\ [Next]_vars => ZoneKnown'
  <1> SUFFICES ASSUME ZoneKnown, [Next]_vars PROVE ZoneKnown'
    OBVIOUS
  <1>1. ASSUME NEW a \in Accounts, Store(a) PROVE ZoneKnown'
    BY <1>1 DEF Store, Written, ZoneKnown
  <1>6. ASSUME NEW a \in Accounts, StoreUnanswered(a) PROVE ZoneKnown'
    BY <1>6 DEF StoreUnanswered, Written, ZoneKnown
  <1>2. ASSUME NEW a \in Accounts, NoteCampusZone(a) PROVE ZoneKnown'
    BY <1>2, SnapshotAssumption DEF NoteCampusZone, ZoneKnown
  <1>3. ASSUME NEW a \in Accounts, DeleteAccount(a) PROVE ZoneKnown'
    BY <1>3 DEF DeleteAccount, ZoneKnown
  <1>4. CASE Restart
    BY <1>4, SnapshotAssumption DEF Restart, ZoneKnown, LoadCampusZones
  <1>5. CASE UNCHANGED <<rows, noting, unnoted, zones>>
    BY <1>5 DEF ZoneKnown
  <1> QED BY <1>1, <1>2, <1>3, <1>4, <1>5, <1>6
        DEF Next, IncrementDownloads, Persist, PersistFails, snapVars, vars

\* A zone that any stored profile of the campus has is known to the server, but for
\* the moment after that row was written, and for a row whose statement reported an
\* error to this process (CreateAccount, noteCampusZone, loadCampusZones).
THEOREM ZoneStaysKnown == Spec => []ZoneKnown
  <1>1. Init => ZoneKnown
    BY DEF Init, ZoneKnown, LoadCampusZones
  <1> QED BY <1>1, ZoneNext, PTL DEF Spec

-----------------------------------------------------------------------------
(* The counter.  An update under way goes by the count that led to it, so  *)
(* the next count is one of no other update.                               *)

CounterInv ==
    /\ downloads \in Nat /\ table \in Nat /\ served \in Nat /\ lost \in Nat
    /\ IsFiniteSet(writing)
    /\ writing \subseteq 1 .. downloads
    /\ CountersAgree

LEMMA CounterNext == CounterInv /\ [Next]_vars => CounterInv'
  <1> SUFFICES ASSUME CounterInv, [Next]_vars PROVE CounterInv'
    OBVIOUS
  <1>0. Cardinality(writing) \in Nat
    BY FS_CardinalityType DEF CounterInv
  <1>1. CASE IncrementDownloads
    <2>1. downloads + 1 \notin writing
      BY DEF CounterInv
    <2>2. /\ IsFiniteSet(writing')
          /\ Cardinality(writing') = Cardinality(writing) + 1
      BY <1>1, <2>1, FS_AddElement DEF IncrementDownloads, CounterInv
    <2>3. writing' \subseteq 1 .. downloads'
      BY <1>1 DEF IncrementDownloads, CounterInv
    <2> QED BY <1>0, <1>1, <2>2, <2>3 DEF IncrementDownloads, CounterInv, CountersAgree
  <1>2. ASSUME NEW n \in writing, Persist(n) \/ PersistFails(n) PROVE CounterInv'
    <2>1. /\ IsFiniteSet(writing')
          /\ Cardinality(writing') = Cardinality(writing) - 1
          /\ Cardinality(writing') \in Nat
      BY <1>2, FS_RemoveElement, FS_CardinalityType DEF Persist, PersistFails, CounterInv
    <2>2. writing' \subseteq writing /\ downloads' = downloads
      BY <1>2 DEF Persist, PersistFails
    <2> QED BY <1>0, <1>2, <2>1, <2>2 DEF Persist, PersistFails, CounterInv, CountersAgree
  <1>3. CASE Restart
    <2>1. IsFiniteSet({}) /\ Cardinality({}) = 0
      BY FS_EmptySet
    <2> QED BY <1>0, <1>3, <2>1 DEF Restart, CounterInv, CountersAgree
  <1>4. CASE UNCHANGED statVars
    BY <1>4 DEF statVars, CounterInv, CountersAgree
  <1> QED BY <1>1, <1>2, <1>3, <1>4
        DEF Next, Store, StoreUnanswered, Written, NoteCampusZone, DeleteAccount, statVars, vars

\* No download is counted twice and none is dropped but by an update that failed or
\* died with its process (IncrementDownloads, loadStats), for any number of updates in
\* flight and any order in which they land.
THEOREM CountersStayTrue == Spec => []CountersAgree
  <1>1. Init => CounterInv
    <2>1. IsFiniteSet({}) /\ Cardinality({}) = 0
      BY FS_EmptySet
    <2> QED BY <2>1 DEF Init, CounterInv, CountersAgree
  <1>2. CounterInv => CountersAgree
    BY DEF CounterInv
  <1> QED BY <1>1, <1>2, CounterNext, PTL DEF Spec
=============================================================================
