----------------------------- MODULE PullProofs -----------------------------
(***************************************************************************)
(* Proofs about Pull, for any collections, records, page size and number   *)
(* of retries: what is fetched is whole, and what is stored is not lost.   *)
(***************************************************************************)
EXTENDS Pull, SequenceTheorems, TLAPS

USE PullAssumption

-----------------------------------------------------------------------------
(* Pages.  `Before(p)` is how many records the pages before page p hold.   *)

Before(p) == (p - 1) * PageSize

LEMMA BeforeType == ASSUME NEW p \in Nat \ {0} PROVE Before(p) \in Nat
  BY DEF Before

LEMMA BeforeFirst == Before(1) = 0
  BY DEF Before

LEMMA BeforeNext == ASSUME NEW p \in Nat \ {0} PROVE Before(p + 1) = Before(p) + PageSize
  BY DEF Before

LEMMA LongestList == Longest \in Nat /\ \A l \in Lists : Len(l) <= Longest
  <1> DEFINE Lengths == {Len(l) : l \in Lists}
  <1>1. \E n \in Lengths : \A l \in Lists : Len(l) <= n
    OBVIOUS
  <1>2. Longest \in Lengths /\ \A l \in Lists : Len(l) <= Longest
    BY <1>1 DEF Longest
  <1>3. Lengths \subseteq Nat
    OBVIOUS
  <1> QED BY <1>2, <1>3

\* Up to the last page there are more places than any list has records.
LEMMA PagesSuffice == LastPage \in Nat \ {0} /\ Longest < Before(LastPage) + PageSize
  <1>1. Longest \in Nat
    BY LongestList
  <1>2. Longest \div PageSize \in Nat
    BY <1>1
  <1>3. Longest < (Longest \div PageSize) * PageSize + PageSize
    BY <1>1, SMTT(30)
  <1> QED BY <1>1, <1>2, <1>3 DEF LastPage, Before

\* What the next page adds to the pages before it.
LEMMA NextPage ==
    ASSUME NEW list \in Lists, page \in Nat \ {0}, Before(page) <= Len(list)
    PROVE  LET all == SubSeq(list, 1, Before(page)) \o Page(list)
           IN  /\ Len(Page(list)) < PageSize => all = list
               /\ Len(Page(list)) >= PageSize =>
                     /\ Before(page + 1) <= Len(list)
                     /\ all = SubSeq(list, 1, Before(page + 1))
  <1> DEFINE here == Before(page)
             last == IF here + PageSize < Len(list) THEN here + PageSize ELSE Len(list)
  <1>1. list \in Seq(Records) /\ Len(list) \in Nat
    BY LenProperties
  <1>2. here \in Nat /\ Before(page + 1) = here + PageSize
    BY BeforeType, BeforeNext
  <1> HIDE DEF here
  <1>3. Page(list) = SubSeq(list, here + 1, last)
    <2>1. here + 1 + PageSize - 1 = here + PageSize
      BY <1>2
    <2> QED BY <2>1 DEF Page, Before, here
  <1>4. last \in here .. Len(list)
    BY <1>1, <1>2, here <= Len(list) DEF here
  <1> HIDE DEF last
  <1>5. SubSeq(list, 1, here) \o Page(list) = SubSeq(list, 1, last)
    BY <1>1, <1>2, <1>3, <1>4, ConcatAdjacentSubSeq
  <1>6. Len(Page(list)) = last - here
    <2>1. \A i \in here + 1 .. last : list[i] \in Records
      BY <1>1, <1>2, <1>4, ElementOfSeq
    <2>2. Len(Page(list)) = IF here + 1 <= last THEN last - (here + 1) + 1 ELSE 0
      BY <1>1, <1>2, <1>3, <1>4, <2>1, SubSeqProperties
    <2> QED BY <1>1, <1>2, <1>4, <2>2
  <1>7. CASE Len(Page(list)) < PageSize
    <2>1. last = Len(list)
      BY <1>1, <1>2, <1>4, <1>6, <1>7 DEF last
    <2>2. SubSeq(list, 1, here) \o Page(list) = list
      BY <1>1, <1>5, <2>1, SubSeqFull
    <2> QED BY <1>7, <2>2, <1>6, <1>1, <1>2, <1>4 DEF here
  <1>8. CASE Len(Page(list)) >= PageSize
    <2>1. last >= here + PageSize
      BY <1>2, <1>4, <1>6, <1>8
    <2>2. last <= here + PageSize
      BY <1>1, <1>2 DEF last
    <2>3. last = Before(page + 1) /\ last <= Len(list)
      BY <1>1, <1>2, <1>4, <2>1, <2>2
    <2>4. SubSeq(list, 1, here) \o Page(list) = SubSeq(list, 1, Before(page + 1))
      BY <1>5, <2>3
    <2>5. ~(Len(Page(list)) < PageSize)
      BY <1>2, <1>4, <1>6, <1>8
    <2>6. Before(page + 1) <= Len(list)
      BY <2>3
    <2> QED BY <2>4, <2>5, <2>6 DEF here
  <1> QED BY <1>1, <1>2, <1>4, <1>6, <1>7, <1>8

LEMMA PageType ==
    ASSUME NEW list \in Lists, page \in Nat \ {0}
    PROVE  Page(list) \in Seq(Records)
  <1> DEFINE first == Before(page) + 1
             last == IF first + PageSize - 1 < Len(list) THEN first + PageSize - 1 ELSE Len(list)
  <1>1. list \in Seq(Records) /\ Len(list) \in Nat
    BY LenProperties
  <1>2. first \in Nat \ {0} /\ last \in Int /\ last <= Len(list)
    <2>1. Before(page) \in Nat
      BY BeforeType
    <2>2. first \in Nat \ {0}
      BY <2>1
    <2> HIDE DEF first
    <2> QED BY <1>1, <2>2
  <1>3. Page(list) = SubSeq(list, first, last)
    BY DEF Page, Before
  <1> HIDE DEF first, last
  <1>4. \A i \in first .. last : list[i] \in Records
    BY <1>1, <1>2, ElementOfSeq
  <1> QED BY <1>2, <1>3, <1>4, SubSeqProperties

-----------------------------------------------------------------------------
(* What a pull holds of the collection it is at.                           *)

Asked == Collections[at]

\* The pages so far are the beginning of a list that did not change.
Gathered ==
    /\ got \in Seq(Records)
    /\ pc = "page" /\ ~changed =>
          LET list == upstream[Asked]
          IN  Before(page) <= Len(list) /\ got = SubSeq(list, 1, Before(page))

\* What was fetched are sequences, and an evaluation that is stored more than once has
\* its project's name each time or never.
Sound ==
    /\ \A n \in DOMAIN snap : snap[n] \in Seq(Records)
    /\ \A n \in Evals \cap DOMAIN stored : \A e \in Records :
          ~ ([of |-> e, named |-> TRUE] \in ToSet(stored[n])
               /\ [of |-> e, named |-> FALSE] \in ToSet(stored[n]))

PullInv == TypeOK /\ Gathered /\ Sound

LEMMA AskedIsName == ASSUME TypeOK, pc = "page" PROVE Asked \in Names /\ upstream[Asked] \in Lists
  BY DEF TypeOK, Asked, Names, ToSet

LEMMA CollectionCount == Len(Collections) \in Nat \ {0} /\ DOMAIN Collections = 1 .. Len(Collections)
  BY LenProperties

LEMMA FirstPageType ==
    ASSUME FirstPage
    PROVE  /\ page' \in 1 .. LastPage /\ attempt' \in 0 .. MaxRetries /\ changed' \in BOOLEAN
           /\ got' = << >> /\ got' \in Seq(Records) /\ page' = 1 /\ ~changed'
  <1>1. page' = 1 /\ attempt' = 0 /\ got' = << >>
    BY DEF FirstPage
  <1>2. changed' \in BOOLEAN /\ ~changed'
    BY DEF FirstPage
  <1>3. 1 \in 1 .. LastPage /\ 0 \in 0 .. MaxRetries
    BY PagesSuffice
  <1>4. << >> \in Seq(Records)
    BY EmptySeq
  <1> QED BY <1>1, <1>2, <1>3, <1>4

\* The beginning of a list is its first no pages.
LEMMA FirstGathered ==
    ASSUME FirstPage, pc' = "page" => Asked' \in Names, upstream' \in [Names -> Lists]
    PROVE  Gathered'
  <1>1. got' = << >> /\ got' \in Seq(Records) /\ page' = 1
    BY FirstPageType
  <1>2. Before(1) = 0
    BY BeforeFirst
  <1>3. ASSUME pc' = "page"
        PROVE  /\ Before(page') <= Len(upstream'[Asked'])
               /\ got' = SubSeq(upstream'[Asked'], 1, Before(page'))
    <2>1. upstream'[Asked'] \in Seq(Records)
      BY <1>3
    <2>2. Len(upstream'[Asked']) \in Nat
      BY <2>1, LenProperties
    <2>3. SubSeq(upstream'[Asked'], 1, 0) = << >>
      BY SubSeqEmpty
    <2> QED BY <1>1, <1>2, <2>2, <2>3
  <1> QED BY <1>1, <1>3 DEF Gathered

LEMMA TakeCollection ==
    ASSUME TypeOK, pc = "page", NextCollection
    PROVE  /\ pc' \in {"page", "store"} /\ at' \in 1 .. Len(Collections) + 1
           /\ pc' = "page" => at' \in DOMAIN Collections /\ Asked' \in Names
  <1>1. at \in 1 .. Len(Collections)
    BY CollectionCount DEF TypeOK
  <1>2. at' \in 1 .. Len(Collections) + 1 /\ (at # Len(Collections) => at' \in DOMAIN Collections)
    <2>1. at' = at + 1
      BY DEF NextCollection
    <2> DEFINE count == Len(Collections)
    <2>2. count \in Nat /\ DOMAIN Collections = 1 .. count /\ at \in 1 .. count
      BY <1>1, CollectionCount
    <2> HIDE DEF count
    <2>3. at' \in 1 .. count + 1
      BY <2>1, <2>2
    <2>4. at # count => at' \in 1 .. count
      BY <2>1, <2>2
    <2> QED BY <2>2, <2>3, <2>4 DEF count
  <1> QED BY <1>2 DEF NextCollection, Asked, Names, ToSet

LEMMA DomainMerged ==
    ASSUME NEW malformed, stored' = Merged(Curated(snap, malformed))
    PROVE  DOMAIN stored' = DOMAIN stored \cup ((DOMAIN snap \ malformed) \ Dropped)
  BY DEF Merged, Curated

LEMMA TypeNext == TypeOK /\ [Next]_vars => TypeOK'
  <1> SUFFICES ASSUME TypeOK, [Next]_vars PROVE TypeOK'
    OBVIOUS
  <1> USE CollectionCount
  <1>1. CASE Start
    BY <1>1, FirstPageType DEF Start, TypeOK, kept
  <1>2. CASE Retry
    BY <1>2 DEF Retry, TypeOK, fetched, kept
  <1>3. CASE MeFailed \/ PhotosDone
    BY <1>3 DEF MeFailed, PhotosDone, TypeOK, fetched, kept
  <1>4. CASE MeFetched
    BY <1>4, FirstPageType DEF MeFetched, TypeOK, kept
  <1>5. CASE Skip
    <2>1. FirstPage
      BY <1>5 DEF Skip, NextCollection
    <2> QED BY <1>5, <2>1, FirstPageType, TakeCollection DEF Skip, TypeOK, fetched, kept
  <1>6. CASE PageFetched
    <2>1. Asked \in Names
      BY <1>6, AskedIsName DEF PageFetched
    <2>2. CASE NextCollection /\ \E all : snap' = Put(snap, Asked, all)
      <3>1. FirstPage
        BY <2>2 DEF NextCollection
      <3>2. DOMAIN snap' \subseteq Names
        BY <2>1, <2>2 DEF Put, TypeOK
      <3> QED BY <1>6, <2>2, <3>1, <3>2, FirstPageType, TakeCollection
            DEF PageFetched, TypeOK, kept
    <2>3. CASE /\ attempt' = 0 /\ page' = IF page < LastPage THEN page + 1 ELSE page
               /\ UNCHANGED <<pc, at, changed, snap>>
      BY <1>6, <2>3, PagesSuffice DEF PageFetched, TypeOK, kept
    <2> QED BY <1>6, <2>2, <2>3 DEF PageFetched, Asked
  <1>7. CASE Store \/ StoreFailed
    <2>1. DOMAIN snap' \subseteq Names /\ DOMAIN stored' \subseteq Names \ Dropped
      <3>1. DOMAIN snap' \subseteq Names
        BY <1>7 DEF Store, StoreFailed
      <3>2. CASE \E malformed \in SUBSET DOMAIN snap : stored' = Merged(Curated(snap, malformed))
        BY <3>1, <3>2, DomainMerged DEF TypeOK
      <3>3. CASE stored' = stored
        BY <3>1, <3>3 DEF TypeOK
      <3>4. (\E malformed \in SUBSET DOMAIN snap : stored' = Merged(Curated(snap, malformed)))
              \/ stored' = stored
        BY <1>7 DEF Store, StoreFailed
      <3> QED BY <3>2, <3>3, <3>4
    <2> QED BY <1>7, <2>1 DEF Store, StoreFailed, TypeOK
  <1>8. ASSUME NEW v \in Photos, SavePhoto(v) PROVE TypeOK'
    BY <1>8 DEF SavePhoto, TypeOK
  <1>9. ASSUME NEW n \in Names, Change(n) PROVE TypeOK'
    BY <1>9 DEF Change, TypeOK, fetched, kept
  <1>10. CASE UNCHANGED vars
    BY <1>10 DEF TypeOK, vars
  <1> QED BY <1>1, <1>2, <1>3, <1>4, <1>5, <1>6, <1>7, <1>8, <1>9, <1>10 DEF Next, Proceed

LEMMA GatheredNext == TypeOK /\ Gathered /\ [Next]_vars => Gathered'
  <1> SUFFICES ASSUME TypeOK, Gathered, [Next]_vars PROVE Gathered'
    OBVIOUS
  <1>1. TypeOK'
    BY TypeNext
  <1>2. upstream' \in [Names -> Lists] /\ (pc' = "page" => Asked' \in Names)
    BY <1>1 DEF TypeOK, Asked, Names, ToSet
  <1>3. CASE Start \/ MeFetched \/ Skip
    <2>1. FirstPage
      BY <1>3 DEF Start, MeFetched, Skip, NextCollection
    <2> QED BY <1>2, <2>1, FirstGathered
  <1>4. CASE PageFetched
    <2>1. CASE NextCollection
      <3>1. FirstPage
        BY <2>1 DEF NextCollection
      <3> QED BY <1>2, <3>1, FirstGathered
    <2>2. CASE /\ ~LastOf(Page(upstream[Asked]), got \o Page(upstream[Asked]), {})
               /\ got' = got \o Page(upstream[Asked])
               /\ page' = IF page < LastPage THEN page + 1 ELSE page
               /\ UNCHANGED <<pc, at, changed, snap>>
      <3> DEFINE list == upstream[Asked]
      <3>1. list \in Lists /\ page \in 1 .. LastPage /\ page \in Nat \ {0}
        BY <1>4, AskedIsName, PagesSuffice DEF PageFetched, TypeOK
      <3>2. list \in Seq(Records) /\ Len(list) \in Nat
        BY <3>1, LenProperties
      <3>3. got' \in Seq(Records)
        BY <2>2, <3>1, PageType, ConcatProperties DEF Gathered
      <3>4. upstream'[Asked'] = list /\ pc = "page" /\ pc' = pc
        BY <1>4, <2>2 DEF PageFetched, Asked
      <3>5. Len(Page(list)) >= PageSize
        BY <2>2, <3>1, PageType, LenProperties DEF LastOf
      <3>6. ASSUME ~changed'
            PROVE  /\ Before(page') <= Len(upstream'[Asked'])
                   /\ got' = SubSeq(upstream'[Asked'], 1, Before(page'))
        <4>1. Before(page) <= Len(list) /\ got = SubSeq(list, 1, Before(page))
          BY <2>2, <3>4, <3>6 DEF Gathered
        <4>2. /\ Before(page + 1) <= Len(list)
              /\ got' = SubSeq(list, 1, Before(page + 1))
          BY <2>2, <3>1, <3>5, <4>1, NextPage
        <4>3. page < LastPage
          <5>1. Before(page + 1) = Before(page) + PageSize /\ Before(page) \in Nat
            BY <3>1, BeforeType, BeforeNext
          <5>2. Len(list) < Before(LastPage) + PageSize
            BY <3>1, <3>2, LongestList, PagesSuffice, BeforeType
          <5>3. page # LastPage
            BY <3>2, <4>2, <5>1, <5>2
          <5> QED BY <3>1, <5>3, PagesSuffice
        <4> QED BY <2>2, <3>4, <4>2, <4>3
      <3> QED BY <3>3, <3>6 DEF Gathered
    <2> QED BY <1>4, <2>1, <2>2 DEF PageFetched, Asked, LastOf
  <1>5. ASSUME NEW n \in Names, Change(n) PROVE Gathered'
    <2>1. UNCHANGED <<pc, at, page, got>>
      BY <1>5 DEF Change
    <2>2. pc = "page" /\ ~changed' => ~changed /\ Asked # n
      BY <1>5, Zenon DEF Change, Asked
    <2>3. Asked # n => upstream'[Asked] = upstream[Asked]
      BY <1>5, AskedIsName DEF Change, TypeOK
    <2> QED BY <2>1, <2>2, <2>3 DEF Gathered, Asked, Before
  <1>6. CASE MeFailed \/ Store \/ StoreFailed \/ PhotosDone
    BY <1>6 DEF MeFailed, Store, StoreFailed, PhotosDone, Gathered, fetched
  <1>7. CASE Retry \/ (\E v \in Photos : SavePhoto(v)) \/ UNCHANGED vars
    BY <1>7 DEF Retry, SavePhoto, Gathered, Asked, Before, fetched, vars
  <1> QED BY <1>3, <1>4, <1>5, <1>6, <1>7 DEF Next, Proceed

\* What a store leaves of a key: what was there, or what it curated.
LEMMA MergedAt ==
    ASSUME NEW malformed, stored' = Merged(Curated(snap, malformed)), NEW n \in DOMAIN stored'
    PROVE  LET sound == DOMAIN snap \ malformed
               known == IF Projects \in sound THEN ToSet(snap[Projects]) ELSE {}
           IN  \/ /\ n \in sound \ Dropped
                  /\ stored'[n] = IF n \in Evals THEN Named(snap[n], known) ELSE snap[n]
               \/ n \notin sound \ Dropped /\ n \in DOMAIN stored /\ stored'[n] = stored[n]
  BY DEF Merged, Curated

\* The evaluations of one sync, by one set of known projects.
LEMMA NamedBy ==
    ASSUME NEW list \in Seq(Records), NEW known, NEW e, NEW b \in BOOLEAN,
           [of |-> e, named |-> b] \in ToSet(Named(list, known))
    PROVE  b = (e \in known)
  BY DEF Named, ToSet

LEMMA SoundNext == TypeOK /\ Gathered /\ Sound /\ [Next]_vars => Sound'
  <1> SUFFICES ASSUME TypeOK, Gathered, Sound, [Next]_vars PROVE Sound'
    OBVIOUS
  <1>1. CASE PageFetched
    <2>1. stored' = stored
      BY <1>1 DEF PageFetched, kept
    <2>2. CASE snap' = snap
      BY <2>1, <2>2 DEF Sound
    <2>3. CASE snap' = Put(snap, Asked, got \o Page(upstream[Asked]))
      <3>1. upstream[Asked] \in Lists /\ page \in Nat \ {0}
        BY <1>1, AskedIsName, PagesSuffice DEF PageFetched, TypeOK
      <3>2. got \o Page(upstream[Asked]) \in Seq(Records)
        BY <3>1, PageType, ConcatProperties DEF Gathered
      <3>3. \A n \in DOMAIN snap' : snap'[n] \in Seq(Records)
        BY <2>3, <3>2 DEF Put, Sound
      <3> QED BY <2>1, <3>3 DEF Sound
    <2> QED BY <1>1, <2>2, <2>3 DEF PageFetched, Asked
  <1>2. CASE Store \/ StoreFailed
    <2>1. \A n \in DOMAIN snap' : snap'[n] \in Seq(Records)
      <3>1. snap' = << >> /\ DOMAIN << >> = {}
        BY <1>2 DEF Store, StoreFailed
      <3> QED BY <3>1
    <2>2. CASE stored' = stored
      BY <2>1, <2>2 DEF Sound
    <2>3. ASSUME NEW malformed \in SUBSET DOMAIN snap, stored' = Merged(Curated(snap, malformed)),
                 NEW n \in Evals \cap DOMAIN stored', NEW e \in Records,
                 [of |-> e, named |-> TRUE] \in ToSet(stored'[n]),
                 [of |-> e, named |-> FALSE] \in ToSet(stored'[n])
          PROVE  FALSE
      <3>1. CASE n \in DOMAIN stored /\ stored'[n] = stored[n]
        BY <2>3, <3>1 DEF Sound
      <3>2. CASE \E known : n \in DOMAIN snap /\ stored'[n] = Named(snap[n], known)
        BY <2>3, <3>2, NamedBy DEF Sound
      <3> QED BY <2>3, <3>1, <3>2, MergedAt
    <2> QED BY <1>2, <2>1, <2>2, <2>3 DEF Store, StoreFailed, Sound
  <1>3. CASE Start
    <2>1. snap' = << >> /\ DOMAIN << >> = {} /\ stored' = stored
      BY <1>3 DEF Start, kept
    <2> QED BY <2>1 DEF Sound
  <1>4. CASE UNCHANGED <<snap, stored>>
    BY <1>4 DEF Sound
  <1> QED BY <1>1, <1>2, <1>3, <1>4
        DEF Next, Proceed, Retry, MeFailed, MeFetched, Skip, SavePhoto, PhotosDone, Change,
            fetched, kept, vars

LEMMA InitPullInv == Init => PullInv
  <1> SUFFICES ASSUME Init PROVE PullInv
    OBVIOUS
  <1>1. << >> \in Seq(Records)
    BY EmptySeq
  <1>2. DOMAIN << >> = {}
    OBVIOUS
  <1>3. TypeOK
    <2>1. /\ upstream \in [Names -> Lists] /\ pc = "idle" /\ changed \in BOOLEAN
          /\ photos = {} /\ savedPhotos = {} /\ snap = << >> /\ stored = << >>
      BY DEF Init
    <2>2. /\ at \in 1 .. Len(Collections) + 1 /\ page \in 1 .. LastPage
          /\ attempt \in 0 .. MaxRetries
      BY CollectionCount, PagesSuffice DEF Init
    <2> QED BY <1>2, <2>1, <2>2 DEF TypeOK
  <1>4. Sound
    BY <1>2 DEF Init, Sound
  <1> QED BY <1>1, <1>3, <1>4 DEF Init, PullInv, Gathered

LEMMA PullInvNext == PullInv /\ [Next]_vars => PullInv'
  BY TypeNext, GatheredNext, SoundNext DEF PullInv

-----------------------------------------------------------------------------
(* The properties of steps. *)

\* Types; only collections that curation keeps are ever stored.
THEOREM TypeCorrect == Spec => []TypeOK
  <1>1. PullInv => TypeOK
    BY DEF PullInv
  <1> QED BY <1>1, InitPullInv, PullInvNext, PTL DEF Spec

FetchedStep ==
    \A n \in Names :
        n \notin DOMAIN snap /\ n \in DOMAIN snap' /\ ~changed => snap'[n] = upstream[n]

LEMMA PageIsLast ==
    ASSUME PullInv, pc = "page", ~changed,
           NEW total \in {{}, {Len(upstream[Asked])}},
           LastOf(Page(upstream[Asked]), got \o Page(upstream[Asked]), total)
    PROVE  got \o Page(upstream[Asked]) = upstream[Asked]
  <1> DEFINE list == upstream[Asked]
             all == got \o Page(list)
  <1>1. list \in Lists /\ page \in Nat \ {0}
    BY AskedIsName, PagesSuffice DEF PullInv, TypeOK
  <1>2. list \in Seq(Records) /\ Len(list) \in Nat
    BY <1>1, LenProperties
  <1>3. Before(page) <= Len(list) /\ got = SubSeq(list, 1, Before(page))
    BY DEF PullInv, Gathered
  <1>4. CASE Len(Page(list)) < PageSize
    BY <1>1, <1>3, <1>4, NextPage
  <1>5. CASE ~(Len(Page(list)) < PageSize)
    <2>1. Len(all) >= Len(list)
      BY <1>5 DEF LastOf
    <2>2. Before(page + 1) <= Len(list) /\ all = SubSeq(list, 1, Before(page + 1))
      <3>1. Len(Page(list)) \in Nat
        BY <1>1, PageType, LenProperties
      <3>2. Len(Page(list)) >= PageSize
        BY <1>5, <3>1
      <3> QED BY <1>1, <1>3, <3>2, NextPage
    <2>3. Before(page + 1) \in Nat
      BY <1>1, BeforeType
    <2>4. Len(all) = Before(page + 1)
      <3>1. \A i \in 1 .. Before(page + 1) : list[i] \in Records
        BY <1>2, <2>2, <2>3, ElementOfSeq
      <3>2. Len(SubSeq(list, 1, Before(page + 1)))
              = IF 1 <= Before(page + 1) THEN Before(page + 1) - 1 + 1 ELSE 0
        BY <2>3, <3>1, SubSeqProperties
      <3> QED BY <2>2, <2>3, <3>2
    <2>5. Before(page + 1) = Len(list)
      BY <1>2, <2>1, <2>2, <2>3, <2>4
    <2> QED BY <1>2, <2>2, <2>5, SubSeqFull
  <1> QED BY <1>4, <1>5

\* A collection that did not change while it was fetched is fetched whole, in order
\* and without duplicates (GetAll), for any page size and any number of retries.
THEOREM WholeCollections == Spec => FetchedWhole
  <1>1. PullInv /\ [Next]_vars => [FetchedStep]_vars
    <2> SUFFICES ASSUME PullInv, Next, NEW n \in Names,
                        n \notin DOMAIN snap, n \in DOMAIN snap', ~changed
                 PROVE  snap'[n] = upstream[n]
      BY DEF FetchedStep
    <2>1. CASE PageFetched
      <3>1. PICK total \in {{}, {Len(upstream[Asked])}} :
               /\ LastOf(Page(upstream[Asked]), got \o Page(upstream[Asked]), total)
               /\ snap' = Put(snap, Asked, got \o Page(upstream[Asked]))
        BY <2>1 DEF PageFetched, Asked
      <3>2. n = Asked /\ snap'[n] = got \o Page(upstream[Asked])
        BY <3>1 DEF Put
      <3> QED BY <2>1, <3>1, <3>2, PageIsLast DEF PageFetched
    <2>2. CASE Start \/ Store \/ StoreFailed
      <3>1. snap' = << >> /\ DOMAIN << >> = {}
        BY <2>2 DEF Start, Store, StoreFailed
      <3> QED BY <3>1
    <2>3. CASE snap' = snap
      BY <2>3
    <2> QED BY <2>1, <2>2, <2>3
          DEF Next, Proceed, Retry, MeFailed, MeFetched, Skip, SavePhoto, PhotosDone, Change, fetched
  <1> QED BY <1>1, InitPullInv, PullInvNext, PTL DEF Spec, FetchedWhole, FetchedStep

KeptStep ==
    /\ DOMAIN stored \subseteq DOMAIN stored' /\ savedPhotos \subseteq savedPhotos'
    /\ \A n \in DOMAIN stored : stored'[n] # stored[n] =>
          n \in DOMAIN snap /\ Raw(n, stored'[n]) = snap[n]
    /\ \A n \in Evals \cap DOMAIN stored : \A r \in Unnamed(n) :
          \/ Projects \notin DOMAIN stored \/ stored'[Projects] = stored[Projects]
          \/ r \notin ToSet(stored'[Projects])

LEMMA KeptUnchanged ==
    ASSUME Sound, stored' = stored, savedPhotos \subseteq savedPhotos' PROVE KeptStep
  BY DEF Sound, KeptStep, Unnamed

LEMMA RawOfNamed ==
    ASSUME NEW list \in Seq(Records), NEW known, NEW n \in Evals
    PROVE  Raw(n, Named(list, known)) = list
  <1>1. Raw(n, Named(list, known)) = [i \in DOMAIN list |-> list[i]]
    BY DEF Raw, Named
  <1>2. list = [i \in DOMAIN list |-> list[i]]
    BY LenProperties
  <1> QED BY <1>1, <1>2

LEMMA KeptMerged ==
    ASSUME Sound, NEW malformed \in SUBSET DOMAIN snap,
           stored' = Merged(Curated(snap, malformed)), savedPhotos' = savedPhotos
    PROVE  KeptStep
  <1> DEFINE sound == DOMAIN snap \ malformed
             known == IF Projects \in sound THEN ToSet(snap[Projects]) ELSE {}
  <1>1. DOMAIN stored \subseteq DOMAIN stored'
    BY DomainMerged
  <1>2. ASSUME NEW n \in DOMAIN stored
        PROVE  \/ /\ n \in sound \ Dropped
                  /\ stored'[n] = IF n \in Evals THEN Named(snap[n], known) ELSE snap[n]
               \/ n \notin sound \ Dropped /\ stored'[n] = stored[n]
    BY <1>1, MergedAt
  <1> HIDE DEF known
  <1>3. ASSUME NEW n \in DOMAIN stored, stored'[n] # stored[n]
        PROVE  n \in DOMAIN snap /\ Raw(n, stored'[n]) = snap[n]
    <2>1. n \in DOMAIN snap /\ snap[n] \in Seq(Records)
      BY <1>2, <1>3 DEF Sound
    <2>2. CASE n \in Evals
      BY <1>2, <1>3, <2>1, <2>2, RawOfNamed
    <2>3. CASE n \notin Evals
      BY <1>2, <1>3, <2>1, <2>3 DEF Raw
    <2> QED BY <2>1, <2>2, <2>3
  <1>4. ASSUME NEW n \in Evals \cap DOMAIN stored, NEW r \in Unnamed(n),
               Projects \in DOMAIN stored, stored'[Projects] # stored[Projects]
        PROVE  r \notin ToSet(stored'[Projects])
    <2>1. Projects \in sound /\ stored'[Projects] = snap[Projects]
      BY <1>2, <1>4
    <2>2. known = ToSet(stored'[Projects])
      BY <2>1 DEF known
    <2>3. r \in Records /\ [of |-> r, named |-> FALSE] \in ToSet(stored'[n])
      BY <1>4 DEF Unnamed
    <2>4. stored'[n] # stored[n]
      BY <1>4, <2>3 DEF Sound, Unnamed
    <2>5. stored'[n] = Named(snap[n], known) /\ snap[n] \in Seq(Records)
      BY <1>2, <2>4 DEF Sound
    <2> QED BY <2>2, <2>3, <2>5, NamedBy
  <1> QED BY <1>1, <1>3, <1>4 DEF KeptStep

\* Whatever fails at 42, no collection and no photo that was stored is lost, and an
\* evaluation loses the name of its project only to a sync that did not get the project
\* (Curate, UpdateSnapshot's merge and SavePhotos).
THEOREM NothingIsLost == Spec => SkippedIsKept
  <1>1. PullInv /\ [Next]_vars => [KeptStep]_vars
    <2> SUFFICES ASSUME Sound, Next PROVE KeptStep
      BY DEF PullInv
    <2>1. CASE Store \/ StoreFailed
      <3>1. savedPhotos' = savedPhotos
        BY <2>1 DEF Store, StoreFailed
      <3> QED BY <2>1, <3>1, KeptMerged, KeptUnchanged DEF Store, StoreFailed
    <2>2. CASE stored' = stored /\ savedPhotos \subseteq savedPhotos'
      BY <2>2, KeptUnchanged
    <2> QED BY <2>1, <2>2
          DEF Next, Start, Proceed, Retry, MeFailed, MeFetched, Skip, PageFetched,
              SavePhoto, PhotosDone, Change, kept
  <1> QED BY <1>1, InitPullInv, PullInvNext, PTL DEF Spec, SkippedIsKept, KeptStep
=============================================================================
