-------------------------------- MODULE Pull --------------------------------
(***************************************************************************)
(* One account's syncs, seen from the data: a pull asks 42 for /me, the    *)
(* photos and page after page of every collection (fetch/fetch.go and      *)
(* api42/client.go), and what it got is curated and merged into the stored *)
(* snapshot (snapshot.Curate, UpdateSnapshot and SavePhotos in store.go).  *)
(*                                                                         *)
(* 42 may change a collection between two pages, refuse a request, or fail *)
(* it for good.  A record is a model value: a project in projects_users,   *)
(* and an evaluation of that project in the scale_teams; of a photo only   *)
(* its presence matters.  Pages past the end are empty, so page numbers    *)
(* saturate.                                                               *)
(***************************************************************************)
EXTENDS Naturals, SequencesExt

CONSTANTS
    Collections,   \* api42.Collections, a sequence of names
    Dropped,       \* those that Curate does not keep
    Projects,      \* projects_users
    Evals,         \* scale_teams_as_corrector and scale_teams_as_corrected
    Records,
    Lists,         \* what a collection may hold: sequences of records
    PageSize, MaxRetries

Photos == {"original", "small"}
Names == ToSet(Collections)

Longest == CHOOSE n \in {Len(l) : l \in Lists} : \A l \in Lists : Len(l) <= n
LastPage == Longest \div PageSize + 1      \* empty or short, whatever the list

ASSUME PullAssumption ==
    /\ Collections \in Seq(Names) /\ Len(Collections) > 0
    /\ Dropped \subseteq Names /\ Evals \subseteq Names /\ Projects \in Names \ (Evals \cup Dropped)
    /\ Lists \subseteq Seq(Records) /\ \E long \in Lists : \A l \in Lists : Len(l) <= Len(long)
    /\ PageSize \in Nat \ {0} /\ MaxRetries \in Nat

VARIABLES
    upstream,    \* 42's collections
    pc,
    at,          \* index of the collection being fetched
    page, attempt,
    got,         \* the records of its pages so far
    changed,     \* it changed since its first page was asked for (history)
    snap,        \* the collections in Result.Snapshot, until they are stored
    photos,      \* Result.Photos, then those still to be saved
    stored,      \* the collections in the account's snapshot
    savedPhotos  \* table account_photos

vars == <<upstream, pc, at, page, attempt, got, changed, snap, photos, stored, savedPhotos>>

fetched == <<snap, photos>>
kept == <<stored, savedPhotos>>

Init ==
    /\ upstream \in [Names -> Lists]
    /\ pc = "idle" /\ at = 1 /\ page = 1 /\ attempt = 0
    /\ got = << >> /\ changed = FALSE
    /\ snap = << >> /\ photos = {} /\ stored = << >> /\ savedPhotos = {}

Put(f, x, v) == [y \in DOMAIN f \cup {x} |-> IF y = x THEN v ELSE f[y]]

FirstPage == page' = 1 /\ attempt' = 0 /\ got' = << >> /\ changed' = FALSE

Start ==
    /\ pc = "idle" /\ pc' = "me" /\ at' = 1 /\ FirstPage
    /\ snap' = << >> /\ photos' = {}
    /\ UNCHANGED <<upstream, kept>>

\* Fault: the retry asks for the next page.
RetryNextPage ==
    /\ pc \in {"me", "page"} /\ attempt < MaxRetries
    /\ attempt' = attempt + 1
    /\ page' = IF page < LastPage THEN page + 1 ELSE page
    /\ UNCHANGED <<upstream, pc, at, got, changed, fetched, kept>>

\* 429 or 5xx: back off and ask again for the same page.
Retry ==
    /\ pc \in {"me", "page"} /\ attempt < MaxRetries
    /\ attempt' = attempt + 1
    /\ UNCHANGED <<upstream, pc, at, page, got, changed, fetched, kept>>

\* /me failed, was unreadable or named nobody, or the cooldown refused the
\* user it named (afterMe).
MeFailed ==
    /\ pc = "me" /\ pc' = "idle"
    /\ UNCHANGED <<upstream, at, page, attempt, got, changed, fetched, kept>>

\* /me named the user and afterMe reserved a slot; then the photos, each of
\* which may fail or not exist.
MeFetched ==
    /\ pc = "me" /\ pc' = "page" /\ at' = 1 /\ FirstPage
    /\ photos' \in SUBSET Photos
    /\ UNCHANGED <<upstream, snap, kept>>

NextCollection ==
    /\ at' = at + 1 /\ FirstPage
    /\ pc' = IF at = Len(Collections) THEN "store" ELSE "page"

\* The collection's request failed (for good, or once too often), or its
\* answer was not an array: it is skipped.
Skip ==
    /\ pc = "page"
    /\ NextCollection
    /\ UNCHANGED <<upstream, fetched, kept>>

Page(list) ==
    LET first == (page - 1) * PageSize + 1
        last == IF first + PageSize - 1 < Len(list) THEN first + PageSize - 1 ELSE Len(list)
    IN  SubSeq(list, first, last)

\* Fault: only the advertised total ends a collection.
LastByTotal(records, all, total) == \E t \in total : Len(all) >= t

\* GetAll stops on a short page, or once it has the advertised total; total is
\* empty when the X-Total header was missing.
LastOf(records, all, total) ==
    \/ Len(records) < PageSize
    \/ \E t \in total : Len(all) >= t

PageFetched ==
    /\ pc = "page"
    /\ LET name == Collections[at]
           records == Page(upstream[name])
           all == got \o records
       IN  \E total \in {{}, {Len(upstream[name])}} :
              IF LastOf(records, all, total)
              THEN /\ snap' = Put(snap, name, all)
                   /\ NextCollection
              ELSE /\ got' = all /\ attempt' = 0
                   /\ page' = IF page < LastPage THEN page + 1 ELSE page
                   /\ UNCHANGED <<pc, at, changed, snap>>
    /\ UNCHANGED <<upstream, photos, kept>>

\* evalFrom: an evaluation is stored with the name of its project, looked up in the
\* same raw snapshot.
Named(list, known) == [i \in DOMAIN list |-> [of |-> list[i], named |-> list[i] \in known]]

\* Curate; what it cannot unmarshal is as good as absent.
Curated(raw, malformed) ==
    LET sound == DOMAIN raw \ malformed
        known == IF Projects \in sound THEN ToSet(raw[Projects]) ELSE {}
    IN  [n \in sound \ Dropped |-> IF n \in Evals THEN Named(raw[n], known) ELSE raw[n]]

\* data || $2, of which new is the second operand.
Merged(new) ==
    [n \in DOMAIN stored \cup DOMAIN new |-> IF n \in DOMAIN new THEN new[n] ELSE stored[n]]

\* Fault: the snapshot is replaced.
StoreAll ==
    /\ pc = "store" /\ pc' = "photos"
    /\ \E malformed \in SUBSET DOMAIN snap : stored' = Curated(snap, malformed)
    /\ snap' = << >>
    /\ UNCHANGED <<upstream, at, page, attempt, got, changed, photos, savedPhotos>>

\* UpdateSnapshot, the last use of the raw snapshot.
Store ==
    /\ pc = "store" /\ pc' = "photos"
    /\ \E malformed \in SUBSET DOMAIN snap : stored' = Merged(Curated(snap, malformed))
    /\ snap' = << >>
    /\ UNCHANGED <<upstream, at, page, attempt, got, changed, photos, savedPhotos>>

\* The statement failed, or its answer was lost: the photos are not saved.
StoreFailed ==
    /\ pc = "store" /\ pc' = "idle"
    /\ \/ \E malformed \in SUBSET DOMAIN snap : stored' = Merged(Curated(snap, malformed))
       \/ UNCHANGED stored
    /\ snap' = << >> /\ photos' = {}
    /\ UNCHANGED <<upstream, at, page, attempt, got, changed, savedPhotos>>

\* SavePhotos, in the map's random order; a variant that is nil keeps the
\* previous copy.
SavePhoto(v) ==
    /\ pc = "photos" /\ v \in photos
    /\ savedPhotos' = savedPhotos \cup {v}
    /\ photos' = photos \ {v}
    /\ UNCHANGED <<upstream, pc, at, page, attempt, got, changed, snap, stored>>

\* All are saved, or saving one failed, which is only logged.
PhotosDone ==
    /\ pc = "photos" /\ pc' = "idle" /\ photos' = {}
    /\ UNCHANGED <<upstream, at, page, attempt, got, changed, snap, kept>>

\* The user's data changes at 42.
Change(n) ==
    /\ \E l \in Lists : upstream' = [upstream EXCEPT ![n] = l]
    /\ changed' = (changed \/ (pc = "page" /\ Collections[at] = n))
    /\ UNCHANGED <<pc, at, page, attempt, got, fetched, kept>>

Proceed ==
    \/ Retry \/ MeFailed \/ MeFetched \/ Skip \/ PageFetched
    \/ Store \/ StoreFailed \/ PhotosDone
    \/ \E v \in Photos : SavePhoto(v)

Next == Start \/ Proceed \/ \E n \in Names : Change(n)

Spec == Init /\ [][Next]_vars

\* Every request is answered or times out, and so does every statement.
FairSpec == Spec /\ WF_vars(Proceed)

-----------------------------------------------------------------------------
(* Types; only collections that curation keeps are ever stored. *)
TypeOK ==
    /\ upstream \in [Names -> Lists]
    /\ pc \in {"idle", "me", "page", "store", "photos"}
    /\ at \in 1 .. Len(Collections) + 1 /\ (pc = "page" => at \in DOMAIN Collections)
    /\ page \in 1 .. LastPage /\ attempt \in 0 .. MaxRetries
    /\ changed \in BOOLEAN /\ photos \subseteq Photos /\ savedPhotos \subseteq Photos
    /\ DOMAIN snap \subseteq Names /\ DOMAIN stored \subseteq Names \ Dropped

(* A collection that did not change while it was fetched is fetched whole, in
   order and without duplicates, whatever was retried, with or without the
   total in the header, also where its last page is a full one. *)
FetchedWhole ==
    [][\A n \in Names :
          n \notin DOMAIN snap /\ n \in DOMAIN snap' /\ ~changed
              => snap'[n] = upstream[n]]_vars

\* What a stored collection was made of.
Raw(n, list) == IF n \in Evals THEN [i \in DOMAIN list |-> list[i].of] ELSE list

\* An evaluation that had the name of its project and stays without it.
Unnamed(n) ==
    {r \in Records : /\ [of |-> r, named |-> TRUE] \in ToSet(stored[n])
                     /\ [of |-> r, named |-> FALSE] \in ToSet(stored[n])'}

(* "a resource absent from a re-sync keeps its prior persisted value"
   (snapshot.go:161-163), and a photo its previous copy: whatever fails at 42, no
   collection is lost, and one that changes is the one that was fetched.  The names of
   projects are an exception that a failure does reach: a stored evaluation loses its
   own when a sync renews it without its project, which is no longer there or whose
   collection that sync did not get. *)
SkippedIsKept ==
    [][/\ DOMAIN stored \subseteq DOMAIN stored' /\ savedPhotos \subseteq savedPhotos'
       /\ \A n \in DOMAIN stored : stored'[n] # stored[n] =>
              n \in DOMAIN snap /\ Raw(n, stored'[n]) = snap[n]
       /\ \A n \in Evals \cap DOMAIN stored : \A r \in Unnamed(n) :
              \/ Projects \notin DOMAIN stored \/ stored'[Projects] = stored[Projects]
              \/ r \notin ToSet(stored'[Projects])]_vars

(* startSync's pull ends, however 42 answers and changes meanwhile. *)
PullEnds == pc # "idle" ~> pc = "idle"
=============================================================================
