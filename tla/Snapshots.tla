------------------------------ MODULE Snapshots ------------------------------
(***************************************************************************)
(* What the store makes of a sync: the curated snapshot, of which a        *)
(* resource that was not fetched keeps its previous value                  *)
(* (UpdateSnapshot); the index of campus time zones, kept in memory after  *)
(* the row is written and loaded at start (noteCampusZone,                 *)
(* loadCampusZones); and the counter of downloads, kept in memory and      *)
(* persisted behind the request (IncrementDownloads).  The counter of      *)
(* profiles works alike.                                                   *)
(*                                                                         *)
(* The owner and a mate of the same campus; of the owner's snapshot, one   *)
(* evaluation is followed.                                                 *)
(***************************************************************************)
EXTENDS Curation, FiniteSets

CONSTANTS
    Mate,           \* another account of the owner's campus
    Records,        \* what 42 may hold of the evaluation
    Zone,           \* the campus's time zone
    MaxDownloads    \* bound

Accounts == {Owner, Mate}
NoZone == ""

ASSUME SnapshotAssumption ==
    /\ Mate # Owner /\ Zone # NoZone
    /\ Records \subseteq [given : BOOLEAN, st : ScaleTeam]

NoEval == [none |-> TRUE]

VARIABLES
    at42,        \* the evaluation at 42, and its direction
    rows,        \* accounts: id -> campus_time_zone of the stored profile
    newest,      \* the account with the latest fetched_at
    eval,        \* the owner's stored evaluation
    fetched,     \* it came from a sync that knew lists of feedback (history)
    noting,      \* syncs between writing the row and noteCampusZone
    unnoted,     \* accounts whose row holds a zone that no one noted, since the statement
                 \* that wrote it reported an error in this process (history)
    zones,       \* campusZones of the one campus
    downloads,   \* s.downloads
    table,       \* stats.downloads
    writing,     \* updates of the table under way, by the count that led to them
    served,      \* downloads so far (history)
    lost         \* updates that failed or died with a process (history)

vars == <<at42, rows, newest, eval, fetched, noting, unnoted, zones,
          downloads, table, writing, served, lost>>

snapVars == <<at42, rows, newest, eval, fetched, noting, unnoted, zones>>
statVars == <<downloads, table, writing, served, lost>>

\* Fault: the newest snapshot of the campus speaks for it, with a zone or not.
LoadNewestRow ==
    IF newest \in DOMAIN rows THEN rows[newest] ELSE NoZone

\* loadCampusZones: the newest snapshot that has a zone.
LoadCampusZones ==
    IF \E a \in DOMAIN rows : rows[a] # NoZone THEN Zone ELSE NoZone

\* A database as an earlier version left it, where zones were not fetched yet,
\* and the server just started.
Init ==
    /\ at42 \in Records
    /\ \E S \in SUBSET Accounts : rows = [a \in S |-> NoZone]
    /\ newest \in Accounts
    /\ eval \in {NoEval} \cup IF Owner \in DOMAIN rows
                              THEN {LegacyEvalFrom(at42.st)} ELSE {}
    /\ fetched = FALSE
    /\ noting = {} /\ unnoted = {} /\ zones = LoadCampusZones
    /\ downloads = 0 /\ table = 0 /\ writing = {} /\ served = 0 /\ lost = 0

-----------------------------------------------------------------------------
(* Syncs. *)

\* The row after CreateAccount or UpdateSnapshot: /me, which every sync has, says the
\* zone, or not; the evaluations may be missing.
Written(a, zone) ==
    /\ rows' = [b \in DOMAIN rows \cup {a} |-> IF b = a THEN zone ELSE rows[b]]
    /\ newest' = a
    /\ \/ /\ a = Owner
          /\ eval' = EvalFrom(at42.st)
          /\ fetched' = TRUE
       \/ UNCHANGED <<eval, fetched>>
    /\ UNCHANGED <<at42, zones, statVars>>

Store(a) ==
    /\ a \notin noting
    /\ \E zone \in {Zone, NoZone} :
          /\ Written(a, zone)
          /\ noting' = IF zone = NoZone THEN noting ELSE noting \cup {a}
    /\ unnoted' = unnoted \ {a}

\* The row is written and the answer lost, as when the visitor who signs up is gone:
\* the zone is noted only where err is nil.
StoreUnanswered(a) ==
    /\ a \notin noting
    /\ \E zone \in {Zone, NoZone} :
          /\ Written(a, zone)
          /\ unnoted' = IF zone = NoZone THEN unnoted \ {a} ELSE unnoted \cup {a}
    /\ UNCHANGED noting

NoteCampusZone(a) ==
    /\ a \in noting /\ noting' = noting \ {a}
    /\ zones' = Zone
    /\ UNCHANGED <<at42, rows, newest, eval, fetched, unnoted, statVars>>

DeleteAccount(a) ==
    /\ a \in DOMAIN rows
    /\ rows' = [b \in DOMAIN rows \ {a} |-> rows[b]]
    /\ eval' = IF a = Owner THEN NoEval ELSE eval
    /\ fetched' = (fetched /\ a # Owner)
    /\ unnoted' = unnoted \ {a}
    /\ UNCHANGED <<at42, newest, noting, zones, statVars>>

-----------------------------------------------------------------------------
(* The counter. *)

\* A download; the goroutine counts, and starts another that writes.
IncrementDownloads ==
    /\ served < MaxDownloads
    /\ served' = served + 1
    /\ downloads' = downloads + 1
    /\ writing' = writing \cup {downloads'}
    /\ UNCHANGED <<snapVars, table, lost>>

\* Fault: the count is written rather than added to.
PersistCount(n) ==
    /\ n \in writing /\ writing' = writing \ {n}
    /\ table' = n
    /\ UNCHANGED <<snapVars, downloads, served, lost>>

\* UPDATE stats SET downloads = downloads + 1
Persist(n) ==
    /\ n \in writing /\ writing' = writing \ {n}
    /\ table' = table + 1
    /\ UNCHANGED <<snapVars, downloads, served, lost>>

\* Its error goes unnoticed.
PersistFails(n) ==
    /\ n \in writing /\ writing' = writing \ {n}
    /\ lost' = lost + 1
    /\ UNCHANGED <<snapVars, downloads, table, served>>

\* The process dies and Open loads what it kept in memory.
Restart ==
    /\ noting' = {} /\ unnoted' = {} /\ zones' = LoadCampusZones
    /\ downloads' = table /\ writing' = {} /\ lost' = lost + Cardinality(writing)
    /\ UNCHANGED <<at42, rows, newest, eval, fetched, table, served>>

Next ==
    \/ \E a \in Accounts : Store(a) \/ StoreUnanswered(a) \/ NoteCampusZone(a) \/ DeleteAccount(a)
    \/ IncrementDownloads
    \/ \E n \in writing : Persist(n) \/ PersistFails(n)
    \/ Restart

Spec == Init /\ [][Next]_vars

-----------------------------------------------------------------------------
(* "every identity that isn't the account owner's ... is stripped"
   (snapshot.go:1-5): in every kept text of an evaluation, the logins of those who
   took part are masked, wherever in the record these people are named, longest
   first "so one that is a prefix of another can't partially match"
   (snapshot.go:440-442), and nothing else is; and no author but the owner is kept. *)
StrangersRemoved ==
    eval # NoEval =>
        LET st == at42.st
            masked(text, stored) == NamesMasked(Participants(st) \ {Owner, NoOne}, text, stored)
        IN  /\ masked(st.comment, eval.comment)
            /\ eval.team = << >> \/ masked(st.team.name, eval.team)
            /\ \A i \in DOMAIN AllFeedbacks(eval) :
                  /\ AllFeedbacks(eval)[i].author \in {Owner, NoOne}
                  /\ masked(st.feedbacks[i].comment, AllFeedbacks(eval)[i].comment)

(* The profile attributes a feedback to its owner only when the owner wrote it;
   the guess it makes for legacy entries is over with the first sync that
   fetched the evaluations, and stays over when later syncs fail to. *)
AuthorsTrue ==
    fetched =>
        LET shown == BuildEntries(at42.given, eval)
        IN  /\ DOMAIN shown = DOMAIN at42.st.feedbacks
            /\ \A i \in DOMAIN shown :
                  shown[i].author = Owner <=> at42.st.feedbacks[i].user = Owner

(* "one account that has it saved tells us the zone for every other account at
   the same campus" (store.go:648-654): a profile stored without a zone is
   rendered in campus time as long as any stored profile of the campus has one,
   through restarts and deletions.  Two kinds of rows do not speak for the campus:
   one that was only just written, and one whose statement reported an error, until
   the account's next sync or the next start. *)
ZoneKnown ==
    (\E a \in DOMAIN rows \ (noting \cup unnoted) : rows[a] # NoZone) => zones # NoZone

(* No download is counted twice and none is dropped but by an update that
   failed or died with its process, in whatever order updates land; memory is
   ahead of the table exactly by updates that are under way or failed since
   the last start. *)
CountersAgree ==
    /\ table + Cardinality(writing) + lost = served
    /\ table + Cardinality(writing) <= downloads /\ downloads <= served
=============================================================================
