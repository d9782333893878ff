------------------------------- MODULE Profiles -------------------------------
(***************************************************************************)
(* A profile and who sees what of it: the owner's settings (handleSettings *)
(* and settings.templ), the dashboard assembled for a viewer (handleProfile*)
(* and view/build.go), and the photo, which the page only links to         *)
(* (setPhotoURLs, handlePhoto) and the browser keeps for a day, while      *)
(* syncs replace snapshot and photos one after the other (startSync,       *)
(* handleSignup).                                                          *)
(*                                                                         *)
(* One profile and one browser, whose user may be anybody.  Time is the    *)
(* number of fetches so far, which stands for fetched_at and for the photo *)
(* that a fetch found.                                                     *)
(***************************************************************************)
EXTENDS Naturals, Functions

CONSTANTS Sections,           \* ToggleableSections
          PrivateByDefault,   \* sectionPrivateByDefault
          Filled,             \* sections the snapshot has data for
          MaxFetches          \* bound

ASSUME ProfileAssumption ==
    PrivateByDefault \subseteq Sections /\ Filled \subseteq Sections /\ MaxFetches \in Nat

Variants == {"original", "small"}

VARIABLES
    now,       \* fetches so far
    row,       \* the account, or NoRow
    photos,    \* its account_photos: variant -> fetch
    saving,    \* variants the sync or sign-up under way has yet to save
    visit,     \* what the browser is doing
    cache,     \* photos the browser keeps: URL -> fetch
    choice,    \* the settings the owner last posted, or the defaults (history)
    raced      \* URLs answered while their fetch's photo was not saved yet (history)

vars == <<now, row, photos, saving, visit, cache, choice, raced>>

NoRow == [id |-> 0]
Exists == row # NoRow

Settings == [public : BOOLEAN, sections : SUBSET Sections]
Defaults == [public |-> FALSE, sections |-> Sections \ PrivateByDefault]

Away == [pc |-> "away"]

Init ==
    /\ now = 0 /\ row = NoRow /\ photos = << >> /\ saving = {}
    /\ visit = Away /\ cache = << >> /\ choice = Defaults /\ raced = {}

-----------------------------------------------------------------------------
(* Settings. *)

SectionPublic(vis, s) == IF s \in DOMAIN vis THEN vis[s] ELSE s \notin PrivateByDefault

\* Fault: only what is checked is stored.
ParseChecked(checked) == [s \in checked |-> TRUE]

\* parseVisibilityForm: a checkbox that is not checked is not in the form.
ParseVisibilityForm(checked) == [s \in Sections |-> s \in checked]

\* handleSettings up to UpdateVisibility.
PostSettings(form) ==
    /\ Exists
    /\ row' = [row EXCEPT !.public = form.public, !.vis = ParseVisibilityForm(form.sections)]
    /\ choice' = form
    /\ UNCHANGED <<now, photos, saving, visit, cache, raced>>

\* The form of the page, with any of its boxes changed before it is posted.
Save == \E form \in Settings : PostSettings(form)

\* The other form holds a hidden field for each section public by default.
Restore == PostSettings([public |-> FALSE,
                         sections |-> {s \in Sections : SectionPublic(<< >>, s)}])

-----------------------------------------------------------------------------
(* Snapshots and photos. *)

\* CreateAccount; savePhotos follows.
SignUp ==
    /\ ~Exists /\ now < MaxFetches
    /\ now' = now + 1
    /\ row' = [id |-> now', synced |-> now', public |-> FALSE, vis |-> << >>]
    /\ saving' = Variants
    /\ UNCHANGED <<photos, visit, cache, choice, raced>>

\* UpdateSnapshot; savePhotos follows.  The cooldown keeps the next sync away.
Sync ==
    /\ Exists /\ saving = {} /\ now < MaxFetches
    /\ now' = now + 1
    /\ row' = [row EXCEPT !.synced = now']
    /\ saving' = Variants
    /\ UNCHANGED <<photos, visit, cache, choice, raced>>

\* SavePhotos, in the order of a Go map.  A variant that was not fetched keeps
\* its previous copy.
SavePhoto(v) ==
    /\ v \in saving
    /\ saving' = saving \ {v}
    /\ photos' \in {photos, [w \in DOMAIN photos \cup {v} |-> IF w = v THEN now ELSE photos[w]]}
    /\ UNCHANGED <<now, row, visit, cache, choice, raced>>

\* An error ends SavePhotos, and so does a crash.
SaveFails ==
    /\ saving # {} /\ saving' = {}
    /\ UNCHANGED <<now, row, photos, visit, cache, choice, raced>>

\* The photos go with the account; one saved later has no row to refer to.
DeleteAccount ==
    /\ Exists
    /\ row' = NoRow /\ photos' = << >> /\ saving' = {} /\ choice' = Defaults
    /\ UNCHANGED <<now, visit, cache, raced>>

-----------------------------------------------------------------------------
(* A visit.  Pages are not kept by the browser (no-store). *)

Leave == visit' = Away

\* currentAccount: nobody, somebody else, the owner, or the owner unverified.
Open ==
    /\ visit = Away
    /\ \/ visit' = [pc |-> "open", as |-> "nobody"]
       \/ visit' = [pc |-> "open", as |-> "other"]
       \/ Exists /\ \E verified \in BOOLEAN :
              visit' = [pc |-> "open", as |-> "owner", id |-> row.id, verified |-> verified]
    /\ UNCHANGED <<now, row, photos, saving, cache, choice, raced>>

\* The viewer's account is this one: not if it was deleted and made anew.
Owner == visit.as = "owner" /\ visit.id = row.id

\* Build: includeSection for each section.
Build(owner, vis) ==
    [shown |-> {s \in Filled : owner \/ SectionPublic(vis, s)},
     badged |-> {s \in Filled : owner /\ ~SectionPublic(vis, s)}]

\* AccountByLogin finds nothing, or the viewer is sent elsewhere.
Unavailable ==
    \/ ~Exists
    \/ Owner /\ ~visit.verified
    \/ visit.as = "nobody" /\ ~row.public

ReadProfile ==
    /\ visit.pc = "open"
    /\ IF Unavailable THEN Leave
       ELSE visit' = [pc |-> "built", owner |-> Owner, nobody |-> visit.as = "nobody",
                      id |-> row.id, synced |-> row.synced, page |-> Build(Owner, row.vis)]
    /\ UNCHANGED <<now, row, photos, saving, cache, choice, raced>>

\* Fault: the URL of a photo does not change with the snapshot.
UrlUndated(v, account) == <<v, account.id>>

\* ?synced= is fetched_at in seconds, for which the number of the fetch stands: a user's
\* fetches are a cooldown apart.
Url(v, account) == <<v, account.synced>>

Has == IF Exists /\ row.id = visit.id THEN DOMAIN photos ELSE {}

\* setPhotoURLs: the page shows the small copy and links to the original, or uses the
\* only one for what it can; the browser fetches either.
LinkPhoto ==
    /\ visit.pc = "built"
    /\ \/ Has = {} /\ Leave
       \/ \E v \in Has \cap Variants : visit' = [pc |-> "linked", url |-> Url(v, visit)]
    /\ UNCHANGED <<now, row, photos, saving, cache, choice, raced>>

\* PhotoByLogin; a copy in the browser makes it needless.
ReadPhoto ==
    /\ visit.pc = "linked"
    /\ LET v == visit.url[1] IN
          IF visit.url \in DOMAIN cache \/ v \notin DOMAIN photos THEN Leave
          ELSE visit' = [pc |-> "served", url |-> visit.url, photo |-> photos[v],
                         public |-> row.public, early |-> v \in saving]
    /\ UNCHANGED <<now, row, photos, saving, cache, choice, raced>>

\* currentAccount once more: the session may have begun or ended since.
ServePhoto ==
    /\ visit.pc = "served" /\ Leave
    /\ \/ /\ cache' = [u \in DOMAIN cache \cup {visit.url} |->
                          IF u = visit.url THEN visit.photo ELSE cache[u]]
          /\ raced' = IF visit.early THEN raced \cup {visit.url} ELSE raced
       \/ ~visit.public /\ UNCHANGED <<cache, raced>>
    /\ UNCHANGED <<now, row, photos, saving, choice>>

\* max-age, or the browser needs the space.
Forget ==
    /\ \E u \in DOMAIN cache :
          cache' = Restrict(cache, DOMAIN cache \ {u}) /\ raced' = raced \ {u}
    /\ UNCHANGED <<now, row, photos, saving, visit, choice>>

Next ==
    \/ Save \/ Restore
    \/ SignUp \/ Sync \/ SaveFails \/ DeleteAccount \/ \E v \in Variants : SavePhoto(v)
    \/ Open \/ ReadProfile \/ LinkPhoto \/ ReadPhoto \/ ServePhoto \/ Forget

Spec == Init /\ [][Next]_vars

-----------------------------------------------------------------------------
(* What a viewer gets to see is what the settings page let the owner choose:
   a stranger only a profile made viewable without an account, everybody but
   the owner exactly the sections that were checked, or are public by default
   where nothing was ever saved, and the owner all of them, those kept from
   others marked as such. *)
SeenAsChosen ==
    [][visit.pc = "open" /\ visit'.pc = "built" =>
          LET open == Filled \cap choice.sections IN
          /\ visit'.nobody => choice.public
          /\ visit'.page = IF visit'.owner
                           THEN [shown |-> Filled, badged |-> Filled \ open]
                           ELSE [shown |-> open, badged |-> {}]]_vars

(* "The ?synced= changes on every sync, so a re-synced photo isn't served from
   cache" (setPhotoURLs): what the browser would show on a page of the current
   snapshot is the stored photo, unless this browser asked for it after the
   snapshot was updated and before the photo was.  That answer stays for a day. *)
PhotoFresh ==
    Exists /\ saving = {} =>
        \A v \in Variants :
            LET u == Url(v, row) IN
            u \in DOMAIN cache \ raced => v \in DOMAIN photos /\ photos[v] = cache[u]
=============================================================================
