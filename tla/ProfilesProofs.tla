--------------------------- MODULE ProfilesProofs ---------------------------
(***************************************************************************)
(* Whatever sections there are and however often they are fetched: a       *)
(* viewer sees what the owner chose, and the browser the photo that is     *)
(* stored.                                                                 *)
(*                                                                         *)
(* Two invariants, independent of each other.  Chosen ties the stored      *)
(* settings to what the owner last posted.  Fresh ties the cached photo of *)
(* the current snapshot to the stored one: it holds also while photos are  *)
(* being saved, where it says that whatever the browser keeps of the       *)
(* current snapshot came from a race, and it needs that no URL the browser *)
(* has seen is of a later fetch (Dated).                                   *)
(***************************************************************************)
EXTENDS Profiles, TLAPS

Visibilities == UNION {[S -> BOOLEAN] : S \in SUBSET Sections}

Rows == [id : Nat, synced : Nat, public : BOOLEAN, vis : Visibilities]

Shows(vis) == {s \in Sections : SectionPublic(vis, s)}

Chosen ==
    /\ choice \in Settings
    /\ ~Exists => choice = Defaults
    /\ Exists => /\ row \in Rows
                 /\ row.public = choice.public
                 /\ Shows(row.vis) = choice.sections

-----------------------------------------------------------------------------

(* Where nothing was saved, the defaults apply (SectionPublic). *)
LEMMA NothingSaved == Shows(<< >>) = Defaults.sections
<1>1. DOMAIN << >> = {}
    OBVIOUS
<1> QED
    BY <1>1 DEF Shows, SectionPublic, Defaults

(* What a form stores shows what the form had checked: the boxes it does not
   mention are stored as well (parseVisibilityForm). *)
LEMMA FormKept ==
    ASSUME NEW checked \in SUBSET Sections
    PROVE /\ ParseVisibilityForm(checked) \in Visibilities
          /\ Shows(ParseVisibilityForm(checked)) = checked
<1>1. ParseVisibilityForm(checked) \in [Sections -> BOOLEAN]
    BY DEF ParseVisibilityForm
<1>2. ParseVisibilityForm(checked) \in Visibilities
    BY <1>1 DEF Visibilities
<1>3. \A s \in Sections : SectionPublic(ParseVisibilityForm(checked), s) <=> s \in checked
    BY DEF ParseVisibilityForm, SectionPublic
<1> QED
    BY <1>2, <1>3 DEF Shows

(* Both forms of the settings page keep what is stored in step with what was
   posted. *)
LEMMA PostChosen ==
    ASSUME Chosen, NEW form \in Settings, PostSettings(form)
    PROVE Chosen'
<1>1. Exists /\ row \in Rows
    BY DEF PostSettings, Chosen
<1>2. /\ ParseVisibilityForm(form.sections) \in Visibilities
      /\ Shows(ParseVisibilityForm(form.sections)) = form.sections
    BY FormKept DEF Settings
<1>3. /\ row' = [row EXCEPT !.public = form.public, !.vis = ParseVisibilityForm(form.sections)]
      /\ choice' = form
    BY DEF PostSettings
<1>4. row' \in Rows /\ row'.public = form.public /\ row'.vis = ParseVisibilityForm(form.sections)
    BY <1>1, <1>2, <1>3 DEF Rows, Settings
<1>5. (row # NoRow)'
    BY <1>4 DEF Rows, NoRow
<1> QED
    BY <1>2, <1>3, <1>4, <1>5 DEF Chosen, Exists, Shows

(* A fetch date is a number. *)
LEMMA NowStep == now \in Nat /\ [Next]_vars => now' \in Nat
<1>1. CASE SignUp \/ Sync
    BY <1>1 DEF SignUp, Sync
<1>2. CASE UNCHANGED now
    BY <1>2
<1> QED
    BY <1>1, <1>2 DEF Next, vars, Save, Restore, PostSettings, SaveFails, DeleteAccount,
        SavePhoto, Open, ReadProfile, LinkPhoto, ReadPhoto, ServePhoto, Forget

(* The other steps leave the settings alone, and a new account has none. *)
LEMMA ChosenStep == now \in Nat /\ Chosen /\ [Next]_vars => Chosen'
<1> SUFFICES ASSUME now \in Nat, Chosen, [Next]_vars PROVE Chosen'
    OBVIOUS
<1>1. CASE Save
    BY <1>1, PostChosen DEF Save
<1>2. CASE Restore
    <2>1. [public |-> FALSE, sections |-> {s \in Sections : SectionPublic(<< >>, s)}] \in Settings
        BY DEF Settings
    <2> QED
        BY <1>2, <2>1, PostChosen DEF Restore
<1>3. CASE SignUp
    <2>1. << >> \in Visibilities
        <3>1. << >> \in [{} -> BOOLEAN]
            OBVIOUS
        <3> QED
            BY <3>1 DEF Visibilities
    <2>2. /\ row' = [id |-> now + 1, synced |-> now + 1, public |-> FALSE, vis |-> << >>]
          /\ choice' = choice /\ choice = Defaults
        BY <1>3 DEF SignUp, Chosen
    <2>3. row' \in Rows /\ row'.public = FALSE /\ row'.vis = << >>
        BY <2>1, <2>2 DEF Rows
    <2>4. (row # NoRow)'
        BY <2>3 DEF Rows, NoRow
    <2> QED
        BY <2>2, <2>3, <2>4, NothingSaved DEF Chosen, Exists, Shows, Defaults
<1>4. CASE Sync
    <2>1. row \in Rows /\ row' = [row EXCEPT !.synced = now + 1] /\ choice' = choice
        BY <1>4 DEF Sync, Chosen
    <2>2. row' \in Rows /\ row'.public = row.public /\ row'.vis = row.vis
        BY <2>1 DEF Rows
    <2>3. (row # NoRow)'
        BY <2>2 DEF Rows, NoRow
    <2> QED
        BY <1>4, <2>1, <2>2, <2>3 DEF Sync, Chosen, Exists, Shows
<1>5. CASE DeleteAccount
    <2>1. Defaults \in Settings
        BY DEF Defaults, Settings
    <2> QED
        BY <1>5, <2>1 DEF DeleteAccount, Chosen, Exists, Defaults
<1>6. CASE UNCHANGED <<row, choice>>
    BY <1>6 DEF Chosen, Exists, Shows
<1> QED
    BY <1>1, <1>2, <1>3, <1>4, <1>5, <1>6
       DEF Next, vars, SaveFails, SavePhoto, Open, ReadProfile, LinkPhoto, ReadPhoto,
           ServePhoto, Forget

(* A page that is built shows what was chosen: the only step that builds one is
   handleProfile's, which reads settings and data in one statement. *)
LEMMA BuiltAsChosen == Chosen /\ [Next]_vars =>
    (visit.pc = "open" /\ visit'.pc = "built" =>
        LET open == Filled \cap choice.sections IN
        /\ visit'.nobody => choice.public
        /\ visit'.page = IF visit'.owner
                         THEN [shown |-> Filled, badged |-> Filled \ open]
                         ELSE [shown |-> open, badged |-> {}])
<1> SUFFICES ASSUME Chosen, [Next]_vars, visit.pc = "open", visit'.pc = "built"
             PROVE LET open == Filled \cap choice.sections IN
                   /\ visit'.nobody => choice.public
                   /\ visit'.page = IF visit'.owner
                                    THEN [shown |-> Filled, badged |-> Filled \ open]
                                    ELSE [shown |-> open, badged |-> {}]
    OBVIOUS
<1>1. ReadProfile
    <2>1. visit' # visit /\ visit # Away
        BY DEF Away
    <2> QED
        BY <2>1 DEF Next, vars, Save, Restore, PostSettings, SignUp, Sync, SaveFails,
            DeleteAccount, SavePhoto, Open, LinkPhoto, ReadPhoto, ServePhoto, Forget
<1>2. ~Unavailable
      /\ visit' = [pc |-> "built", owner |-> Owner, nobody |-> visit.as = "nobody",
                   id |-> row.id, synced |-> row.synced, page |-> Build(Owner, row.vis)]
    BY <1>1 DEF ReadProfile, Leave, Away
<1>3. Exists /\ row.public = choice.public /\ Shows(row.vis) = choice.sections
    BY <1>2 DEF Unavailable, Chosen
<1>4. visit'.nobody => choice.public
    BY <1>2, <1>3 DEF Unavailable
<1>5. \A s \in Filled : SectionPublic(row.vis, s) <=> s \in choice.sections
    BY <1>3, ProfileAssumption DEF Shows
<1>6. visit'.page = Build(Owner, row.vis) /\ visit'.owner = Owner
    BY <1>2
<1>7. CASE Owner
    BY <1>4, <1>5, <1>6, <1>7 DEF Build
<1>8. CASE ~Owner
    BY <1>4, <1>5, <1>6, <1>8 DEF Build, Owner
<1> QED
    BY <1>7, <1>8

(* A viewer sees what the settings page let the owner choose, for any sections
   and defaults. *)
THEOREM ViewersSeeTheChosen == Spec => SeenAsChosen
<1>1. Init => now \in Nat /\ Chosen
    BY DEF Init, Chosen, Exists, Defaults, Settings
<1>2. (now \in Nat /\ Chosen) /\ [Next]_vars => (now \in Nat /\ Chosen)'
    BY NowStep, ChosenStep
<1> QED
    BY <1>1, <1>2, BuiltAsChosen, PTL DEF Spec, SeenAsChosen

-----------------------------------------------------------------------------

Dates == 0 .. now
Urls == Variants \X Dates

\* No snapshot, page or URL is of a fetch still to come.
Dated ==
    /\ now \in Nat
    /\ Exists => row.synced \in Dates
    /\ DOMAIN cache \subseteq Urls
    /\ visit.pc = "built" => visit.synced \in Dates
    /\ visit.pc \in {"linked", "served"} => visit.url \in Urls

Stored(u, photo) ==
    u[1] \notin saving /\ u[1] \in DOMAIN photos /\ photos[u[1]] = photo

\* u is a URL of the current snapshot.
Current(u) == Exists /\ u[2] = row.synced

Fresh ==
    /\ \A u \in DOMAIN cache \ raced : Current(u) => Stored(u, cache[u])
    /\ visit.pc = "served" /\ ~visit.early /\ Current(visit.url) =>
           Stored(visit.url, visit.photo)

FreshInv == Dated /\ Fresh

(* A sync and a sign-up begin a snapshot no URL is of yet. *)
LEMMA NewSnapshot ==
    ASSUME FreshInv, now' = now + 1, row'.synced = now',
           UNCHANGED <<photos, visit, cache, raced>>
    PROVE FreshInv'
<1>1. \A u \in Urls : u \in Urls' /\ u[2] # row'.synced
    BY DEF FreshInv, Dated, Urls, Dates
<1>2. Dated'
    <2>1. now' \in Nat /\ (Exists => row.synced \in Dates)'
        BY DEF FreshInv, Dated, Dates
    <2> QED
        BY <1>1, <2>1 DEF FreshInv, Dated, Dates
<1>3. Fresh'
    BY <1>1 DEF FreshInv, Dated, Fresh, Current, Stored
<1> QED
    BY <1>2, <1>3 DEF FreshInv

(* A sync or sign-up that runs saves photos that nobody has seen under the new
   URL but in a race. *)
LEMMA SavingStep ==
    ASSUME FreshInv, SaveFails \/ (\E v \in Variants : SavePhoto(v))
    PROVE FreshInv'
<1>1. UNCHANGED <<now, row, visit, cache, raced>> /\ saving' \subseteq saving
    BY DEF SaveFails, SavePhoto
<1>2. ASSUME NEW w, w \notin saving, w \in DOMAIN photos
      PROVE w \notin saving' /\ w \in DOMAIN photos' /\ photos'[w] = photos[w]
    <2>1. CASE SaveFails
        BY <1>2, <2>1 DEF SaveFails
    <2>2. ASSUME NEW v \in Variants, SavePhoto(v)
          PROVE w \in DOMAIN photos' /\ photos'[w] = photos[w]
        BY <1>2, <2>2 DEF SavePhoto
    <2> QED
        BY <1>1, <1>2, <2>1, <2>2
<1>3. Dated'
    BY <1>1 DEF FreshInv, Dated, Urls, Dates, Exists
<1>4. Fresh'
    BY <1>1, <1>2 DEF FreshInv, Fresh, Current, Stored, Exists
<1> QED
    BY <1>3, <1>4 DEF FreshInv

(* Settings change neither fetch nor photo. *)
LEMMA SettingsStep ==
    ASSUME FreshInv, Chosen, NEW form \in Settings, PostSettings(form)
    PROVE FreshInv'
<1>1. Exists /\ row'.synced = row.synced /\ UNCHANGED <<now, photos, saving, visit, cache, raced>>
    BY DEF PostSettings, Chosen, Rows
<1> QED
    BY <1>1 DEF FreshInv, Dated, Urls, Dates, Fresh, Current, Stored

(* An answer is put in the cache as it was read: stored and settled, or marked
   as raced. *)
LEMMA ServeStep ==
    ASSUME FreshInv, ServePhoto
    PROVE FreshInv'
<1>1. visit.pc = "served" /\ visit' = Away /\ UNCHANGED <<now, row, photos, saving>>
    BY DEF ServePhoto, Leave
<1>2. CASE UNCHANGED <<cache, raced>>
    BY <1>1, <1>2 DEF FreshInv, Dated, Urls, Dates, Fresh, Current, Stored, Exists, Away
<1>3. CASE /\ cache' = [u \in DOMAIN cache \cup {visit.url} |->
                           IF u = visit.url THEN visit.photo ELSE cache[u]]
           /\ raced' = IF visit.early THEN raced \cup {visit.url} ELSE raced
    <2>1. Dated'
        BY <1>1, <1>3 DEF FreshInv, Dated, Urls, Dates, Exists, Away
    <2>2. ASSUME NEW u \in DOMAIN cache' \ raced', Current(u)
          PROVE Stored(u, cache'[u])
        <3>1. CASE u = visit.url
            <4>1. ~visit.early
                BY <1>3, <2>2, <3>1
            <4> QED
                BY <1>1, <1>3, <2>2, <3>1, <4>1 DEF FreshInv, Fresh
        <3>2. CASE u # visit.url
            BY <1>3, <2>2, <3>2 DEF FreshInv, Fresh
        <3> QED
            BY <3>1, <3>2
    <2> QED
        BY <1>1, <2>1, <2>2 DEF FreshInv, Fresh, Current, Stored, Exists, Away
<1> QED
    BY <1>2, <1>3 DEF ServePhoto

(* The steps of a visit up to the answer. *)
LEMMA VisitStep ==
    ASSUME FreshInv, Open \/ ReadProfile \/ LinkPhoto \/ ReadPhoto
    PROVE FreshInv'
<1>1. UNCHANGED <<now, row, photos, saving, cache, raced>>
    BY DEF Open, ReadProfile, LinkPhoto, ReadPhoto
<1>2. CASE Open
    BY <1>1, <1>2 DEF Open, FreshInv, Dated, Urls, Dates, Fresh, Current, Stored, Exists
<1>3. CASE ReadProfile
    <2>1. CASE visit' = Away
        BY <1>1, <2>1 DEF FreshInv, Dated, Urls, Dates, Fresh, Current, Stored, Exists, Away
    <2>2. CASE ~Unavailable
        <3>1. visit'.pc = "built" /\ visit'.synced = row.synced /\ Exists
            BY <1>3, <2>2 DEF ReadProfile, Unavailable
        <3> QED
            BY <1>1, <3>1 DEF FreshInv, Dated, Urls, Dates, Fresh, Current, Stored, Exists
    <2> QED
        BY <1>3, <2>1, <2>2 DEF ReadProfile, Leave
<1>4. CASE LinkPhoto
    <2>1. CASE visit' = Away
        BY <1>1, <2>1 DEF FreshInv, Dated, Urls, Dates, Fresh, Current, Stored, Exists, Away
    <2>2. ASSUME NEW v \in Variants, visit' = [pc |-> "linked", url |-> Url(v, visit)]
          PROVE FreshInv'
        <3>1. Url(v, visit) \in Urls
            BY <1>4 DEF LinkPhoto, FreshInv, Dated, Url, Urls
        <3> QED
            BY <1>1, <2>2, <3>1 DEF FreshInv, Dated, Urls, Dates, Fresh, Current, Stored, Exists
    <2> QED
        BY <1>4, <2>1, <2>2 DEF LinkPhoto, Leave, Variants
<1>5. CASE ReadPhoto
    <2>1. CASE visit' = Away
        BY <1>1, <2>1 DEF FreshInv, Dated, Urls, Dates, Fresh, Current, Stored, Exists, Away
    <2>2. CASE /\ visit.url[1] \in DOMAIN photos
               /\ visit' = [pc |-> "served", url |-> visit.url, photo |-> photos[visit.url[1]],
                            public |-> row.public, early |-> visit.url[1] \in saving]
        <3>1. visit.url \in Urls
            BY <1>5 DEF ReadPhoto, FreshInv, Dated
        <3>2. Dated'
            BY <1>1, <2>2, <3>1 DEF FreshInv, Dated, Urls, Dates, Exists
        <3>3. ~visit'.early => Stored(visit'.url, visit'.photo)
            BY <2>2 DEF Stored
        <3> QED
            BY <1>1, <3>2, <3>3 DEF FreshInv, Fresh, Current, Stored, Exists
    <2> QED
        BY <1>5, <2>1, <2>2 DEF ReadPhoto, Leave
<1> QED
    BY <1>2, <1>3, <1>4, <1>5

(* Every step keeps the cache in step with the photos. *)
LEMMA FreshStep == FreshInv /\ Chosen /\ [Next]_vars => FreshInv'
<1> SUFFICES ASSUME FreshInv, Chosen, [Next]_vars PROVE FreshInv'
    OBVIOUS
<1>1. CASE Save
    BY <1>1, SettingsStep DEF Save
<1>2. CASE Restore
    <2>1. [public |-> FALSE, sections |-> {s \in Sections : SectionPublic(<< >>, s)}] \in Settings
        BY DEF Settings
    <2> QED
        BY <1>2, <2>1, SettingsStep DEF Restore
<1>3. CASE SignUp
    BY <1>3, NewSnapshot DEF SignUp
<1>4. CASE Sync
    <2>1. row'.synced = now' /\ UNCHANGED <<photos, visit, cache, raced>>
        BY <1>4 DEF Sync, Chosen, Rows
    <2> QED
        BY <1>4, <2>1, NewSnapshot DEF Sync
<1>5. CASE SaveFails \/ \E v \in Variants : SavePhoto(v)
    BY <1>5, SavingStep
<1>6. CASE DeleteAccount
    BY <1>6 DEF DeleteAccount, FreshInv, Dated, Urls, Dates, Fresh, Current, Exists
<1>7. CASE Open \/ ReadProfile \/ LinkPhoto \/ ReadPhoto
    BY <1>7, VisitStep
<1>8. CASE ServePhoto
    BY <1>8, ServeStep
<1>9. CASE Forget
    <2>1. PICK u \in DOMAIN cache :
              cache' = Restrict(cache, DOMAIN cache \ {u}) /\ raced' = raced \ {u}
        BY <1>9 DEF Forget
    <2>2. /\ DOMAIN cache' = DOMAIN cache \ {u}
          /\ \A w \in DOMAIN cache' : cache'[w] = cache[w]
        BY <2>1 DEF Restrict
    <2>3. UNCHANGED <<now, row, photos, saving, visit>>
        BY <1>9 DEF Forget
    <2> QED
        BY <2>1, <2>2, <2>3 DEF FreshInv, Dated, Urls, Dates, Fresh, Current, Stored, Exists
<1>10. CASE UNCHANGED vars
    BY <1>10 DEF vars, FreshInv, Dated, Urls, Dates, Fresh, Current, Stored, Exists
<1> QED
    BY <1>1, <1>2, <1>3, <1>4, <1>5, <1>6, <1>7, <1>8, <1>9, <1>10 DEF Next

(* Nothing is cached before anything was asked for. *)
LEMMA FreshInit == Init => FreshInv
BY DEF Init, FreshInv, Dated, Urls, Dates, Fresh, Current, Exists, Away

(* The browser shows the stored photo on a page of the current snapshot unless
   its request fell between snapshot and photo (setPhotoURLs). *)
THEOREM PhotosAreFresh == Spec => []PhotoFresh
<1>1. Init => now \in Nat /\ Chosen
    BY DEF Init, Chosen, Exists, Defaults, Settings
<1>2. (now \in Nat /\ Chosen) /\ [Next]_vars => (now \in Nat /\ Chosen)'
    BY NowStep, ChosenStep
<1>3. FreshInv => PhotoFresh
    <2> SUFFICES ASSUME FreshInv, Exists, NEW v \in Variants,
                        Url(v, row) \in DOMAIN cache \ raced
                 PROVE v \in DOMAIN photos /\ photos[v] = cache[Url(v, row)]
        BY DEF PhotoFresh
    <2>1. Url(v, row)[1] = v /\ Current(Url(v, row))
        BY DEF Url, Current
    <2> QED
        BY <2>1 DEF FreshInv, Fresh, Stored
<1> QED
    BY <1>1, <1>2, <1>3, FreshInit, FreshStep, PTL DEF Spec
=============================================================================
