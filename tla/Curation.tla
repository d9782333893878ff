------------------------------ MODULE Curation ------------------------------
(***************************************************************************)
(* An evaluation on its way from 42 to a profile: what curation keeps of   *)
(* it (evalFrom in snapshot/snapshot.go) and how it is shown (buildEvals   *)
(* in view/build.go).                                                      *)
(*                                                                         *)
(* A text is a sequence of letters; a login is one too.  "'s group" or     *)
(* "'s team" in a team's name is the one symbol Group.  Marks, flags,      *)
(* dates and the project are left out: they name nobody.                   *)
(***************************************************************************)
EXTENDS SequencesExt

CONSTANTS Letter,
          Login,      \* the login of each person
          Owner,      \* whose snapshot it is
          NoOne

Group == "'s group"
Redacted == "[redacted]"

People == DOMAIN Login

\* A login is not empty and holds none of the symbols.
ASSUME PeopleAssumption ==
    /\ Group \notin Letter /\ Redacted \notin Letter
    /\ Owner \in People /\ NoOne \notin People
    /\ IsFiniteSet(People)
    /\ \A p \in People : Login[p] \in Seq(Letter) \ {<< >>}

Symbol == Letter \cup {Group, Redacted}
Text == Seq(Symbol)

\* scale_team: what the mappers read of it.
ScaleTeam ==
    [corrector : People, truant : People \cup {NoOne}, correcteds : SUBSET People,
     feedbacks : Seq([user : People, comment : Text]),
     team : [name : Text, users : SUBSET People],
     comment : Text]

Participants(st) ==
    {st.corrector, st.truant} \cup st.correcteds \cup st.team.users
        \cup {st.feedbacks[i].user : i \in DOMAIN st.feedbacks}

\* Fault: who left feedback is looked for in the team only.
OthersInTeam(st) == ({st.corrector, st.truant} \cup st.correcteds \cup st.team.users) \ {Owner, NoOne}

Others(st) == Participants(st) \ {Owner, NoOne}

\* Where a login stands in a text: its first and its last position.
Occurrences(login, text) ==
    {r \in (1 .. Len(text)) \X (1 .. Len(text)) : SubSeq(text, r[1], r[2]) = login}

Positions(r) == r[1] .. r[2]

\* A mark for every letter: how long a mark is makes no difference below.
Mask(text, ranges) ==
    [i \in DOMAIN text |-> IF \E r \in ranges : i \in Positions(r) THEN Redacted ELSE text[i]]

\* From the left, each occurrence that does not overlap the one found before it.
FromTheLeft(login, text) ==
    CHOOSE found \in SUBSET Occurrences(login, text) :
        \A r \in Occurrences(login, text) :
            r \in found <=> ~ \E c \in found : c[1] < r[1] /\ r[1] <= c[2]

\* strings.ReplaceAll, with a replacement that holds no login.
Erase(text, login) == Mask(text, FromTheLeft(login, text))

\* Fault: the order is the other way around.
ShortestFirst(logins) ==
    CHOOSE order \in [1 .. Cardinality(logins) -> logins] :
        /\ \A login \in logins : \E i \in DOMAIN order : order[i] = login
        /\ \A i, j \in DOMAIN order : i < j => Len(order[i]) <= Len(order[j])

LongestFirst(logins) ==
    CHOOSE order \in [1 .. Cardinality(logins) -> logins] :
        /\ \A login \in logins : \E i \in DOMAIN order : order[i] = login
        /\ \A i, j \in DOMAIN order : i < j => Len(order[i]) >= Len(order[j])

\* loginScrubber
Scrub(people, text) ==
    LET order == LongestFirst({Login[p] : p \in people})
        scrubbed[n \in 0 .. Len(order)] ==
            IF n = 0 THEN text ELSE Erase(scrubbed[n - 1], order[n])
    IN  scrubbed[Len(order)]

GenericTeamName(name) == Contains(name, Group)

\* The owner's login is taken as known: a pull ends before anything is curated where /me
\* names no user (fetch.go), and 42 gives the id of a user with the login.
EvalFrom(st) ==
    LET scrub(text) == Scrub(Others(st), text)
        team == scrub(st.team.name)
    IN  [team |-> IF GenericTeamName(team) THEN << >> ELSE team,
         comment |-> scrub(st.comment),
         feedbacks |-> [i \in DOMAIN st.feedbacks |->
                          [author |-> IF st.feedbacks[i].user = Owner THEN Owner ELSE NoOne,
                           comment |-> scrub(st.feedbacks[i].comment)]],
         legacy |-> << >>]

\* What a sync stored before feedbacks were kept as a list: the first entry,
\* without its author.
LegacyEvalFrom(st) ==
    LET e == EvalFrom(st)
    IN  [e EXCEPT !.feedbacks = << >>,
                  !.legacy = IF e.feedbacks = << >> THEN << >>
                             ELSE <<[author |-> NoOne, comment |-> Head(e.feedbacks).comment]>>]

AllFeedbacks(e) == IF e.feedbacks # << >> THEN e.feedbacks ELSE e.legacy

\* Fault: on "received", whatever has no author is taken for the owner's.
BuildEntriesGuessing(given, e) ==
    [i \in DOMAIN AllFeedbacks(e) |->
        IF ~given /\ AllFeedbacks(e)[i].author = NoOne
        THEN [AllFeedbacks(e)[i] EXCEPT !.author = Owner] ELSE AllFeedbacks(e)[i]]

\* The responses on a card of buildEvals.  A legacy entry on "received" is
\* taken for the owner's.
BuildEntries(given, e) ==
    [i \in DOMAIN AllFeedbacks(e) |->
        IF ~given /\ e.feedbacks = << >>
        THEN [AllFeedbacks(e)[i] EXCEPT !.author = Owner] ELSE AllFeedbacks(e)[i]]

-----------------------------------------------------------------------------
\* What is to become of a text: some of the names in it are masked where they stand,
\* and nothing else is.  They do not overlap, and a name that is left overlaps one at
\* least as long: what is left of it is not part of a longer name that was cut short.
NamesMasked(people, text, stored) ==
    LET Names == UNION {Occurrences(Login[p], text) : p \in people}
        overlap(r, c) == Positions(r) \cap Positions(c) # {}
    IN  \E masked \in SUBSET Names :
            /\ stored = Mask(text, masked)
            /\ \A r, c \in masked : overlap(r, c) => r = c
            /\ \A r \in Names : \E c \in masked : overlap(r, c) /\ c[2] - c[1] >= r[2] - r[1]
=============================================================================
