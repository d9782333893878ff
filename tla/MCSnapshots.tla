----------------------------- MODULE MCSnapshots -----------------------------
(* Logins that begin with or overlap one another, and short texts that hold them. *)
EXTENDS Snapshots

MCLogin == ("owner" :> <<"b">>) @@ ("ann" :> <<"a">>) @@ ("abe" :> <<"a", "b">>)
              @@ ("bea" :> <<"b", "a">>)

Texts == {<<"a", "b", "a">>, <<"b", "a", "c">>, <<"c", "b">>}

MCRecord(given, corrector, team, truant, users, text, generic) ==
    [given |-> given,
     st |-> [corrector |-> corrector, truant |-> truant, correcteds |-> team,
             feedbacks |-> [i \in DOMAIN users |-> [user |-> users[i], comment |-> text]],
             team |-> [name |-> IF generic THEN Append(text, Group) ELSE text, users |-> team],
             comment |-> text]]

\* Given by the owner, or received from ann, by a team with or without abe; the
\* feedback by members of the team, or by somebody who was one.
MCRecords ==
    {MCRecord(TRUE, "owner", team, truant, users, text, FALSE) :
        team \in {{"ann"}, {"ann", "abe"}}, truant \in {NoOne, "abe"},
        users \in {<< >>, <<"ann">>, <<"ann", "abe">>, <<"bea">>}, text \in Texts}
    \cup
    {MCRecord(FALSE, "ann", {"owner"}, NoOne, users, text, generic) :
        users \in {<< >>, <<"owner">>, <<"abe">>, <<"abe", "owner">>},
        text \in Texts, generic \in BOOLEAN}

=============================================================================
