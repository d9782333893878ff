------------------------------- MODULE MCPull -------------------------------
(* Small instances of Pull for TLC: a list that fills its page, so that an empty one
   follows, and one whose last page is a short one. *)
EXTENDS Pull

CONSTANTS r1, r2, r3

MCCollections == <<"projects_users", "scale_teams_as_corrector">>
MCLists == {<<r1, r2>>, <<r2, r1, r3>>}
=============================================================================
