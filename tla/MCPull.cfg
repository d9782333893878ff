\* The projects and one collection of their evaluations, in pages of two records; every
\* request and statement is answered.
CONSTANTS
    r1 = r1
    r2 = r2
    r3 = r3
    Collections <- MCCollections
    Dropped = {}
    Projects = "projects_users"
    Evals = {"scale_teams_as_corrector"}
    Records = {r1, r2, r3}
    Lists <- MCLists
    PageSize = 2
    MaxRetries = 1
SPECIFICATION FairSpec
PROPERTIES FetchedWhole SkippedIsKept PullEnds
