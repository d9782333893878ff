\* A registry with room for one job, two goroutines, two 42 users and two accounts; a
\* sync may outlive its cooldown.
CONSTANTS
    JobIds = {j1, j2}
    AccountIds = {a1, a2}
    FtIds = {f1, f2}
    Keys = {k1}
    NoKey = NoKey
    NoAccount = NoAccount
    NoFt = NoFt
    MaxJobs = 1
    Ttl = 2
    Cooldown = 2
SPECIFICATION Spec
SYMMETRY Symmetry
INVARIANTS SnapshotIsOwn MatchedIsOwn CooldownIsEarned RefetchOnlyIfRobbed
PROPERTY LiveSyncKept
