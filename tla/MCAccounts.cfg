\* Two accounts that compete for addresses and 42 identities.
CONSTANTS
    AccountIds = {a1, a2}
    Emails = {e1, e2}
    FtIds = {f1, f2}
    Tokens = {t1, t2}
    Sids = {s1, s2}
    Reqs = {r1, r2}
    NoEmail = NoEmail
    NoToken = NoToken
    NoAccount = NoAccount
    NoSid = NoSid
SPECIFICATION Spec
SYMMETRY Symmetry
INVARIANTS LiveTokenIsMailed VerifiedByLink IdentitiesUnique SessionsOfLiveAccounts GatedLinks ChangeSignsOut
PROPERTIES RemovedOnPurpose 
