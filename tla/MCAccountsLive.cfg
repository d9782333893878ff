\* One account; liveness is checked without symmetry.
CONSTANTS
    AccountIds = {a1}
    Emails = {e1, e2}
    FtIds = {f1}
    Tokens = {t1, t2, t3}
    Sids = {s1}
    Reqs = {r1}
    NoEmail = NoEmail
    NoToken = NoToken
    NoAccount = NoAccount
    NoSid = NoSid
SPECIFICATION FairSpec
PROPERTIES LinkSettles SignupRecovers
