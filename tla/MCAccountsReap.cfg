\* One account, verified while a resend is in flight.
CONSTANTS
    AccountIds = {a1}
    Emails = {e1}
    FtIds = {f1}
    Tokens = {t1, t2}
    Sids = {s1}
    Reqs = {r1}
    NoEmail = NoEmail
    NoToken = NoToken
    NoAccount = NoAccount
    NoSid = NoSid
SPECIFICATION Spec
SYMMETRY Symmetry
PROPERTY ReapsNeverVerified
