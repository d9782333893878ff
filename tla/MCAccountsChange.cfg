\* One account, an e-mail change that is requested again while it is confirmed.
CONSTANTS
    AccountIds = {a1}
    Emails = {e1, e2, e3}
    FtIds = {f1}
    Tokens = {t1, t2, t3}
    Sids = {s1}
    Reqs = {r1, r2}
    NoEmail = NoEmail
    NoToken = NoToken
    NoAccount = NoAccount
    NoSid = NoSid
SPECIFICATION Spec
SYMMETRY Symmetry
PROPERTY PromotedByItsLink
