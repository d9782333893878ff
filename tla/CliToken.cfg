\* Three requests reach the redirect URI in a login: one more than it can take.
CONSTANTS
    Visits = {v1, v2, v3}
    MaxTroubles = 2
SPECIFICATION FairSpec
PROPERTIES LoginReturns Served
