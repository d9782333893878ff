\* Two accounts of one campus, two downloads at a time.
CONSTANTS
    Letter = {"a", "b", "c"}
    Login <- MCLogin
    Owner = "owner"
    Mate = "mate"
    NoOne = "nobody"
    Records <- MCRecords
    Zone = "zone"
    MaxDownloads = 2
SPECIFICATION Spec
INVARIANTS StrangersRemoved AuthorsTrue ZoneKnown CountersAgree
