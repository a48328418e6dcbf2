CONSTANTS
    Sources <- MCSources
    Articles <- MCArticles
    Labels = {"topic"}
    DedupWindow = 5
    MaxItems = 1
    Interval = 4
    Backoff = 2
    Never = Never
    LastTime = 7
SPECIFICATION FeedSpec
INVARIANTS
    FeedTypeOK
    Spaced
PROPERTIES
    BatchEnds
