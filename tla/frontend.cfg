SPECIFICATION FairSpec
CONSTANTS
    c1 = c1
    c2 = c2
    Client <- MCClient
    Thread = {t1, t2}
    Nobody = Nobody
    Buffers = 2
    Fragile <- MCFragile
    MaxUnderWay <- MCMaxUnderWay
INVARIANTS SessionsAreDriven ResourcesFollowReplies
PROPERTIES RepliesInOrder RequestsAnswered ServerStops
CHECK_DEADLOCK FALSE
