SPECIFICATION MCSpec
CONSTANTS
    Endpoints = {"e1", "e2"}
    Gone = Gone
    FastRetries = 3
    MaxLoops = 3
    Windows = {"w1", "w2"}
    Agents = {"a1"}
    Nobody = "nobody"
    MaxTs = 4
    MaxFeed = 2
    Requests = {"r1"}
    MaxSockets = 3
    MaxLinkSteps = 4
    MaxFeedSteps = 5
    MaxStreamSteps = 7
INVARIANTS
    FeedSound
    OneStream
PROPERTIES
    AttachAfterReconcile
    LinkRecovers
CHECK_DEADLOCK FALSE
