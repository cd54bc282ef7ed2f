\* Two pins with one or two channels on an endpoint of two.
CONSTANTS
    ChannelCounts <- MCOneTwo
    Targets = 2
    Period = 2
    MinFrames = 2
    Requests <- MCRequests
    Notifications <- MCNotifications
    Offsets <- MCOffsets
    SharedSize = 16
    MaxPins = 2
SPECIFICATION FairSpec
CHECK_DEADLOCK FALSE
INVARIANTS
    TypeOK
    CopyFollowsRing
PROPERTIES
    ChunkInRunningPinsBuffer
    EndIsNotified
    StreamingAdvances
