\* A pin with one channel follows a pin with two, or the other way round.
CONSTANTS
    ChannelCounts <- MCOneTwo
    Targets = 2
    Period = 2
    MinFrames = 2
    Requests <- MCRequests
    Notifications <- MCNotifications
    Offsets <- MCOffsets
    SharedSize = 16
    MaxPins = 2
SPECIFICATION Spec
CHECK_DEADLOCK FALSE
PROPERTY ChunkHasRunningPinsChannels
