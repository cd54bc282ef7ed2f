\* Two pins on two endpoints of one and two channels, three processes, and two
\* layouts that race to be set.
CONSTANTS
    e1 = e1
    e2 = e2
    p1 = p1
    p2 = p2
    q1 = q1
    q2 = q2
    q3 = q3
    NoPin = NoPin
    NoProcess = NoProcess
    Endpoints = {e1, e2}
    Pins = {p1, p2}
    Processes = {q1, q2, q3}
    Layouts <- MCLayouts
    ChannelCount <- MCChannelCount
    FormatChannels <- MCFormatChannels
    Masks = {{left, right}}
    left = left
    right = right
    CallerRanges <- MCCallerRanges
    Clients <- MCClients
    Requests <- MCRequests
    Cell = 3
    MaxBufferSize = 10
SPECIFICATION Spec
SYMMETRY MCSymmetry
CHECK_DEADLOCK FALSE
INVARIANTS
    TypeOK
    ViewsAreAllocated
    ActiveBufferIsOwn
    CellsAccounted
    OfferedFormatsAccepted
PROPERTIES
    LayoutSetOnce
