\* Two configurations, four kinds of inner driver, with and without one.
CONSTANTS
    Configs <- MCConfigs
    Physical = 1
    Infos <- MCInfos
    InnerSizes <- MCInnerSizes
    SampleTypes <- MCSampleTypes
    SampleRates = {5, 10}
    Interfaces = {TRUE, FALSE}
SPECIFICATION FairSpec
INVARIANTS
    TypeOK
    TickTouchesLiveMemory
    SlotsFollowDirection
    OfferedSizesAccepted
PROPERTIES
    FormatChangeIsSent
