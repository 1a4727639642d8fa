SPECIFICATION FairSpec
CONSTANT Parts = {"indexLive", "releaseFetch", "apkLive", "skillsLive", "terminalLive", "callsLive", "relayLive", "voiceLive", "ttsLive"}
CHECK_DEADLOCK FALSE
PROPERTY OperationsEnd
PROPERTY StreamsEnd
