SPECIFICATION FairSpec
CONSTANT Parts = {"syncLive", "promptsLive", "draftsLive", "displayLive", "indexQuiet", "searchLive", "attachLive"}
CHECK_DEADLOCK FALSE
PROPERTY PageCatchesUp
PROPERTY ComposerComesFree
