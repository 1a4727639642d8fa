SPECIFICATION Spec
CONSTANT Parts = {"syncOrder", "syncFaults", "promptsQueue", "promptsCompact", "promptsRetry", "promptsForeign", "draftsTwo", "displayViews", "displayLost", "replyChoice", "replyAsk", "indexTwo", "indexLate", "recentLists", "adminBatch", "adminHandlers", "adminEach", "adminRestore", "adminRefused", "searchOrdered", "searchTwice", "searchReorder", "lifeSteps", "lifeOverlap", "attachTwo", "attachOne"}
CHECK_DEADLOCK FALSE
INVARIANT TypeOK
INVARIANT SyncKeepsTheLog
INVARIANT PromptsArriveOnce
INVARIANT ComposersKeepTheirContent
INVARIANT RowsAreHonest
INVARIANT ListsAreCurrent
INVARIANT SessionIsNeverLost
PROPERTY NothingIsTakenBack
