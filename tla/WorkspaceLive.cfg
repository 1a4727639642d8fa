SPECIFICATION FairSpec
CONSTANT Parts = {"connLive", "previewLive", "fileLive", "gitLive", "findLive"}
CHECK_DEADLOCK FALSE
PROPERTY WorkspaceSettles
