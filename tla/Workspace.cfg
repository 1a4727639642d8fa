SPECIFICATION Spec
CONSTANT Parts = {"connCore", "connLogout", "connHidden", "cacheChat", "cacheRest", "cacheMixed", "previewTabs", "previewTwo", "previewLoads", "previewInline", "treeSwitch", "treePreview", "fileRaces", "fileCache", "gitLists", "gitDiffs", "findMention", "findTree", "findQuick", "resultFour"}
CHECK_DEADLOCK FALSE
INVARIANT TypeOK
INVARIANT CacheSurvives
PROPERTY ConnectionIsHonest
PROPERTY PanesShowWhatWasAsked
PROPERTY TreesAreOfTheirProject
PROPERTY NeverGoesBack
