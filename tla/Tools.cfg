SPECIFICATION Spec
CONSTANT Parts = {"indexAll", "packagesSteps", "releaseSteps", "apkOne", "skillsOne", "skillsHubs", "panelParse", "panelList", "panelRows", "terminalFaults", "terminalEnds", "terminalParse", "resizeTwo", "callsKinds", "callsRoutes", "callsRetry", "relaySlot", "relayCode", "voiceCore", "voiceDrops", "buttonPress", "ttsCore", "ttsText", "pcmDown"}
CHECK_DEADLOCK FALSE
INVARIANT TypeOK
INVARIANT OperationsAreShown
INVARIANT TerminalsAgree
INVARIANT CallsAreTheirOwn
INVARIANT RecordingIsComplete
INVARIANT PlaybackIsInOrder
