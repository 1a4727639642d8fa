--------------------------- MODULE MCTools ---------------------------
(***************************************************************************)
(* Instances for TLC of the components behind the settings pages, the      *)
(* terminals, the registry with its port relay, and speech.  They share    *)
(* no state, so a run takes them side by side: part names the instance a   *)
(* behaviour is about.  The parts of each property are stated in the       *)
(* modules of their components.                                            *)
(***************************************************************************)
EXTENDS Integers, Sequences, FiniteSets

CONSTANT Parts \* the instances a run explores
VARIABLE part  \* the one a behaviour is about

TwoSources == {"s1", "s2"}
OfSource == [s \in TwoSources |-> IF s = "s1" THEN {"a", "b"} ELSE {"b"}]

\* File index of a hub: all its projects at once; one at a time.
VARIABLES running, indexView, shown, indexPend, allPend, indexTimer, indexRefresh, scanAll, indexCalls
indexVars == <<running, indexView, shown, indexPend, allPend, indexTimer, indexRefresh, scanAll, indexCalls>>
IndexAll == INSTANCE FileIndexScan WITH
  Projects <- {1, 2}, Hubs <- {"h1"}, HubOf <- [p \in {1, 2} |-> "h1"], Refreshes <- {1}, ScanAlls <- {"k1"}, Concurrency <- 1,
  Ops <- {"all", "view"}, StatusFails <- TRUE, RebuildFails <- TRUE, view <- indexView, pend <- indexPend, timer <- indexTimer,
  refresh <- indexRefresh, calls <- indexCalls
IndexLive == INSTANCE FileIndexScan WITH
  Projects <- {1}, Hubs <- {"h1"}, HubOf <- <<"h1">>, Refreshes <- {1, 2}, ScanAlls <- {}, Concurrency <- 2,
  Ops <- {"scan", "view"}, StatusFails <- FALSE, RebuildFails <- FALSE, view <- indexView, pend <- indexPend, timer <- indexTimer,
  refresh <- indexRefresh, calls <- indexCalls

\* Agent packages of one hub.
VARIABLES packagesOp, expired, packagesView, packagesCards, packagesLoading, listErr, packagesTimer, orphans, packagesRefresh,
          packagesConfirm, packagesPending, action
packagesVars == <<packagesOp, expired, packagesView, packagesCards, packagesLoading, listErr, packagesTimer, orphans,
                  packagesRefresh, packagesConfirm, packagesPending, action>>
PackagesSteps == INSTANCE AgentPackages WITH
  Hubs <- {"h1"}, Refreshes <- {1, 2}, MaxTimers <- 2, Ops <- {"act", "view", "expire", "refresh"}, ScanFails <- TRUE,
  ListFails <- TRUE, op <- packagesOp, view <- packagesView, cards <- packagesCards, loading <- packagesLoading,
  timer <- packagesTimer, refresh <- packagesRefresh, confirm <- packagesConfirm, pending <- packagesPending

\* Releases.
VARIABLES git, fetch, signal, releaseView, releaseCards, releaseLoading, releaseTimer, pollSet, releaseChecks, queries,
          releaseConfirm, pendOne, pendAll, update
releaseVars == <<git, fetch, signal, releaseView, releaseCards, releaseLoading, releaseTimer, pollSet, releaseChecks, queries,
                 releaseConfirm, pendOne, pendAll, update>>
ReleaseSteps == INSTANCE ReleaseUpdates WITH
  Hubs <- {"h1"}, Checks <- {1}, Ops <- {"view", "all", "one"}, FirstFetch <- "recent", QueryFails <- TRUE, UpdateFails <- TRUE,
  view <- releaseView, cards <- releaseCards, loading <- releaseLoading, timer <- releaseTimer, checks <- releaseChecks,
  confirm <- releaseConfirm
ReleaseFetch == INSTANCE ReleaseUpdates WITH
  Hubs <- {"h1"}, Checks <- {1}, Ops <- {"view", "force"}, FirstFetch <- "never", QueryFails <- FALSE, UpdateFails <- TRUE,
  view <- releaseView, cards <- releaseCards, loading <- releaseLoading, timer <- releaseTimer, checks <- releaseChecks,
  confirm <- releaseConfirm

\* Android package.
VARIABLES permitted, installed, github, thread, installer, apkOpen, events, rpc, apkChecks, local, latest, apkLoading, apkPending,
          status, err
apkVars == <<permitted, installed, github, thread, installer, apkOpen, events, rpc, apkChecks, local, latest, apkLoading,
             apkPending, status, err>>
ApkOne == INSTANCE ApkUpdate WITH
  Checks <- {1}, Threads <- {1, 2}, MaxEvents <- 2, MayLack <- FALSE, Timeouts <- FALSE, FetchFails <- TRUE, open <- apkOpen,
  checks <- apkChecks, loading <- apkLoading, pending <- apkPending
ApkLive == INSTANCE ApkUpdate WITH
  Checks <- {1}, Threads <- {1}, MaxEvents <- 2, MayLack <- TRUE, Timeouts <- TRUE, FetchFails <- TRUE, open <- apkOpen,
  checks <- apkChecks, loading <- apkLoading, pending <- apkPending

\* Skills.
VARIABLES skillsOp, skillsView, skillsCards, skillsLoading, poll, skillsTimer, skillsCall, skillsConfirm, skillsPending,
          skillsActive
skillsVars == <<skillsOp, skillsView, skillsCards, skillsLoading, poll, skillsTimer, skillsCall, skillsConfirm, skillsPending,
                skillsActive>>
SkillsOne == INSTANCE SkillsScan WITH
  Hubs <- {"h1"}, Calls <- {1, 2}, Ops <- {"act", "refresh", "view", "gone"}, Fails <- {"scan", "list"}, op <- skillsOp,
  view <- skillsView, cards <- skillsCards, loading <- skillsLoading, timer <- skillsTimer, call <- skillsCall,
  confirm <- skillsConfirm, pending <- skillsPending, active <- skillsActive
SkillsHubs == INSTANCE SkillsScan WITH
  Hubs <- {"h1", "h2"}, Calls <- {1, 2}, Ops <- {"other", "menu"}, Fails <- {}, op <- skillsOp, view <- skillsView,
  cards <- skillsCards, loading <- skillsLoading, timer <- skillsTimer, call <- skillsCall, confirm <- skillsConfirm,
  pending <- skillsPending, active <- skillsActive
SkillsLive == INSTANCE SkillsScan WITH
  Hubs <- {"h1"}, Calls <- {1, 2}, Ops <- {"act", "refresh", "view"}, Fails <- {}, op <- skillsOp, view <- skillsView,
  cards <- skillsCards, loading <- skillsLoading, timer <- skillsTimer, call <- skillsCall, confirm <- skillsConfirm,
  pending <- skillsPending, active <- skillsActive

\* Install panel.
VARIABLES target, panelInput, candidates, selected, listing, lists, panelConfirm, skills, ticked, detail, fetches
panelVars == <<target, panelInput, candidates, selected, listing, lists, panelConfirm, skills, ticked, detail, fetches>>
PanelParse == INSTANCE SkillPanel WITH
  Targets <- {"t1", "t2"}, Sources <- {"s1", "s2"}, Names <- {"a", "b"}, NamesOf <- OfSource,
  Words <- {"skills", "add", "--skill", "--flag", "s1", "a"}, MaxWords <- 5, MaxCalls <- 2, Ops <- {"type"}, input <- panelInput,
  confirm <- panelConfirm
PanelList == INSTANCE SkillPanel WITH
  Targets <- {"t1", "t2"}, Sources <- {"s1", "s2"}, Names <- {"a", "b"}, NamesOf <- OfSource,
  Words <- {"s1", "s2", "--skill", "b"}, MaxWords <- 3, MaxCalls <- 1, Ops <- {"type", "list"}, input <- panelInput,
  confirm <- panelConfirm
PanelRows == INSTANCE SkillPanel WITH
  Targets <- {"t1", "t2"}, Sources <- {"s1", "s2"}, Names <- {"a", "b"}, NamesOf <- OfSource,
  Words <- {"s1", "s2", "--skill", "b"}, MaxWords <- 3, MaxCalls <- 2, Ops <- {"tick", "detail"}, input <- panelInput,
  confirm <- panelConfirm

\* Terminal output.
VARIABLES run, seq, up, terminalNet, changed, connected, list, known, available, att, flight, answer, tail, retry, want,
          terminalOpen, sel, screen, spoilt
terminalVars == <<run, seq, up, terminalNet, changed, connected, list, known, available, att, flight, answer, tail, retry, want,
                  terminalOpen, sel, screen, spoilt>>
TerminalFaults == INSTANCE TerminalSync WITH
  MaxSeq <- 3, MaxRuns <- 1, MaxBuf <- 2, MaxNet <- 2, Ops <- {"lose", "drop", "hide", "fail"}, net <- terminalNet,
  open <- terminalOpen
TerminalEnds == INSTANCE TerminalSync WITH
  MaxSeq <- 1, MaxRuns <- 2, MaxBuf <- 1, MaxNet <- 2, Ops <- {"lose", "restart", "close", "drop"}, net <- terminalNet,
  open <- terminalOpen
TerminalParse == INSTANCE TerminalSync WITH
  MaxSeq <- 2, MaxRuns <- 1, MaxBuf <- 2, MaxNet <- 2, Ops <- {"slow", "tab", "lose", "hide", "drop", "restart"}, net <- terminalNet,
  open <- terminalOpen
TerminalLive == INSTANCE TerminalSync WITH
  MaxSeq <- 3, MaxRuns <- 1, MaxBuf <- 3, MaxNet <- 2, Ops <- {"drop", "hide"}, net <- terminalNet, open <- terminalOpen

\* Terminal size.
VARIABLES hubSize, hubToken, box, size, emul, last, token, enabled, claiming, frame, resizeCalls, due, inbox, overtaken, asked, moves
resizeVars == <<hubSize, hubToken, box, size, emul, last, token, enabled, claiming, frame, resizeCalls, due, inbox, overtaken, asked, moves>>
ResizeTwo == INSTANCE TerminalResize WITH
  Pages <- {"p1", "p2"}, Sizes <- {"s1", "s2"}, MaxTokens <- 3, MaxMoves <- 2, Ops <- {"fit"}, calls <- resizeCalls

\* Calls through the registry: registry and hub methods with closing
\* connections; two workers and a hub that takes one call at a time; three with
\* retries; the workers of a hub that reports anew.
VARIABLES callsCall, ready, reg, fwd, hub, work, wire, applied
callsVars == <<callsCall, ready, reg, fwd, hub, work, wire, applied>>
CallsKinds == INSTANCE RegistryCalls WITH
  Calls <- 1..2, Methods <- {"registry.project.list", "session.create"}, Workers <- 1, QueueSize <- 1, MaxForwards <- 1,
  MaxEpochs <- 1, Closes <- TRUE, Bare <- TRUE, RetryCodes <- {}, call <- callsCall
CallsRoutes == INSTANCE RegistryCalls WITH
  Calls <- 1..2, Methods <- {"session.send"}, Workers <- 2, QueueSize <- 1, MaxForwards <- 1, MaxEpochs <- 1, Closes <- FALSE,
  Bare <- FALSE, RetryCodes <- {}, call <- callsCall
CallsRetry == INSTANCE RegistryCalls WITH
  Calls <- 1..3, Methods <- {"session.send"}, Workers <- 2, QueueSize <- 0, MaxForwards <- 1, MaxEpochs <- 1, Closes <- FALSE,
  Bare <- FALSE, RetryCodes <- {"NOT_FOUND", "busy", "TIMEOUT", "INTERNAL"}, call <- callsCall
CallsLive == INSTANCE RegistryCalls WITH
  Calls <- 1..2, Methods <- {"session.send"}, Workers <- 1, QueueSize <- 0, MaxForwards <- 1, MaxEpochs <- 2, Closes <- FALSE,
  Bare <- FALSE, RetryCodes <- {}, call <- callsCall

\* Port relay.
VARIABLES slot, listener, tunnel, relayD, reqs, relayN
relayVars == <<slot, listener, tunnel, relayD, reqs, relayN>>
RelaySlot == INSTANCE PortRelay WITH
  Devices <- {"v", "w"}, Targets <- {"t"}, HubFails <- FALSE, Overlap <- FALSE, MaxOps <- 3, MaxLost <- 1, MaxPolls <- 0,
  d <- relayD, n <- relayN
RelayCode == INSTANCE PortRelay WITH
  Devices <- {"v"}, Targets <- {"s", "t"}, HubFails <- FALSE, Overlap <- FALSE, MaxOps <- 3, MaxLost <- 0, MaxPolls <- 1,
  d <- relayD, n <- relayN
RelayLive == INSTANCE PortRelay WITH
  Devices <- {"v"}, Targets <- {"t"}, HubFails <- TRUE, Overlap <- TRUE, MaxOps <- 2, MaxLost <- 1, MaxPolls <- 0, d <- relayD,
  n <- relayN

\* Voice input.
VARIABLES voiceC, asks, fins, srv, got, origin, used
voiceVars == <<voiceC, asks, fins, srv, got, origin, used>>
VoiceCore == INSTANCE VoiceInput WITH
  Chats <- {"a"}, NoChat <- "none", MaxBuffer <- 2, MaxStarts <- 2, MaxChunks <- 3, MaxDrops <- 0, MaxErrors <- 0,
  MaxSwitches <- 0, MaxFinishes <- 2, MaxStreams <- 3, c <- voiceC
VoiceDrops == INSTANCE VoiceInput WITH
  Chats <- {"a"}, NoChat <- "none", MaxBuffer <- 2, MaxStarts <- 1, MaxChunks <- 2, MaxDrops <- 1, MaxErrors <- 1,
  MaxSwitches <- 0, MaxFinishes <- 1, MaxStreams <- 4, c <- voiceC
VoiceLive == INSTANCE VoiceInput WITH
  Chats <- {"a", "b"}, NoChat <- "none", MaxBuffer <- 2, MaxStarts <- 1, MaxChunks <- 1, MaxDrops <- 1, MaxErrors <- 0,
  MaxSwitches <- 0, MaxFinishes <- 1, MaxStreams <- 2, c <- voiceC

\* Voice button.
VARIABLES ptr, suppress, click, held, starts, rec, mode, content, buttonN, did
buttonVars == <<ptr, suppress, click, held, starts, rec, mode, content, buttonN, did>>
ButtonPress == INSTANCE VoiceButton WITH
  SlowPress <- FALSE, MaxPresses <- 4, n <- buttonN

\* Text to speech.
VARIABLES gen, state, ttsActive, segs, pc, idx, pre, ttsPend, ttsNet, urls, audio, sounding, aborted, stray, heard
ttsVars == <<gen, state, ttsActive, segs, pc, idx, pre, ttsPend, ttsNet, urls, audio, sounding, aborted, stray, heard>>
TtsCore == INSTANCE TtsPlayback WITH
  Turns <- {"t1", "t2"}, NoTurn <- "none", Texts <- {<<2, 2, 3>>, <<4>>}, MaxChars <- 4, MaxGen <- 5, Bad <- TRUE,
  active <- ttsActive, pend <- ttsPend, net <- ttsNet
TtsText == INSTANCE TtsPlayback WITH
  Turns <- {"t1", "t2"}, NoTurn <- "none", Texts <- UNION {[1..n -> {1, 3, 5, 9}] : n \in 0..4}, MaxChars <- 8, MaxGen <- 2,
  Bad <- FALSE, active <- ttsActive, pend <- ttsPend, net <- ttsNet
TtsLive == INSTANCE TtsPlayback WITH
  Turns <- {"t1", "t2"}, NoTurn <- "none", Texts <- {<<2, 2, 3>>, <<4>>}, MaxChars <- 4, MaxGen <- 5, Bad <- FALSE,
  active <- ttsActive, pend <- ttsPend, net <- ttsNet

\* Microphone audio.
VARIABLES rate, pcmInput, start, total, made, bytes, chunks, stopped, ended, spoken
pcmVars == <<rate, pcmInput, start, total, made, bytes, chunks, stopped, ended, spoken>>
PcmDown == INSTANCE PcmStream WITH
  Rates <- {2, 3, 5, 6}, TargetRate <- 2, ChunkBytes <- 3, Samples <- {0, 5}, MaxSamples <- 8, MaxBlock <- 4, input <- pcmInput

-----------------------------------------------------------------------------
ASSUME InstancesFit ==
  /\ IndexAll!ScanConstants /\ IndexLive!ScanConstants /\ PackagesSteps!PackageConstants /\ ReleaseSteps!UpdateConstants
  /\ ReleaseFetch!UpdateConstants /\ ApkOne!ApkConstants /\ ApkLive!ApkConstants /\ SkillsOne!SkillConstants
  /\ SkillsHubs!SkillConstants /\ SkillsLive!SkillConstants /\ PanelParse!PanelConstants /\ PanelList!PanelConstants
  /\ PanelRows!PanelConstants /\ TerminalFaults!TerminalConstants /\ TerminalEnds!TerminalConstants /\ TerminalParse!TerminalConstants
  /\ TerminalLive!TerminalConstants /\ ResizeTwo!ResizeConstants /\ CallsKinds!CallConstants /\ CallsRoutes!CallConstants
  /\ CallsRetry!CallConstants /\ CallsLive!CallConstants /\ RelaySlot!RelayConstants /\ RelayCode!RelayConstants
  /\ RelayLive!RelayConstants /\ VoiceCore!VoiceConstants /\ VoiceDrops!VoiceConstants /\ VoiceLive!VoiceConstants
  /\ ButtonPress!ButtonConstants /\ TtsCore!TtsConstants /\ TtsText!TtsConstants /\ TtsLive!TtsConstants
  /\ PcmDown!PcmConstants
\* The others keep their first state.
Init ==
  /\ part \in Parts
  /\ CASE part = "indexAll" -> IndexAll!Init [] OTHER -> IndexLive!Init
  /\ PackagesSteps!Init
  /\ CASE part = "releaseSteps" -> ReleaseSteps!Init [] OTHER -> ReleaseFetch!Init
  /\ CASE part = "apkOne" -> ApkOne!Init [] OTHER -> ApkLive!Init
  /\ part \in {"apkLive", "apkOne"} \/ (permitted = TRUE)
  /\ CASE part = "skillsOne" -> SkillsOne!Init [] part = "skillsHubs" -> SkillsHubs!Init [] OTHER -> SkillsLive!Init
  /\ CASE part = "panelList" -> PanelList!Init [] part = "panelRows" -> PanelRows!Init [] OTHER -> PanelParse!Init
  /\ CASE part = "terminalFaults" -> TerminalFaults!Init [] part = "terminalEnds" -> TerminalEnds!Init [] part = "terminalParse" -> TerminalParse!Init [] OTHER -> TerminalLive!Init
  /\ ResizeTwo!Init
  /\ part \in {"resizeTwo"} \/ (hubSize = "s1" /\ token = [p1 |-> 1, p2 |-> 0] /\ box = size)
  /\ CASE part = "callsKinds" -> CallsKinds!Init [] part = "callsRoutes" -> CallsRoutes!Init [] part = "callsRetry" -> CallsRetry!Init [] OTHER -> CallsLive!Init
  /\ CASE part = "relaySlot" -> RelaySlot!Init [] part = "relayCode" -> RelayCode!Init [] OTHER -> RelayLive!Init
  /\ CASE part = "voiceCore" -> VoiceCore!Init [] part = "voiceDrops" -> VoiceDrops!Init [] OTHER -> VoiceLive!Init
  /\ part \in {"voiceLive", "voiceCore", "voiceDrops"} \/ (voiceC.cur = "a")
  /\ ButtonPress!Init
  /\ part \in {"buttonPress"} \/ (content = FALSE)
  /\ CASE part = "ttsCore" -> TtsCore!Init [] part = "ttsText" -> TtsText!Init [] OTHER -> TtsLive!Init
  /\ PcmDown!Init
  /\ part \in {"pcmDown"} \/ (rate = 2)
IndexAlone == UNCHANGED <<part, packagesVars, releaseVars, apkVars, skillsVars, panelVars, terminalVars, resizeVars, callsVars, relayVars,
                  voiceVars, buttonVars, ttsVars, pcmVars>>
PackagesAlone == UNCHANGED <<part, indexVars, releaseVars, apkVars, skillsVars, panelVars, terminalVars, resizeVars, callsVars, relayVars,
                  voiceVars, buttonVars, ttsVars, pcmVars>>
ReleaseAlone == UNCHANGED <<part, indexVars, packagesVars, apkVars, skillsVars, panelVars, terminalVars, resizeVars, callsVars, relayVars,
                  voiceVars, buttonVars, ttsVars, pcmVars>>
ApkAlone == UNCHANGED <<part, indexVars, packagesVars, releaseVars, skillsVars, panelVars, terminalVars, resizeVars, callsVars, relayVars,
                  voiceVars, buttonVars, ttsVars, pcmVars>>
SkillsAlone == UNCHANGED <<part, indexVars, packagesVars, releaseVars, apkVars, panelVars, terminalVars, resizeVars, callsVars, relayVars,
                  voiceVars, buttonVars, ttsVars, pcmVars>>
PanelAlone == UNCHANGED <<part, indexVars, packagesVars, releaseVars, apkVars, skillsVars, terminalVars, resizeVars, callsVars, relayVars,
                  voiceVars, buttonVars, ttsVars, pcmVars>>
TerminalAlone == UNCHANGED <<part, indexVars, packagesVars, releaseVars, apkVars, skillsVars, panelVars, resizeVars, callsVars, relayVars,
                  voiceVars, buttonVars, ttsVars, pcmVars>>
ResizeAlone == UNCHANGED <<part, indexVars, packagesVars, releaseVars, apkVars, skillsVars, panelVars, terminalVars, callsVars, relayVars,
                  voiceVars, buttonVars, ttsVars, pcmVars>>
CallsAlone == UNCHANGED <<part, indexVars, packagesVars, releaseVars, apkVars, skillsVars, panelVars, terminalVars, resizeVars, relayVars,
                  voiceVars, buttonVars, ttsVars, pcmVars>>
RelayAlone == UNCHANGED <<part, indexVars, packagesVars, releaseVars, apkVars, skillsVars, panelVars, terminalVars, resizeVars, callsVars,
                  voiceVars, buttonVars, ttsVars, pcmVars>>
VoiceAlone == UNCHANGED <<part, indexVars, packagesVars, releaseVars, apkVars, skillsVars, panelVars, terminalVars, resizeVars, callsVars,
                  relayVars, buttonVars, ttsVars, pcmVars>>
ButtonAlone == UNCHANGED <<part, indexVars, packagesVars, releaseVars, apkVars, skillsVars, panelVars, terminalVars, resizeVars, callsVars,
                  relayVars, voiceVars, ttsVars, pcmVars>>
TtsAlone == UNCHANGED <<part, indexVars, packagesVars, releaseVars, apkVars, skillsVars, panelVars, terminalVars, resizeVars, callsVars,
                  relayVars, voiceVars, buttonVars, pcmVars>>
PcmAlone == UNCHANGED <<part, indexVars, packagesVars, releaseVars, apkVars, skillsVars, panelVars, terminalVars, resizeVars, callsVars,
                  relayVars, voiceVars, buttonVars, ttsVars>>
Next ==
  \/ part = "indexAll" /\ IndexAll!Next /\ IndexAlone
  \/ part = "indexLive" /\ IndexLive!Next /\ IndexAlone
  \/ part = "packagesSteps" /\ PackagesSteps!Next /\ PackagesAlone
  \/ part = "releaseSteps" /\ ReleaseSteps!Next /\ ReleaseAlone
  \/ part = "releaseFetch" /\ ReleaseFetch!Next /\ ReleaseAlone
  \/ part = "apkOne" /\ ApkOne!Next /\ ApkAlone
  \/ part = "apkLive" /\ ApkLive!Next /\ ApkAlone
  \/ part = "skillsOne" /\ SkillsOne!Next /\ SkillsAlone
  \/ part = "skillsHubs" /\ SkillsHubs!Next /\ SkillsAlone
  \/ part = "skillsLive" /\ SkillsLive!Next /\ SkillsAlone
  \/ part = "panelParse" /\ PanelParse!Next /\ PanelAlone
  \/ part = "panelList" /\ PanelList!Next /\ PanelAlone
  \/ part = "panelRows" /\ PanelRows!Next /\ PanelAlone
  \/ part = "terminalFaults" /\ TerminalFaults!Next /\ TerminalAlone
  \/ part = "terminalEnds" /\ TerminalEnds!Next /\ TerminalAlone
  \/ part = "terminalParse" /\ TerminalParse!Next /\ TerminalAlone
  \/ part = "terminalLive" /\ TerminalLive!Next /\ TerminalAlone
  \/ part = "resizeTwo" /\ ResizeTwo!Next /\ ResizeAlone
  \/ part = "callsKinds" /\ CallsKinds!Next /\ CallsAlone
  \/ part = "callsRoutes" /\ CallsRoutes!Next /\ CallsAlone
  \/ part = "callsRetry" /\ CallsRetry!Next /\ CallsAlone
  \/ part = "callsLive" /\ CallsLive!Next /\ CallsAlone
  \/ part = "relaySlot" /\ RelaySlot!Next /\ RelayAlone
  \/ part = "relayCode" /\ RelayCode!Next /\ RelayAlone
  \/ part = "relayLive" /\ RelayLive!Next /\ RelayAlone
  \/ part = "voiceCore" /\ VoiceCore!Next /\ VoiceAlone
  \/ part = "voiceDrops" /\ VoiceDrops!Next /\ VoiceAlone
  \/ part = "voiceLive" /\ VoiceLive!Next /\ VoiceAlone
  \/ part = "buttonPress" /\ ButtonPress!Next /\ ButtonAlone
  \/ part = "ttsCore" /\ TtsCore!Next /\ TtsAlone
  \/ part = "ttsText" /\ TtsText!Next /\ TtsAlone
  \/ part = "ttsLive" /\ TtsLive!Next /\ TtsAlone
  \/ part = "pcmDown" /\ PcmDown!Next /\ PcmAlone
vars == <<part, indexVars, packagesVars, releaseVars, apkVars, skillsVars, panelVars, terminalVars, resizeVars, callsVars,
                relayVars, voiceVars, buttonVars, ttsVars, pcmVars>>
Spec == Init /\ [][Next]_vars
\* Fairness of the instance that moves, as its module states it.
IndexFair ==
  /\ \A r \in {1, 2} : WF_indexVars(part = "indexLive" /\ IndexLive!RefreshStep(r))
  /\ WF_indexVars(part = "indexLive" /\ \E r \in {1, 2} : IndexLive!Poll(r))
  /\ \A p \in {1} : WF_indexVars(part = "indexLive" /\ IndexLive!ScanEnds(p))
  /\ \A p \in {1} : \A by \in {IndexLive!NoHub} \union {} : SF_indexVars(part = "indexLive" /\ \E c \in indexCalls : c.p = p /\ c.by = by /\ IndexLive!CallStep(c))
ReleaseFair ==
  /\ \A k \in {1} : WF_releaseVars(part = "releaseFetch" /\ ReleaseFetch!CheckStep(k))
  /\ \A h \in {"h1"} : \A k \in {1} \union {0, -1} : WF_releaseVars(part = "releaseFetch" /\ \E q \in queries : q.h = h /\ q.k = k /\ ReleaseFetch!QueryStep(q))
  /\ \A h \in {"h1"} : WF_releaseVars(part = "releaseFetch" /\ ReleaseFetch!FetchEnds(h))
  /\ WF_releaseVars(part = "releaseFetch" /\ ReleaseFetch!Poll)
  /\ WF_releaseVars(part = "releaseFetch" /\ ReleaseFetch!UpdateStep)
  /\ SF_releaseVars(part = "releaseFetch" /\ \E k \in {1} : ReleaseFetch!AllAnswered(k))
ApkFair ==
  /\ WF_apkVars(part = "apkLive" /\ ApkLive!installRelease)
  /\ WF_apkVars(part = "apkLive" /\ ApkLive!InstallAnswer)
  /\ WF_apkVars(part = "apkLive" /\ ApkLive!ShellStep)
  /\ WF_apkVars(part = "apkLive" /\ ApkLive!Deliver)
  /\ \A k \in {1} : WF_apkVars(part = "apkLive" /\ ApkLive!CheckStep(k))
SkillsFair ==
  /\ \A c \in {1, 2} : WF_skillsVars(part = "skillsLive" /\ SkillsLive!CallStep(c))
  /\ \A h \in {"h1"} : WF_skillsVars(part = "skillsLive" /\ SkillsLive!finishOperation(h))
  /\ SF_skillsVars(part = "skillsLive" /\ SkillsLive!PollTimer)
TerminalFair ==
  /\ WF_terminalVars(part = "terminalLive" /\ TerminalLive!Effect)
  /\ WF_terminalVars(part = "terminalLive" /\ TerminalLive!Get)
  /\ WF_terminalVars(part = "terminalLive" /\ TerminalLive!GetFails)
  /\ WF_terminalVars(part = "terminalLive" /\ TerminalLive!applyTerminalSnapshot)
  /\ WF_terminalVars(part = "terminalLive" /\ TerminalLive!Parsed)
  /\ WF_terminalVars(part = "terminalLive" /\ TerminalLive!receiveTerminalOutput)
  /\ WF_terminalVars(part = "terminalLive" /\ TerminalLive!mergeTerminalLists)
  /\ WF_terminalVars(part = "terminalLive" /\ \E m \in changed : TerminalLive!applyTerminalChanged(m))
CallsFair ==
  /\ \A c \in 1..2 : WF_callsVars(part = "callsLive" /\ CallsLive!dispatch(c))
  /\ \A c \in 1..2 : WF_callsVars(part = "callsLive" /\ CallsLive!execute(c))
  /\ \A c \in 1..2 : WF_callsVars(part = "callsLive" /\ \E f \in fwd : f.c = c /\ CallsLive!ForwardTimeout(f))
RelayFair ==
  /\ WF_relayVars(part = "relayLive" /\ \E r \in reqs : RelayLive!Serve(r))
  /\ WF_relayVars(part = "relayLive" /\ \E id \in 1..relayN.id : RelayLive!acceptTunnel(id))
VoiceFair ==
  /\ WF_voiceVars(part = "voiceLive" /\ VoiceLive!MicroStep)
  /\ WF_voiceVars(part = "voiceLive" /\ ~ VoiceLive!Micro /\ VoiceLive!Progress)
  /\ \A i \in 1..1 : WF_voiceVars(part = "voiceLive" /\ (~ VoiceLive!Micro /\ \E f \in fins : f.id = i /\ (VoiceLive!StreamReady(f) \/ VoiceLive!NotReady(f) \/ VoiceLive!ServerFinish(f) \/ VoiceLive!FinishReply(f))))
  /\ WF_voiceVars(part = "voiceLive" /\ ~ VoiceLive!Micro /\ VoiceLive!FinalTimeout)
  /\ \A s \in VoiceLive!Streams : WF_voiceVars(part = "voiceLive" /\ ~ VoiceLive!Micro /\ VoiceLive!ServerChunk(s))
TtsFair ==
  /\ WF_ttsVars(part = "ttsLive" /\ TtsLive!Answer)
  /\ WF_ttsVars(part = "ttsLive" /\ TtsLive!Play)
  /\ WF_ttsVars(part = "ttsLive" /\ TtsLive!Skip)
  /\ WF_ttsVars(part = "ttsLive" /\ TtsLive!Throw)
  /\ WF_ttsVars(part = "ttsLive" /\ TtsLive!done)
  /\ WF_ttsVars(part = "ttsLive" /\ \E a \in aborted : TtsLive!Aborted(a))
FairSpec == Spec /\ IndexFair /\ ReleaseFair /\ ApkFair /\ SkillsFair /\ TerminalFair /\ CallsFair /\ RelayFair /\ VoiceFair /\ TtsFair
-----------------------------------------------------------------------------
\* The state of the instance that moves has its type.
TypeOK ==
  /\ (part = "indexAll" => IndexAll!TypeOK) /\ (part = "packagesSteps" => PackagesSteps!TypeOK)
  /\ (part = "releaseSteps" => ReleaseSteps!TypeOK) /\ (part = "apkOne" => ApkOne!TypeOK)
  /\ (part = "skillsOne" => SkillsOne!TypeOK) /\ (part = "panelList" => PanelList!TypeOK)
  /\ (part = "terminalFaults" => TerminalFaults!TypeOK) /\ (part = "terminalParse" => TerminalParse!TypeOK)
  /\ (part = "resizeTwo" => ResizeTwo!TypeOK) /\ (part = "callsKinds" => CallsKinds!TypeOK)
  /\ (part = "relaySlot" => RelaySlot!TypeOK) /\ (part = "voiceCore" => VoiceCore!TypeOK)
  /\ (part = "buttonPress" => ButtonPress!TypeOK) /\ (part = "ttsCore" => TtsCore!TypeOK)
  /\ (part = "pcmDown" => PcmDown!TypeOK)

\* FileIndexScan, AgentPackages, ReleaseUpdates, ApkUpdate, SkillsScan and
\* SkillPanel: what is shown as loading has an answer or a refresh left that
\* will end it, no second download or skill action starts beside a running
\* one, a scan of all asks for every project unless its workers fail, and what
\* the panel would install is among what it shows and what the pasted command
\* names.
OperationsAreShown ==
  /\ part = "indexAll" => IndexAll!AllAreAsked
  /\ part = "packagesSteps" => PackagesSteps!LoadingIsLoading
  /\ part = "releaseSteps" => ReleaseSteps!LoadingIsLoading
  /\ part = "apkOne" => ApkOne!OneDownload
  /\ part = "skillsOne" => SkillsOne!ScanningIsScanning /\ SkillsOne!OneActionUnanswered
  /\ part = "skillsHubs" => SkillsHubs!ScanningIsScanning
  /\ part = "panelParse" => PanelParse!CommandParses
  /\ part = "panelList" => PanelList!SelectionIsShown /\ PanelList!LoadingIsLoading

\* TerminalSync and TerminalResize (manager.go, terminalSync.ts,
\* TerminalView.tsx).  Whenever a page takes input its emulator shows the
\* output of the run as far as received, in order and without a gap, except
\* after a change of tabs, a remount during the parsing of a snapshot or a
\* write during it, until the next snapshot.  The hub never accepts two owners
\* of a size.  When nothing is under way every page shows the size of the hub,
\* except where a change overtook a newer one (each is published from its own
\* goroutine).
TerminalsAgree ==
  /\ part = "terminalFaults" => TerminalFaults!ScreenIsFaithful
  /\ part = "terminalEnds" => TerminalEnds!ScreenIsFaithful
  /\ part = "terminalParse" => TerminalParse!ScreenIsFaithful
  /\ part = "resizeTwo" => ResizeTwo!OneOwner /\ ResizeTwo!SameSize

\* RegistryCalls and PortRelay: an answer settles its own call, a forward that
\* waits belongs to a call a worker waits for, a call refused before it was
\* forwarded changes nothing, what the page takes for done was done, and a
\* change that is repeated after NOT_FOUND, busy, TIMEOUT or INTERNAL happens
\* at most once for each call that was not refused; a relay that is up has the
\* tunnel of its slot, and a code shown as current is that of the slot.
CallsAreTheirOwn ==
  /\ part = "callsRoutes" => CallsRoutes!AnswerIsOwn /\ CallsRoutes!SlotsAreUsed /\ CallsRoutes!RefusedChangesNothing
  /\ part = "callsKinds" => CallsKinds!DoneWasApplied
  /\ part = "callsRetry" => CallsRetry!AppliedOncePerTry
  /\ part = "relaySlot" => RelaySlot!UpMeansReachable
  /\ part = "relayCode" => RelayCode!KnownCodeIsTheSlots

\* VoiceInput, VoiceButton and PcmStream: audio reaches the service in order,
\* and complete where neither a connection is lost nor the service fails; the
\* microphone and every stream have one owner; a press of the button that ends
\* within the 800 ms a click is suppressed for does one thing; and cutting the
\* input into blocks and chunks changes no sample.
RecordingIsComplete ==
  /\ part = "voiceCore" => VoiceCore!FinishedComplete /\ VoiceCore!StreamsAccounted
  /\ part = "voiceDrops" => VoiceDrops!MicOwned /\ VoiceDrops!AudioInOrder
  /\ part = "buttonPress" => ButtonPress!OnePressOneAction /\ ButtonPress!HoldNeedsFinger
  /\ part = "pcmDown" => PcmDown!ResamplesWhole /\ PcmDown!FullChunks /\ PcmDown!InputIsTrimmed

\* TtsPlayback (ttsPlayback.ts): over starts, stops, answers and rejected
\* play() calls in any order, what sounds is the one element that a stop would
\* pause or an element that a late rejection has made the player forget (done
\* clears this.audio without looking whose it is); the segments of a session
\* play in order and once, what is kept for a segment was synthesised for it
\* and is not revoked while it is known to sound, a turn is marked exactly
\* while it is fetched or played, and segments hold the paragraphs in order.
PlaybackIsInOrder ==
  /\ part = "ttsCore" => TtsCore!InOrder /\ TtsCore!OneAudio /\ TtsCore!UrlsAreCurrent /\ TtsCore!MarkedWhileBusy
  /\ part = "ttsText" => TtsText!SegmentsFit

\* On a page with one hub, a scan, a fetch, an install and a skill operation
\* are seen to their end by the page that shows them, as long as the queries
\* for the index, the releases and the skills do not fail; the loading sign of
\* the relay ends even when the hub fails.
OperationsEnd ==
  /\ (part = "indexLive" => IndexLive!ScanIsSeenToEnd)
  /\ (part = "releaseFetch" => ReleaseFetch!FetchIsFollowed)
  /\ (part = "apkLive" => ApkLive!InstallComesBack)
  /\ (part = "skillsLive" => SkillsLive!OperationIsSeenToEnd)
  /\ (part = "relayLive" => RelayLive!LoadingEnds)

\* A terminal comes to show everything, a request gets its worker whatever the
\* hub does, and finishing a recording and playing a message end.
StreamsEnd ==
  /\ (part = "terminalLive" => TerminalLive!ShowsEverything)
  /\ (part = "callsLive" => CallsLive!WorkersComeBack)
  /\ (part = "voiceLive" => VoiceLive!FinishingEnds)
  /\ (part = "ttsLive" => TtsLive!PlaybackEnds)

=============================================================================
