--------------------------- MODULE MCChat ---------------------------
(***************************************************************************)
(* Instances for TLC of the components behind the chat: turns, prompts,    *)
(* drafts, lists, search, attachments and the hub's session lifecycle.     *)
(* They share no state, so a run takes them side by side: part names the   *)
(* instance a behaviour is about.  The parts of each property are stated   *)
(* in the modules of their components.                                     *)
(***************************************************************************)
EXTENDS Integers, Sequences, FiniteSets

CONSTANT Parts \* the instances a run explores
VARIABLE part  \* the one a behaviour is about

Option(k, i) == [t |-> "option", k |-> k, i |-> i]
Plain(t) == [t |-> t, k |-> "-", i |-> 0]
AllLines == {Plain("fence"), Plain("announce"), Plain("plain"), Option("letter", 0), Option("letter", 1), Option("number", 0), Option("number", 1), Option("number", 2)}
AskLines == {Plain("fence"), Plain("ask"), Plain("plain"), Option("letter", 0), Option("letter", 1)}

\* Turn store of one chat: a connection lost; the page reloaded, the hub restarted,
\* a read failing and an answer that later turns overtake; only losses.
VARIABLES syncLog, saved, stamp, syncLink, syncInbox, served, st, fc, syncSel, reads, rq, dirty, durable, savedCursor, budget
syncVars == <<syncLog, saved, stamp, syncLink, syncInbox, served, st, fc, syncSel, reads, rq, dirty, durable, savedCursor, budget>>
SyncOrder == INSTANCE ChatSync WITH
  MaxStamp <- 3, MaxTurn <- 3, Loads <- {"l1"}, MaxDrops <- 1, MaxReloads <- 0, MaxRestarts <- 0, MaxFails <- 0,
  MaxLates <- 0, log <- syncLog, link <- syncLink, inbox <- syncInbox, sel <- syncSel
SyncFaults == INSTANCE ChatSync WITH
  MaxStamp <- 3, MaxTurn <- 2, Loads <- {"l1"}, MaxDrops <- 0, MaxReloads <- 1, MaxRestarts <- 1, MaxFails <- 1,
  MaxLates <- 1, log <- syncLog, link <- syncLink, inbox <- syncInbox, sel <- syncSel
SyncLive == INSTANCE ChatSync WITH
  MaxStamp <- 2, MaxTurn <- 2, Loads <- {"l1"}, MaxDrops <- 1, MaxReloads <- 0, MaxRestarts <- 0, MaxFails <- 0,
  MaxLates <- 0, log <- syncLog, link <- syncLink, inbox <- syncInbox, sel <- syncSel

\* Prompt queue: three prompts, a compaction and one session switch; one prompt
\* with a compaction, a timeout, a retry and a lost connection; two prompts
\* with the same faults; one beside a prompt of another device; voice input on
\* a connection that holds.
VARIABLES promptsHub, promptsWire, promptsInbox, promptsOnline, awaiting, queue, promptsPending, prep, promptsSubmitting, view,
          voice, gone, promptsHist, used
promptsVars == <<promptsHub, promptsWire, promptsInbox, promptsOnline, awaiting, queue, promptsPending, prep, promptsSubmitting,
                 view, voice, gone, promptsHist, used>>
PromptsQueue == INSTANCE ChatPrompts WITH
  Prompts <- {"p1", "p2", "p3"}, MaxCalls <- 4, MaxCompacts <- 1, MaxExpiries <- 0, MaxRetries <- 0, MaxDrops <- 0,
  MaxForeign <- 0, MaxVoice <- 0, MaxUser <- 1, SlowRelease <- FALSE, hub <- promptsHub, wire <- promptsWire,
  inbox <- promptsInbox, online <- promptsOnline, pending <- promptsPending, submitting <- promptsSubmitting, hist <- promptsHist
PromptsCompact == INSTANCE ChatPrompts WITH
  Prompts <- {"p1"}, MaxCalls <- 3, MaxCompacts <- 1, MaxExpiries <- 1, MaxRetries <- 1, MaxDrops <- 1, MaxForeign <- 0,
  MaxVoice <- 0, MaxUser <- 0, SlowRelease <- TRUE, hub <- promptsHub, wire <- promptsWire, inbox <- promptsInbox,
  online <- promptsOnline, pending <- promptsPending, submitting <- promptsSubmitting, hist <- promptsHist
PromptsRetry == INSTANCE ChatPrompts WITH
  Prompts <- {"p1", "p2"}, MaxCalls <- 3, MaxCompacts <- 0, MaxExpiries <- 1, MaxRetries <- 1, MaxDrops <- 1, MaxForeign <- 0,
  MaxVoice <- 0, MaxUser <- 0, SlowRelease <- TRUE, hub <- promptsHub, wire <- promptsWire, inbox <- promptsInbox,
  online <- promptsOnline, pending <- promptsPending, submitting <- promptsSubmitting, hist <- promptsHist
PromptsForeign == INSTANCE ChatPrompts WITH
  Prompts <- {"p1"}, MaxCalls <- 3, MaxCompacts <- 0, MaxExpiries <- 1, MaxRetries <- 1, MaxDrops <- 1, MaxForeign <- 1,
  MaxVoice <- 0, MaxUser <- 0, SlowRelease <- TRUE, hub <- promptsHub, wire <- promptsWire, inbox <- promptsInbox,
  online <- promptsOnline, pending <- promptsPending, submitting <- promptsSubmitting, hist <- promptsHist
PromptsLive == INSTANCE ChatPrompts WITH
  Prompts <- {"p1", "p2"}, MaxCalls <- 4, MaxCompacts <- 1, MaxExpiries <- 0, MaxRetries <- 0, MaxDrops <- 0, MaxForeign <- 0,
  MaxVoice <- 1, MaxUser <- 0, SlowRelease <- TRUE, hub <- promptsHub, wire <- promptsWire, inbox <- promptsInbox,
  online <- promptsOnline, pending <- promptsPending, submitting <- promptsSubmitting, hist <- promptsHist

\* Two drafts of new chats, edited, sent, and failing; one draft.
VARIABLES draftsRow, call, made, known, draftsSel, draftsText, waiting, draftsSubmitting, sent, dropped, edits, draftsFaults
draftsVars == <<draftsRow, call, made, known, draftsSel, draftsText, waiting, draftsSubmitting, sent, dropped, edits, draftsFaults>>
DraftsTwo == INSTANCE DraftSessions WITH
  Drafts <- {"d", "e"}, MaxEdits <- 3, MaxFaults <- 2, row <- draftsRow, sel <- draftsSel, text <- draftsText,
  submitting <- draftsSubmitting, faults <- draftsFaults
DraftsLive == INSTANCE DraftSessions WITH
  Drafts <- {"d"}, MaxEdits <- 1, MaxFaults <- 1, row <- draftsRow, sel <- draftsSel, text <- draftsText,
  submitting <- draftsSubmitting, faults <- draftsFaults

\* Rows of a chat: every kind of turn; a turn that is missing while the hub may
\* restart; messages alone.
VARIABLES displayLog, displayHub, held, running
displayVars == <<displayLog, displayHub, held, running>>
DisplayViews == INSTANCE ChatDisplay WITH
  MaxTurns <- 6, Kinds <- {"msg", "tool", "plan"}, Lost <- {}, Restarts <- FALSE, log <- displayLog, hub <- displayHub
DisplayLost == INSTANCE ChatDisplay WITH
  MaxTurns <- 5, Kinds <- {"msg", "tool", "plan"}, Lost <- {3}, Restarts <- TRUE, log <- displayLog, hub <- displayHub
DisplayLive == INSTANCE ChatDisplay WITH
  MaxTurns <- 6, Kinds <- {"msg"}, Lost <- {}, Restarts <- FALSE, log <- displayLog, hub <- displayHub

\* Replies offered under a message: every text of up to five lines with
\* options; up to six with a closing question.
VARIABLES replyText
replyVars == <<replyText>>
ReplyChoice == INSTANCE OptionReplies WITH
  Lines <- AllLines, MaxLines <- 5, Context <- 2, Near <- 3, text <- replyText
ReplyAsk == INSTANCE OptionReplies WITH
  Lines <- AskLines, MaxLines <- 6, Context <- 2, Near <- 3, text <- replyText

\* Refreshes of the chat lists: two projects, lists that fail and connections
\* that drop; answers that arrive late; a quiet end.
VARIABLES indexHub, registry, events, connected, projects, list, errors, full, refresh, wide, mark, indexChanges, signals,
          indexFaults, drops
indexVars == <<indexHub, registry, events, connected, projects, list, errors, full, refresh, wide, mark, indexChanges, signals,
               indexFaults, drops>>
IndexTwo == INSTANCE ChatIndex WITH
  Projects <- {"p", "q"}, Sessions <- {"a"}, First <- {"p"}, Wide <- TRUE, Late <- FALSE, MaxChanges <- 2, MaxSignals <- 1,
  MaxFaults <- 2, MaxDrops <- 1, hub <- indexHub, changes <- indexChanges, faults <- indexFaults
IndexLate == INSTANCE ChatIndex WITH
  Projects <- {"p", "q"}, Sessions <- {"a"}, First <- {"p", "q"}, Wide <- TRUE, Late <- TRUE, MaxChanges <- 1, MaxSignals <- 1,
  MaxFaults <- 1, MaxDrops <- 1, hub <- indexHub, changes <- indexChanges, faults <- indexFaults
IndexQuiet == INSTANCE ChatIndex WITH
  Projects <- {"p", "q"}, Sessions <- {"a"}, First <- {"p"}, Wide <- TRUE, Late <- FALSE, MaxChanges <- 2, MaxSignals <- 1,
  MaxFaults <- 0, MaxDrops <- 1, hub <- indexHub, changes <- indexChanges, faults <- indexFaults

\* Recent chats of two projects whose times may be equal.
VARIABLES lists, loaded, hidden, tick, recents, recentChanges
recentVars == <<lists, loaded, hidden, tick, recents, recentChanges>>
RecentLists == INSTANCE RecentSessions WITH
  Order <- <<"p", "q">>, Sessions <- [p |-> {"a", "b"}, q |-> {"c"}], Times <- {0, 1}, Counts <- {0}, Limit <- 2, MenuLimit <- 1,
  MaxChanges <- 2, Hiding <- TRUE, changes <- recentChanges

\* Archive, delete, rename, reload and restore: a batch over three chats; one
\* chat with list answers in between; every handler; restore while lists are
\* refreshed; restore that may be refused.
VARIABLES adminHub, page, busy, confirm, adminBatch, shown, adminArch, calls
adminVars == <<adminHub, page, busy, confirm, adminBatch, shown, adminArch, calls>>
AdminBatch == INSTANCE SessionAdmin WITH
  Sessions <- {1, 2, 3}, Age <- <<3, 8, 15>>, Days <- {7, 14}, FoldDays <- 5, MinShown <- 2, Slots <- {1}, Batches <- {1},
  Ops <- {"batch", "archive", "other", "fold"}, MayRefuse <- TRUE, hub <- adminHub, batch <- adminBatch, arch <- adminArch
AdminHandlers == INSTANCE SessionAdmin WITH
  Sessions <- {1}, Age <- <<8>>, Days <- {7, 14}, FoldDays <- 5, MinShown <- 2, Slots <- {1}, Batches <- {1},
  Ops <- {"archive", "rename", "reconnect", "list"}, MayRefuse <- TRUE, hub <- adminHub, batch <- adminBatch, arch <- adminArch
AdminEach == INSTANCE SessionAdmin WITH
  Sessions <- {1}, Age <- <<8>>, Days <- {7, 14}, FoldDays <- 5, MinShown <- 2, Slots <- {1}, Batches <- {1},
  Ops <- {"archive", "delete", "rename", "reload"}, MayRefuse <- TRUE, hub <- adminHub, batch <- adminBatch, arch <- adminArch
AdminRestore == INSTANCE SessionAdmin WITH
  Sessions <- {1}, Age <- <<8>>, Days <- {7, 14}, FoldDays <- 5, MinShown <- 2, Slots <- {1}, Batches <- {1},
  Ops <- {"archive", "archived", "restore", "list"}, MayRefuse <- FALSE, hub <- adminHub, batch <- adminBatch, arch <- adminArch
AdminRefused == INSTANCE SessionAdmin WITH
  Sessions <- {1}, Age <- <<8>>, Days <- {7, 14}, FoldDays <- 5, MinShown <- 2, Slots <- {1}, Batches <- {1},
  Ops <- {"archive", "archived", "restore"}, MayRefuse <- TRUE, hub <- adminHub, batch <- adminBatch, arch <- adminArch

\* Search over the chats: messages in order; answers that expire; messages out
\* of order; a tab switch.
VARIABLES tasks, searchWire, ans, ui, starts, searchBatch, loop, searchN
searchVars == <<tasks, searchWire, ans, ui, starts, searchBatch, loop, searchN>>
SearchOrdered == INSTANCE SessionSearch WITH
  Projects <- {"p"}, Matches <- 1, MaxTasks <- 8, MaxSearches <- 2, MaxTabs <- 1, Reorder <- FALSE, Expiry <- FALSE,
  wire <- searchWire, batch <- searchBatch, n <- searchN
SearchTwice == INSTANCE SessionSearch WITH
  Projects <- {"p"}, Matches <- 1, MaxTasks <- 1, MaxSearches <- 2, MaxTabs <- 0, Reorder <- FALSE, Expiry <- TRUE,
  wire <- searchWire, batch <- searchBatch, n <- searchN
SearchReorder == INSTANCE SessionSearch WITH
  Projects <- {"p"}, Matches <- 1, MaxTasks <- 1, MaxSearches <- 1, MaxTabs <- 0, Reorder <- TRUE, Expiry <- TRUE,
  wire <- searchWire, batch <- searchBatch, n <- searchN
SearchLive == INSTANCE SessionSearch WITH
  Projects <- {"p"}, Matches <- 1, MaxTasks <- 1, MaxSearches <- 2, MaxTabs <- 1, Reorder <- FALSE, Expiry <- FALSE,
  wire <- searchWire, batch <- searchBatch, n <- searchN

\* Archive, restore, reload and delete on the hub, every step failing and a
\* crash anywhere: one request at a time, archive after restore too; two at a
\* time.
VARIABLES lifeRow, files, lifeArch, mem, job, kept, deleted, alone, archives, cut, torn
lifeVars == <<lifeRow, files, lifeArch, mem, job, kept, deleted, alone, archives, cut, torn>>
LifeSteps == INSTANCE SessionLifecycle WITH
  Jobs <- {1}, MaxTurns <- 4, ShortTurns <- 2, MaxArchives <- 2, Overlap <- FALSE, Crashes <- TRUE,
  Faults <- {"append", "deleteRow", "deleteFiles", "writeTurns", "saveRow", "mark"}, row <- lifeRow, arch <- lifeArch
LifeOverlap == INSTANCE SessionLifecycle WITH
  Jobs <- {1, 2}, MaxTurns <- 1, ShortTurns <- 1, MaxArchives <- 1, Overlap <- TRUE, Crashes <- TRUE,
  Faults <- {"append", "deleteRow", "deleteFiles", "writeTurns", "saveRow", "mark"}, row <- lifeRow, arch <- lifeArch

\* Uploads: two chats; one chat with equal contents and a fault; no fault.
VARIABLES attachSel, draft, send, attachPending, uploads, parts, store, posts, attachHist, removed, prompt, tiles, attachFaults
attachVars == <<attachSel, draft, send, attachPending, uploads, parts, store, posts, attachHist, removed, prompt, tiles,
                attachFaults>>
AttachTwo == INSTANCE Attachments WITH
  Sessions <- {"s", "t"}, Contents <- {"x", "y"}, Uploads <- {1, 2}, MaxTiles <- 1, Twice <- FALSE, MaxFaults <- 0,
  sel <- attachSel, pending <- attachPending, hist <- attachHist, faults <- attachFaults
AttachOne == INSTANCE Attachments WITH
  Sessions <- {"s"}, Contents <- {"x", "y"}, Uploads <- {1, 2}, MaxTiles <- 2, Twice <- FALSE, MaxFaults <- 1, sel <- attachSel,
  pending <- attachPending, hist <- attachHist, faults <- attachFaults
AttachLive == INSTANCE Attachments WITH
  Sessions <- {"s"}, Contents <- {"x", "y"}, Uploads <- {1, 2}, MaxTiles <- 2, Twice <- FALSE, MaxFaults <- 0, sel <- attachSel,
  pending <- attachPending, hist <- attachHist, faults <- attachFaults

-----------------------------------------------------------------------------
ASSUME InstancesFit ==
  /\ SyncOrder!ConstantsAssumption /\ SyncFaults!ConstantsAssumption /\ SyncLive!ConstantsAssumption /\ PromptsQueue!ConstantsAssumption
  /\ PromptsCompact!ConstantsAssumption /\ PromptsRetry!ConstantsAssumption /\ PromptsForeign!ConstantsAssumption /\ PromptsLive!ConstantsAssumption
  /\ DraftsTwo!DraftSessionsConstants /\ DraftsLive!DraftSessionsConstants /\ DisplayViews!ChatDisplayConstants /\ DisplayLost!ChatDisplayConstants
  /\ DisplayLive!ChatDisplayConstants /\ ReplyChoice!OptionRepliesConstants /\ ReplyAsk!OptionRepliesConstants /\ IndexTwo!ChatIndexConstants
  /\ IndexLate!ChatIndexConstants /\ IndexQuiet!ChatIndexConstants /\ RecentLists!RecentSessionsConstants /\ AdminBatch!AdminConstants
  /\ AdminHandlers!AdminConstants /\ AdminEach!AdminConstants /\ AdminRestore!AdminConstants /\ AdminRefused!AdminConstants /\ SearchOrdered!SearchConstants
  /\ SearchTwice!SearchConstants /\ SearchReorder!SearchConstants /\ SearchLive!SearchConstants /\ LifeSteps!LifecycleConstants
  /\ LifeOverlap!LifecycleConstants /\ AttachTwo!AttachmentsConstants /\ AttachOne!AttachmentsConstants /\ AttachLive!AttachmentsConstants
\* The others keep their first state.
Init ==
  /\ part \in Parts
  /\ CASE part = "syncOrder" -> SyncOrder!Init [] part = "syncFaults" -> SyncFaults!Init [] OTHER -> SyncLive!Init
  /\ CASE part = "promptsQueue" -> PromptsQueue!Init [] part = "promptsCompact" -> PromptsCompact!Init [] part = "promptsRetry" -> PromptsRetry!Init [] part = "promptsForeign" -> PromptsForeign!Init [] OTHER -> PromptsLive!Init
  /\ CASE part = "draftsTwo" -> DraftsTwo!Init [] OTHER -> DraftsLive!Init
  /\ CASE part = "displayViews" -> DisplayViews!Init [] part = "displayLost" -> DisplayLost!Init [] OTHER -> DisplayLive!Init
  /\ CASE part = "replyAsk" -> ReplyAsk!Init [] OTHER -> ReplyChoice!Init
  /\ CASE part = "indexTwo" -> IndexTwo!Init [] part = "indexLate" -> IndexLate!Init [] OTHER -> IndexQuiet!Init
  /\ RecentLists!Init
  /\ CASE part = "adminHandlers" -> AdminHandlers!Init [] part = "adminEach" -> AdminEach!Init [] part = "adminRestore" -> AdminRestore!Init [] part = "adminRefused" -> AdminRefused!Init [] OTHER -> AdminBatch!Init
  /\ CASE part = "searchOrdered" -> SearchOrdered!Init [] part = "searchTwice" -> SearchTwice!Init [] part = "searchReorder" -> SearchReorder!Init [] OTHER -> SearchLive!Init
  /\ CASE part = "lifeOverlap" -> LifeOverlap!Init [] OTHER -> LifeSteps!Init
  /\ CASE part = "attachTwo" -> AttachTwo!Init [] part = "attachOne" -> AttachOne!Init [] OTHER -> AttachLive!Init
SyncAlone == UNCHANGED <<part, promptsVars, draftsVars, displayVars, replyVars, indexVars, recentVars, adminVars, searchVars, lifeVars,
                  attachVars>>
PromptsAlone == UNCHANGED <<part, syncVars, draftsVars, displayVars, replyVars, indexVars, recentVars, adminVars, searchVars, lifeVars, attachVars>>
DraftsAlone == UNCHANGED <<part, syncVars, promptsVars, displayVars, replyVars, indexVars, recentVars, adminVars, searchVars, lifeVars, attachVars>>
DisplayAlone == UNCHANGED <<part, syncVars, promptsVars, draftsVars, replyVars, indexVars, recentVars, adminVars, searchVars, lifeVars, attachVars>>
ReplyAlone == UNCHANGED <<part, syncVars, promptsVars, draftsVars, displayVars, indexVars, recentVars, adminVars, searchVars, lifeVars, attachVars>>
IndexAlone == UNCHANGED <<part, syncVars, promptsVars, draftsVars, displayVars, replyVars, recentVars, adminVars, searchVars, lifeVars, attachVars>>
RecentAlone == UNCHANGED <<part, syncVars, promptsVars, draftsVars, displayVars, replyVars, indexVars, adminVars, searchVars, lifeVars, attachVars>>
AdminAlone == UNCHANGED <<part, syncVars, promptsVars, draftsVars, displayVars, replyVars, indexVars, recentVars, searchVars, lifeVars, attachVars>>
SearchAlone == UNCHANGED <<part, syncVars, promptsVars, draftsVars, displayVars, replyVars, indexVars, recentVars, adminVars, lifeVars, attachVars>>
LifeAlone == UNCHANGED <<part, syncVars, promptsVars, draftsVars, displayVars, replyVars, indexVars, recentVars, adminVars, searchVars,
                  attachVars>>
AttachAlone == UNCHANGED <<part, syncVars, promptsVars, draftsVars, displayVars, replyVars, indexVars, recentVars, adminVars, searchVars, lifeVars>>
Next ==
  \/ part = "syncOrder" /\ SyncOrder!Next /\ SyncAlone
  \/ part = "syncFaults" /\ SyncFaults!Next /\ SyncAlone
  \/ part = "syncLive" /\ SyncLive!Next /\ SyncAlone
  \/ part = "promptsQueue" /\ PromptsQueue!Next /\ PromptsAlone
  \/ part = "promptsCompact" /\ PromptsCompact!Next /\ PromptsAlone
  \/ part = "promptsRetry" /\ PromptsRetry!Next /\ PromptsAlone
  \/ part = "promptsForeign" /\ PromptsForeign!Next /\ PromptsAlone
  \/ part = "promptsLive" /\ PromptsLive!Next /\ PromptsAlone
  \/ part = "draftsTwo" /\ DraftsTwo!Next /\ DraftsAlone
  \/ part = "draftsLive" /\ DraftsLive!Next /\ DraftsAlone
  \/ part = "displayViews" /\ DisplayViews!Next /\ DisplayAlone
  \/ part = "displayLost" /\ DisplayLost!Next /\ DisplayAlone
  \/ part = "displayLive" /\ DisplayLive!Next /\ DisplayAlone
  \/ part = "replyChoice" /\ ReplyChoice!Next /\ ReplyAlone
  \/ part = "replyAsk" /\ ReplyAsk!Next /\ ReplyAlone
  \/ part = "indexTwo" /\ IndexTwo!Next /\ IndexAlone
  \/ part = "indexLate" /\ IndexLate!Next /\ IndexAlone
  \/ part = "indexQuiet" /\ IndexQuiet!Next /\ IndexAlone
  \/ part = "recentLists" /\ RecentLists!Next /\ RecentAlone
  \/ part = "adminBatch" /\ AdminBatch!Next /\ AdminAlone
  \/ part = "adminHandlers" /\ AdminHandlers!Next /\ AdminAlone
  \/ part = "adminEach" /\ AdminEach!Next /\ AdminAlone
  \/ part = "adminRestore" /\ AdminRestore!Next /\ AdminAlone
  \/ part = "adminRefused" /\ AdminRefused!Next /\ AdminAlone
  \/ part = "searchOrdered" /\ SearchOrdered!Next /\ SearchAlone
  \/ part = "searchTwice" /\ SearchTwice!Next /\ SearchAlone
  \/ part = "searchReorder" /\ SearchReorder!Next /\ SearchAlone
  \/ part = "searchLive" /\ SearchLive!Next /\ SearchAlone
  \/ part = "lifeSteps" /\ LifeSteps!Next /\ LifeAlone
  \/ part = "lifeOverlap" /\ LifeOverlap!Next /\ LifeAlone
  \/ part = "attachTwo" /\ AttachTwo!Next /\ AttachAlone
  \/ part = "attachOne" /\ AttachOne!Next /\ AttachAlone
  \/ part = "attachLive" /\ AttachLive!Next /\ AttachAlone
vars == <<part, syncVars, promptsVars, draftsVars, displayVars, replyVars, indexVars, recentVars, adminVars, searchVars, lifeVars,
                attachVars>>
Spec == Init /\ [][Next]_vars
\* Fairness of the instance that moves, as its module states it.
SyncFair ==
  /\ WF_syncVars(part = "syncLive" /\ SyncLive!Receive)
  /\ WF_syncVars(part = "syncLive" /\ SyncLive!SendAnswer)
  /\ WF_syncVars(part = "syncLive" /\ SyncLive!Connect)
  /\ WF_syncVars(part = "syncLive" /\ SyncLive!bindRepository)
  /\ WF_syncVars(part = "syncLive" /\ SyncLive!RepositoryInPlace)
  /\ WF_syncVars(part = "syncLive" /\ SyncLive!syncChatSessionsAfterReconnect)
  /\ \A j \in SyncLive!Jobs : WF_syncVars(part = "syncLive" /\ SyncLive!AnswerRead(j))
PromptsFair ==
  /\ WF_promptsVars(part = "promptsLive" /\ PromptsLive!AttachmentsReady)
  /\ WF_promptsVars(part = "promptsLive" /\ PromptsLive!Receive)
  /\ WF_promptsVars(part = "promptsLive" /\ \E r \in promptsWire : PromptsLive!HubTake(r))
  /\ WF_promptsVars(part = "promptsLive" /\ PromptsLive!HubAnswerCompact)
  /\ WF_promptsVars(part = "promptsLive" /\ PromptsLive!HubFinish)
  /\ WF_promptsVars(part = "promptsLive" /\ PromptsLive!HubRelease)
  /\ WF_promptsVars(part = "promptsLive" /\ PromptsLive!DrainPrompt)
  /\ WF_promptsVars(part = "promptsLive" /\ PromptsLive!DrainCompact)
  /\ WF_promptsVars(part = "promptsLive" /\ PromptsLive!Reconnect)
  /\ WF_promptsVars(part = "promptsLive" /\ PromptsLive!VoiceFinal)
DraftsFair ==
  /\ \A d \in {"d"} : WF_draftsVars(part = "draftsLive" /\ DraftsLive!HubCreates(d))
  /\ \A d \in {"d"} : WF_draftsVars(part = "draftsLive" /\ DraftsLive!SessionUpdated(d))
  /\ \A d \in {"d"} : WF_draftsVars(part = "draftsLive" /\ DraftsLive!Confirmed(d))
  /\ \A d \in {"d"} : WF_draftsVars(part = "draftsLive" /\ DraftsLive!Answered(d))
DisplayFair ==
  /\ \A i \in 1..6 : WF_displayVars(part = "displayLive" /\ DisplayLive!Receive(i))
  /\ WF_displayVars(part = "displayLive" /\ DisplayLive!SummaryArrives)
  /\ WF_displayVars(part = "displayLive" /\ DisplayLive!FinishPrompt)
  /\ WF_displayVars(part = "displayLive" /\ DisplayLive!FinishCompaction)
IndexFair ==
  /\ WF_indexVars(part = "indexQuiet" /\ (IndexQuiet!ProjectsArrive \/ IndexQuiet!ProjectsFail))
  /\ WF_indexVars(part = "indexQuiet" /\ IndexQuiet!OnEvent)
  /\ WF_indexVars(part = "indexQuiet" /\ IndexQuiet!MarkAnswer)
  /\ WF_indexVars(part = "indexQuiet" /\ IndexQuiet!Reconnect)
  /\ \A p \in {"p", "q"} : WF_indexVars(part = "indexQuiet" /\ IndexQuiet!Answers(p))
  /\ \A p \in {"p", "q"} : WF_indexVars(part = "indexQuiet" /\ IndexQuiet!WideAnswers(p))
SearchFair ==
  /\ WF_searchVars(part = "searchLive" /\ SearchLive!Poll)
  /\ WF_searchVars(part = "searchLive" /\ SearchLive!PollAgain)
  /\ WF_searchVars(part = "searchLive" /\ (\E s \in starts : SearchLive!startSessionSearch(s) \/ SearchLive!Started(s)))
  /\ \A p \in {"p"} : WF_searchVars(part = "searchLive" /\ SearchLive!Handle(p))
  /\ \A p \in {"p"} : WF_searchVars(part = "searchLive" /\ SearchLive!Arrive(p))
  /\ \A p \in {"p"} : \A i \in SearchLive!Ids : WF_searchVars(part = "searchLive" /\ SearchLive!RunTask(p, i))
AttachFair ==
  /\ \A s \in {"s"} : WF_attachVars(part = "attachLive" /\ (AttachLive!Continues(s) \/ AttachLive!Called(s)))
  /\ WF_attachVars(part = "attachLive" /\ \E p \in posts : AttachLive!ServePost(p))
  /\ WF_attachVars(part = "attachLive" /\ \E u \in uploads : AttachLive!BecomesIdle(u))
FairSpec == Spec /\ SyncFair /\ PromptsFair /\ DraftsFair /\ DisplayFair /\ IndexFair /\ SearchFair /\ AttachFair
-----------------------------------------------------------------------------
\* The state of the instance that moves has its type.
TypeOK ==
  /\ (part = "syncOrder" => SyncOrder!TypeOK) /\ (part = "promptsQueue" => PromptsQueue!TypeOK)
  /\ (part = "draftsTwo" => DraftsTwo!TypeOK) /\ (part = "displayViews" => DisplayViews!TypeOK)
  /\ (part = "displayLost" => DisplayLost!TypeOK) /\ (part = "indexTwo" => IndexTwo!TypeOK)
  /\ (part = "recentLists" => RecentLists!TypeOK) /\ (part = "adminHandlers" => AdminHandlers!TypeOK)
  /\ (part = "adminEach" => AdminEach!TypeOK) /\ (part = "searchOrdered" => SearchOrdered!TypeOK)
  /\ (part = "lifeSteps" => LifeSteps!TypeOK) /\ (part = "attachTwo" => AttachTwo!TypeOK)

\* ChatSync (chatTurnStores.ts, chatReadRepair.ts, chatDurablePersist.ts): in
\* whatever order events, answers to reads, late ones too, cache merges,
\* reconnects and restarts come, the finished turns are exactly 1..cursor, in
\* memory and in the durable cache, and a repair counts as in flight exactly
\* while its read is.  Until the hub loses turns in a restart a finished turn
\* has its final text; and until then, as long as no answer was overtaken and no
\* read failed, the selected chat shows the whole log once nothing is on the
\* way.  What an overtaken answer does is the run chat_late_answer.
SyncKeepsTheLog ==
  /\ part = "syncOrder" => SyncOrder!SealedIsFinal /\ SyncOrder!QuiescentComplete
  /\ part = "syncFaults" => /\ SyncFaults!PrefixStore /\ SyncFaults!DurablePrefix /\ SyncFaults!RepairMatchesRead
                            /\ SyncFaults!SealedIsFinal /\ SyncFaults!QuiescentComplete

\* ChatPrompts (chatPromptQueue.ts and the submit handlers of
\* WorkspaceApp.tsx): through timeouts, drops and prompts of another device a
\* prompt is executed at most once for each time the user sent it, a Retry being
\* one more; when nothing is on the way the compaction sign says what the hub
\* does.  On a connection that holds, with voice input unused and nobody else
\* prompting, a prompt that got lost was shown as undelivered before, queued ones
\* leave in their order unless moved, and Stop becomes available again.
PromptsArriveOnce ==
  /\ part = "promptsQueue" => PromptsQueue!LossIsShown /\ PromptsQueue!FifoQueue /\ PromptsQueue!CancelEnds
  /\ part = "promptsRetry" => PromptsRetry!OncePerSend
  /\ part = "promptsForeign" => PromptsForeign!OncePerSend
  /\ part = "promptsCompact" => PromptsCompact!CompactingIsReal

\* DraftSessions and Attachments: a draft and the session made from it are
\* never both listed and every composer with text can be reached; a tile that
\* shows progress is being uploaded by the send of its session, a sent one has
\* left the draft, and one that shows as uploaded is stored at the hub.
ComposersKeepTheirContent ==
  /\ part = "draftsTwo" => DraftsTwo!ShownOnce /\ DraftsTwo!Reachable
  /\ part = "attachTwo" => AttachTwo!UploadingIsReal /\ AttachTwo!SentLeavesDraft
  /\ part = "attachOne" => AttachOne!UploadingIsReal /\ AttachOne!CompletedIsStored

\* ChatDisplay and OptionReplies: with turns missing and arriving in any
\* order, a copied answer is whole, a prompt shown as ended has ended, the
\* plan and the offers are those of the newest prompt, an operation has one
\* row and a jump lands on its turn; the offers are the last choice or
\* question of the text, and cutting the text at them loses no line.
RowsAreHonest ==
  /\ part = "displayViews" => DisplayViews!CopyIsWhole /\ DisplayViews!StatusHonest /\ DisplayViews!PlanIsCurrent /\ DisplayViews!OffersAreCurrent /\ DisplayViews!RowPerOperation /\ DisplayViews!JumpLands
  /\ part = "displayLost" => DisplayLost!JumpLands
  /\ part = "replyChoice" => ReplyChoice!OffersLastChoice /\ ReplyChoice!SplitKeepsText
  /\ part = "replyAsk" => ReplyAsk!SplitKeepsText /\ ReplyAsk!AsksLast

\* ChatIndex, RecentSessions, SessionAdmin and SessionSearch: a refresh asked
\* for while one ran still comes and the full one waits for it; the menu
\* leaves out no better session; a batch that is over reports every candidate,
\* folding hides no session for good and a restored one is listed; what a
\* search shows was found by the active search, completely once its projects
\* are done.
ListsAreCurrent ==
  /\ part = "indexTwo" => IndexTwo!WaitsForRunning /\ IndexTwo!FollowUpRuns
  /\ part = "indexLate" => IndexLate!WaitsForRunning
  /\ part = "recentLists" => RecentLists!MenuHasBest /\ RecentLists!GroupedOnce
  /\ part = "adminBatch" => AdminBatch!BatchReports /\ AdminBatch!FoldKeepsAll
  /\ (part = "adminRestore" => AdminRestore!RestoredIsListed) /\ (part = "adminRefused" => AdminRefused!RestoredIsListed)
  /\ part = "searchOrdered" => SearchOrdered!SearchesSucceed
  /\ part = "searchTwice" => SearchTwice!ShownIsActive /\ SearchTwice!DoneShowsAll
  /\ part = "searchReorder" => SearchReorder!ShownIsActive /\ SearchReorder!DoneShowsAll

\* SessionLifecycle (client.go, session_archive.go), requests served one at a
\* time: after every crash and failing step of archive, restore and delete,
\* until a session is archived a second time (the run lifecycle_archive_again)
\* turns the user has not deleted are in a listed session or a listed archive
\* entry; a listed session has its files, unless a restore was taken back by
\* half; and when nothing is served a session has one home, unless an archive
\* or a restore was cut off between its two records.  With requests side by
\* side, a deleted session stays deleted if none was served beside the delete.
SessionIsNeverLost ==
  /\ part = "lifeSteps" => LifeSteps!NothingLostAtFirst /\ LifeSteps!RowHasFiles /\ LifeSteps!OneHome /\ LifeSteps!DeletedStaysDeleted
  /\ part = "lifeOverlap" => LifeOverlap!DeletedStaysDeleted

\* A finished turn stays finished until the page is reloaded, the hub restarts or
\* an overtaken answer brings it back as open; a prompt is blamed for its own call,
\* or for that of another prompt only when a timer fired too early for that one;
\* what was typed before its session exists is kept, sent or dismissed, plain text
\* that follows keeps the offers, and a failed refresh takes no session out of the
\* list.
NothingIsTakenBack ==
  /\ [][part = "syncOrder" => SyncOrder!FinishedStaysStep]_syncVars
  /\ [][part = "syncFaults" => SyncFaults!FinishedStaysStep]_syncVars
  /\ [][part = "promptsQueue" => PromptsQueue!BlameOwnCallStep]_promptsVars
  /\ [][part = "promptsRetry" => PromptsRetry!BlameOwnCallStep]_promptsVars
  /\ [][part = "draftsTwo" => DraftsTwo!TypedIsKeptStep]_draftsVars
  /\ [][part = "replyChoice" => ReplyChoice!PlainTextKeepsOffersStep]_replyVars
  /\ [][part = "indexTwo" => IndexTwo!KeepsOldStep]_indexVars

\* After a lost connection the selected chat comes to show the whole log and,
\* no list failing, a quiet index becomes that of the hub; with no turn missing
\* for good an idle hub is seen idle; and a search whose answers do not expire,
\* and that stays open, ends.
PageCatchesUp ==
  /\ (part = "syncLive" => SyncLive!Converges)
  /\ (part = "displayLive" => DisplayLive!IdleIsSeen)
  /\ (part = "indexQuiet" => IndexQuiet!Converges)
  /\ (part = "searchLive" => SearchLive!SearchFinishes)

\* On a connection that holds the composer unlocks after every submission, and a
\* queued prompt is executed, shown as undelivered or taken back, except one that
\* leaves the queue while voice input awaits its text, which is dropped; no row
\* says for ever that it creates its session, no tile that it uploads.
ComposerComesFree ==
  /\ (part = "promptsLive" => PromptsLive!ComposerUnlocks /\ PromptsLive!QueueDrains)
  /\ (part = "draftsLive" => DraftsLive!RowSettles)
  /\ (part = "attachLive" => AttachLive!UploadEnds)

=============================================================================
