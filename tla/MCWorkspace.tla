--------------------------- MODULE MCWorkspace ---------------------------
(***************************************************************************)
(* Instances for TLC of the components behind the workspace: connection,   *)
(* browser storage, preview, file tree, files, git and file search.  They  *)
(* share no state, so a run takes them side by side: part names the        *)
(* instance a behaviour is about.  The parts of each property are stated   *)
(* in the modules of their components.                                     *)
(***************************************************************************)
EXTENDS Integers, Sequences, FiniteSets

CONSTANT Parts \* the instances a run explores
VARIABLE part  \* the one a behaviour is about

Rank(n) == CASE n = "a" -> 1 [] n = "b" -> 2 [] n = "c" -> 3 [] n = "r" -> 4 [] n = "s" -> 5 [] n = "t" -> 6
ByName(p, q) == \E i \in 1..(Len(q)) : (\A j \in 1..(i - 1) : j <= Len(p) /\ p[j] = q[j]) /\ (i > Len(p) \/ Rank(p[i]) < Rank(q[i]))
D(p) == [kind |-> "dir", path |-> p]
F(p) == [kind |-> "file", path |-> p]
OldAndNew(d) ==
  CASE d = <<>> -> {<<D(<<"s">>), F(<<"r">>)>>, <<F(<<"r">>)>>}
    [] d = <<"s">> -> {<<D(<<"s", "t">>), F(<<"s", "b">>), F(<<"s", "a">>)>>, <<F(<<"s", "b">>)>>}
    [] d = <<"s", "t">> -> {<<F(<<"s", "t", "c">>)>>, <<>>}

\* Connection of the page: drops and failed attempts; logout and offline; a
\* page that is hidden and offline; drops alone.
VARIABLES sock, repo, bound, conn, req, connTimer, started, managed, connConnected, reconnecting, connError, connProject, tried,
          auth, hidden, online, voice, connUsed
connVars == <<sock, repo, bound, conn, req, connTimer, started, managed, connConnected, reconnecting, connError, connProject,
              tried, auth, hidden, online, voice, connUsed>>
ConnCore == INSTANCE Connection WITH
  Requests <- {"read"}, MaxDrops <- 3, MaxHides <- 0, MaxOffline <- 0, MaxFails <- 2, MaxLogouts <- 0, MaxCalls <- 1,
  timer <- connTimer, connected <- connConnected, error <- connError, project <- connProject, used <- connUsed
ConnLogout == INSTANCE Connection WITH
  Requests <- {"read"}, MaxDrops <- 1, MaxHides <- 0, MaxOffline <- 1, MaxFails <- 0, MaxLogouts <- 1, MaxCalls <- 1,
  timer <- connTimer, connected <- connConnected, error <- connError, project <- connProject, used <- connUsed
ConnHidden == INSTANCE Connection WITH
  Requests <- {"read"}, MaxDrops <- 1, MaxHides <- 1, MaxOffline <- 1, MaxFails <- 1, MaxLogouts <- 0, MaxCalls <- 1,
  timer <- connTimer, connected <- connConnected, error <- connError, project <- connProject, used <- connUsed
ConnLive == INSTANCE Connection WITH
  Requests <- {}, MaxDrops <- 3, MaxHides <- 0, MaxOffline <- 0, MaxFails <- 3, MaxLogouts <- 0, MaxCalls <- 0, timer <- connTimer,
  connected <- connConnected, error <- connError, project <- connProject, used <- connUsed

\* Browser storage: chats of two sessions with a crash and a failing write;
\* settings and caches; both at once.
VARIABLES cacheMem, db, wq, dq, late, phase, clock, cacheError, cleaned, chatOps, otherOps, fails, crashes
cacheVars == <<cacheMem, db, wq, dq, late, phase, clock, cacheError, cleaned, chatOps, otherOps, fails, crashes>>
CacheChat == INSTANCE ClientCache WITH
  NSessions <- 2, MaxTurn <- 2, NKeys <- 1, Caches <- {"commits"}, Limit <- 2, MaxBytes <- 2, DiffLimit <- 1, MaxAge <- 1,
  Settings <- {"theme"}, ChatOps <- 2, OtherOps <- 0, MaxClock <- 1, MaxFails <- 1, MaxCrashes <- 1, mem <- cacheMem,
  error <- cacheError
CacheRest == INSTANCE ClientCache WITH
  NSessions <- 1, MaxTurn <- 1, NKeys <- 2, Caches <- {"diff", "file"}, Limit <- 2, MaxBytes <- 2, DiffLimit <- 1, MaxAge <- 1,
  Settings <- {"theme", "font"}, ChatOps <- 0, OtherOps <- 3, MaxClock <- 1, MaxFails <- 2, MaxCrashes <- 1, mem <- cacheMem,
  error <- cacheError
CacheMixed == INSTANCE ClientCache WITH
  NSessions <- 1, MaxTurn <- 2, NKeys <- 2, Caches <- {"commits"}, Limit <- 1, MaxBytes <- 2, DiffLimit <- 1, MaxAge <- 1,
  Settings <- {"theme"}, ChatOps <- 2, OtherOps <- 1, MaxClock <- 0, MaxFails <- 2, MaxCrashes <- 1, mem <- cacheMem,
  error <- cacheError

\* Preview panes: a file, an image and a relay tab in one project; in two;
\* reloads of a file and a diff; images shown inline; a file and a text.
VARIABLES wb, saved, previewSeq, previewLoads, previewConnected, click, previewUsed
previewVars == <<wb, saved, previewSeq, previewLoads, previewConnected, click, previewUsed>>
PreviewTabs == INSTANCE PreviewWorkbench WITH
  Projects <- {"p"}, TabIds <- {"f", "i", "r"}, Kind <- [f |-> "file", i |-> "image", r |-> "relay"], MaxLoads <- 2,
  MaxReloads <- 1, seq <- previewSeq, loads <- previewLoads, connected <- previewConnected, used <- previewUsed
PreviewTwo == INSTANCE PreviewWorkbench WITH
  Projects <- {"p", "q"}, TabIds <- {"f", "i", "r"}, Kind <- [f |-> "file", i |-> "image", r |-> "relay"], MaxLoads <- 1,
  MaxReloads <- 1, seq <- previewSeq, loads <- previewLoads, connected <- previewConnected, used <- previewUsed
PreviewLoads == INSTANCE PreviewWorkbench WITH
  Projects <- {"p"}, TabIds <- {"f", "d"}, Kind <- [f |-> "file", d |-> "diff"], MaxLoads <- 3, MaxReloads <- 1, seq <- previewSeq,
  loads <- previewLoads, connected <- previewConnected, used <- previewUsed
PreviewInline == INSTANCE PreviewWorkbench WITH
  Projects <- {"p"}, TabIds <- {"n", "i"}, Kind <- [n |-> "inline", i |-> "image"], MaxLoads <- 3, MaxReloads <- 1,
  seq <- previewSeq, loads <- previewLoads, connected <- previewConnected, used <- previewUsed
PreviewLive == INSTANCE PreviewWorkbench WITH
  Projects <- {"p"}, TabIds <- {"f", "t"}, Kind <- [f |-> "file", t |-> "text"], MaxLoads <- 3, MaxReloads <- 1, seq <- previewSeq,
  loads <- previewLoads, connected <- previewConnected, used <- previewUsed

\* File tree while the project is switched; while it is connected and
\* refreshed.
VARIABLES treeVer, treeRef, sel, tree, expanded, remembered, cache, hash, treeLoads, jobs, pane, ploads, treeUsed
treeVars == <<treeVer, treeRef, sel, tree, expanded, remembered, cache, hash, treeLoads, jobs, pane, ploads, treeUsed>>
TreeSwitch == INSTANCE ProjectTree WITH
  Projects <- {"p", "q"}, Dirs <- {"d"}, MaxChanges <- 1, MaxLoads <- 2, MaxSwitches <- 2, MaxRefreshes <- 0, MaxConnects <- 0,
  ver <- treeVer, ref <- treeRef, loads <- treeLoads, used <- treeUsed
TreePreview == INSTANCE ProjectTree WITH
  Projects <- {"p", "q"}, Dirs <- {"d"}, MaxChanges <- 0, MaxLoads <- 1, MaxSwitches <- 1, MaxRefreshes <- 1, MaxConnects <- 1,
  ver <- treeVer, ref <- treeRef, loads <- treeLoads, used <- treeUsed

\* Open file: two files of two projects, with reconnects and tabs; a file edited
\* between reads; one that appears.
VARIABLES fileVer, fileRef, file, chosen, tab, shown, loading, fileSeq, reads, fileMem, disk, disabled, skip, fileUsed
fileVars == <<fileVer, fileRef, file, chosen, tab, shown, loading, fileSeq, reads, fileMem, disk, disabled, skip, fileUsed>>
FileRaces == INSTANCE FileView WITH
  Projects <- {"p", "q"}, Names <- {"f", "g"}, MaxEdits <- 0, MaxReads <- 2, MaxSwitches <- 2, MaxReconnects <- 1, MaxToggles <- 1,
  ver <- fileVer, ref <- fileRef, seq <- fileSeq, mem <- fileMem, used <- fileUsed
FileCache == INSTANCE FileView WITH
  Projects <- {"p"}, Names <- {"f"}, MaxEdits <- 1, MaxReads <- 3, MaxSwitches <- 0, MaxReconnects <- 1, MaxToggles <- 2,
  ver <- fileVer, ref <- fileRef, seq <- fileSeq, mem <- fileMem, used <- fileUsed
FileLive == INSTANCE FileView WITH
  Projects <- {"p", "q"}, Names <- {"f"}, MaxEdits <- 1, MaxReads <- 2, MaxSwitches <- 2, MaxReconnects <- 0, MaxToggles <- 0,
  ver <- fileVer, ref <- fileRef, seq <- fileSeq, mem <- fileMem, used <- fileUsed

\* Git pane: lists while the repository changes and the project is switched;
\* diffs; a list that fails.
VARIABLES gitC, rev, gitN
gitVars == <<gitC, rev, gitN>>
GitLists == INSTANCE GitView WITH
  Projects <- {"p", "q"}, First <- "p", Diffs <- FALSE, MaxChange <- 1, MaxSwitch <- 1, MaxClick <- 3, MaxFail <- 0, MaxTasks <- 1,
  c <- gitC, n <- gitN
GitDiffs == INSTANCE GitView WITH
  Projects <- {"p", "q"}, First <- "p", Diffs <- TRUE, MaxChange <- 0, MaxSwitch <- 1, MaxClick <- 2, MaxFail <- 0, MaxTasks <- 1,
  c <- gitC, n <- gitN
GitLive == INSTANCE GitView WITH
  Projects <- {"p", "q"}, First <- "p", Diffs <- FALSE, MaxChange <- 0, MaxSwitch <- 1, MaxClick <- 2, MaxFail <- 1, MaxTasks <- 2,
  c <- gitC, n <- gitN

\* File search: mentions in the composer; the tree; quick open; mentions of one
\* answer.
VARIABLES findProject, quickProject, open, box, findTimer, calls, taken
findVars == <<findProject, quickProject, open, box, findTimer, calls, taken>>
FindMention == INSTANCE FileSearch WITH
  Projects <- {"a", "b"}, Queries <- {"x", "xy"}, Boxes <- {"mention"}, MaxResults <- 1, MaxCalls <- 2, project <- findProject,
  timer <- findTimer
FindTree == INSTANCE FileSearch WITH
  Projects <- {"a", "b"}, Queries <- {"x", "xy"}, Boxes <- {"tree"}, MaxResults <- 2, MaxCalls <- 2, project <- findProject,
  timer <- findTimer
FindQuick == INSTANCE FileSearch WITH
  Projects <- {"a", "b"}, Queries <- {"x", "xy"}, Boxes <- {"quick"}, MaxResults <- 1, MaxCalls <- 2, project <- findProject,
  timer <- findTimer
FindLive == INSTANCE FileSearch WITH
  Projects <- {"a", "b"}, Queries <- {"x"}, Boxes <- {"mention"}, MaxResults <- 1, MaxCalls <- 1, project <- findProject,
  timer <- findTimer

\* Results as a tree of four files in three directories.
VARIABLES results, dirEntries, collapsed, activeIndex, ordered
resultVars == <<results, dirEntries, collapsed, activeIndex, ordered>>
ResultFour == INSTANCE FileResultTree WITH
  Paths <- {<<"s", "a">>, <<"s", "b">>, <<"s", "t", "c">>, <<"r">>}, Directories <- {<<>>, <<"s">>, <<"s", "t">>}, Less <- ByName,
  Listing <- OldAndNew, MaxResults <- 2

-----------------------------------------------------------------------------
ASSUME InstancesFit ==
  /\ ConnCore!BoundsAreNatural /\ ConnLogout!BoundsAreNatural /\ ConnHidden!BoundsAreNatural /\ ConnLive!BoundsAreNatural
  /\ CacheChat!BoundsAreNatural /\ CacheRest!BoundsAreNatural /\ CacheMixed!BoundsAreNatural /\ PreviewTabs!BoundsAreNatural
  /\ PreviewTabs!KindsOfTabs /\ PreviewTwo!BoundsAreNatural /\ PreviewTwo!KindsOfTabs /\ PreviewLoads!BoundsAreNatural
  /\ PreviewLoads!KindsOfTabs /\ PreviewInline!BoundsAreNatural /\ PreviewInline!KindsOfTabs /\ PreviewLive!BoundsAreNatural
  /\ PreviewLive!KindsOfTabs /\ TreeSwitch!BoundsAreNatural /\ TreePreview!BoundsAreNatural /\ FileRaces!BoundsAreNatural
  /\ FileCache!BoundsAreNatural /\ FileLive!BoundsAreNatural /\ GitLists!GitConstants /\ GitDiffs!GitConstants
  /\ GitLive!GitConstants /\ FindMention!FileSearchConstants /\ FindTree!FileSearchConstants /\ FindQuick!FileSearchConstants
  /\ FindLive!FileSearchConstants /\ ResultFour!FileResultTreeConstants
\* The others keep their first state.
Init ==
  /\ part \in Parts
  /\ CASE part = "connCore" -> ConnCore!Init [] part = "connLogout" -> ConnLogout!Init [] part = "connHidden" -> ConnHidden!Init [] OTHER -> ConnLive!Init
  /\ CASE part = "cacheRest" -> CacheRest!Init [] part = "cacheMixed" -> CacheMixed!Init [] OTHER -> CacheChat!Init
  /\ part \in {"cacheChat", "cacheRest", "cacheMixed"} \/ (db = cacheMem)
  /\ CASE part = "previewTabs" -> PreviewTabs!Init [] part = "previewTwo" -> PreviewTwo!Init [] part = "previewLoads" -> PreviewLoads!Init [] part = "previewInline" -> PreviewInline!Init [] OTHER -> PreviewLive!Init
  /\ CASE part = "treePreview" -> TreePreview!Init [] OTHER -> TreeSwitch!Init
  /\ part \in {"treeSwitch", "treePreview"} \/ (treeRef = "p")
  /\ CASE part = "fileRaces" -> FileRaces!Init [] part = "fileCache" -> FileCache!Init [] OTHER -> FileLive!Init
  /\ part \in {"fileLive", "fileRaces", "fileCache"} \/ (fileRef = "p")
  /\ CASE part = "gitLists" -> GitLists!Init [] part = "gitDiffs" -> GitDiffs!Init [] OTHER -> GitLive!Init
  /\ CASE part = "findMention" -> FindMention!Init [] part = "findTree" -> FindTree!Init [] part = "findQuick" -> FindQuick!Init [] OTHER -> FindLive!Init
  /\ ResultFour!Init
  /\ part \in {"resultFour"} \/ (ordered = FALSE)
ConnAlone == UNCHANGED <<part, cacheVars, previewVars, treeVars, fileVars, gitVars, findVars, resultVars>>
CacheAlone == UNCHANGED <<part, connVars, previewVars, treeVars, fileVars, gitVars, findVars, resultVars>>
PreviewAlone == UNCHANGED <<part, connVars, cacheVars, treeVars, fileVars, gitVars, findVars, resultVars>>
TreeAlone == UNCHANGED <<part, connVars, cacheVars, previewVars, fileVars, gitVars, findVars, resultVars>>
FileAlone == UNCHANGED <<part, connVars, cacheVars, previewVars, treeVars, gitVars, findVars, resultVars>>
GitAlone == UNCHANGED <<part, connVars, cacheVars, previewVars, treeVars, fileVars, findVars, resultVars>>
FindAlone == UNCHANGED <<part, connVars, cacheVars, previewVars, treeVars, fileVars, gitVars, resultVars>>
ResultAlone == UNCHANGED <<part, connVars, cacheVars, previewVars, treeVars, fileVars, gitVars, findVars>>
Next ==
  \/ part = "connCore" /\ ConnCore!Next /\ ConnAlone
  \/ part = "connLogout" /\ ConnLogout!Next /\ ConnAlone
  \/ part = "connHidden" /\ ConnHidden!Next /\ ConnAlone
  \/ part = "connLive" /\ ConnLive!Next /\ ConnAlone
  \/ part = "cacheChat" /\ CacheChat!Next /\ CacheAlone
  \/ part = "cacheRest" /\ CacheRest!Next /\ CacheAlone
  \/ part = "cacheMixed" /\ CacheMixed!Next /\ CacheAlone
  \/ part = "previewTabs" /\ PreviewTabs!Next /\ PreviewAlone
  \/ part = "previewTwo" /\ PreviewTwo!Next /\ PreviewAlone
  \/ part = "previewLoads" /\ PreviewLoads!Next /\ PreviewAlone
  \/ part = "previewInline" /\ PreviewInline!Next /\ PreviewAlone
  \/ part = "previewLive" /\ PreviewLive!Next /\ PreviewAlone
  \/ part = "treeSwitch" /\ TreeSwitch!Next /\ TreeAlone
  \/ part = "treePreview" /\ TreePreview!Next /\ TreeAlone
  \/ part = "fileRaces" /\ FileRaces!Next /\ FileAlone
  \/ part = "fileCache" /\ FileCache!Next /\ FileAlone
  \/ part = "fileLive" /\ FileLive!Next /\ FileAlone
  \/ part = "gitLists" /\ GitLists!Next /\ GitAlone
  \/ part = "gitDiffs" /\ GitDiffs!Next /\ GitAlone
  \/ part = "gitLive" /\ GitLive!Next /\ GitAlone
  \/ part = "findMention" /\ FindMention!Next /\ FindAlone
  \/ part = "findTree" /\ FindTree!Next /\ FindAlone
  \/ part = "findQuick" /\ FindQuick!Next /\ FindAlone
  \/ part = "findLive" /\ FindLive!Next /\ FindAlone
  \/ part = "resultFour" /\ ResultFour!Next /\ ResultAlone
vars == <<part, connVars, cacheVars, previewVars, treeVars, fileVars, gitVars, findVars, resultVars>>
Spec == Init /\ [][Next]_vars
\* Fairness of the instance that moves, as its module states it.
ConnFair ==
  /\ WF_connVars(part = "connLive" /\ ConnLive!Attempt)
  /\ WF_connVars(part = "connLive" /\ conn.step = "broken" /\ ConnLive!AttemptFails)
  /\ WF_connVars(part = "connLive" /\ ConnLive!TimerFires)
PreviewFair ==
  /\ WF_previewVars(part = "previewLive" /\ PreviewLive!loadRestoredPreviewTab)
  /\ WF_previewVars(part = "previewLive" /\ PreviewLive!Settles)
FileFair ==
  /\ WF_fileVars(part = "fileLive" /\ FileLive!Settles)
GitFair ==
  /\ WF_gitVars(part = "gitLive" /\ \E t \in gitC.tasks : GitLive!Answer(t))
FindFair ==
  /\ \A b \in {"mention"} : WF_findVars(part = "findLive" /\ FindLive!Room /\ FindLive!TimerEnds(b))
  /\ \A b \in {"mention"} : \A p \in {"a", "b"} : \A q \in {"x"} \cup {""} : WF_findVars(part = "findLive" /\ (\E c \in calls : c.box = b /\ c.project = p /\ c.query = q /\ (FindLive!Answer(c) \/ FindLive!Failure(c))))
FairSpec == Spec /\ ConnFair /\ PreviewFair /\ FileFair /\ GitFair /\ FindFair
-----------------------------------------------------------------------------
\* The state of the instance that moves has its type.
TypeOK ==
  /\ (part = "connCore" => ConnCore!TypeOK) /\ (part = "cacheChat" => CacheChat!TypeOK)
  /\ (part = "previewTabs" => PreviewTabs!TypeOK) /\ (part = "treeSwitch" => TreeSwitch!TypeOK)
  /\ (part = "fileRaces" => FileRaces!TypeOK) /\ (part = "gitLists" => GitLists!TypeOK)
  /\ (part = "findMention" => FindMention!TypeOK) /\ (part = "resultFour" => ResultFour!TypeOK)

\* Connection (RegistryClient.ts, RegistryWorkspaceService.ts, the supervisor
\* of WorkspaceApp.tsx): through drops and failing attempts a page that is not
\* connected is connecting, about to, or says that it gave up; hiding it, taking
\* it offline and logging out strand it only by the supervisor's flag left from a
\* disconnect without a client, or after a return to the login that finds the
\* session valid.  In all of this a page that shows itself connected hears its
\* registry, has an attempt under way or has told the user; every open socket
\* belongs to the current client or the attempt in flight; and no request waits
\* on a closed client.
ConnectionIsHonest ==
  /\ [](part = "connCore" => ConnCore!NotStranded /\ ConnCore!ConnectedHears)
  /\ [](part = "connLogout" => ConnLogout!ConnectedHears /\ ConnLogout!NoLeakedSocket /\ ConnLogout!NoOrphanRequest)
  /\ [](part = "connHidden" => ConnHidden!ConnectedHears /\ ConnHidden!NoLeakedSocket /\ ConnHidden!NoOrphanRequest)
  /\ [][part = "connLogout" => ConnLogout!StrandedStep]_connVars
  /\ [][part = "connHidden" => ConnHidden!StrandedStep]_connVars

\* ClientCache (WorkspacePersistence.ts): whatever was evicted, lost in a
\* crash or cleared for a quota, the cursor a page continues from never passes
\* the turns it holds; the caches keep their budgets; when nothing is pending
\* the database holds the settings and the caches of memory, or the user was
\* told; and credentials of older versions are deleted before the page is
\* usable.
CacheSurvives ==
  /\ part = "cacheChat" => CacheChat!CursorCovered /\ CacheChat!WithinBudget
  /\ part = "cacheMixed" => CacheMixed!CursorCovered
  /\ part = "cacheRest" => CacheRest!SettingsDurable /\ CacheRest!CachesFollow /\ CacheRest!CredentialsGone

\* PreviewWorkbench, FileView and GitView: whatever order reads are answered
\* in, a preview pane at rest shows what its last request brought, of its own
\* tab, file and key, and its spinner has a read under way that will end it; so
\* does the file view, unless a file was chosen while the flag of an earlier
\* reconnect was set or the project was switched off the File tab; and where the
\* git refresh would be skipped the lists are those of the known revisions.
PanesShowWhatWasAsked ==
  /\ [](part = "previewTabs" => PreviewTabs!PaneIsConsistent /\ PreviewTabs!SpinnerHasRead)
  /\ [](part = "previewTwo" => PreviewTwo!PaneIsConsistent /\ PreviewTwo!SpinnerHasRead)
  /\ [](part = "previewLoads" => PreviewLoads!ShowsLastRequest)
  /\ [](part = "previewInline" => PreviewInline!ClickIsShown)
  /\ [][part = "fileRaces" => FileRaces!ViewSpoiltStep]_fileVars
  /\ [](part = "gitLists" => GitLists!SkipIsSafe)
  /\ [](part = "gitDiffs" => GitDiffs!DiffCacheMatchesKey)

\* ProjectTree, FileSearch and FileResultTree: across project switches the
\* preview's tree and the results of the tree search and of quick open belong to
\* the project they are shown for.  The explorer, its cache and the service leave
\* their project only by a listing, a refresh or a validation that a switch has
\* overtaken (without the last two the cache and the service never do), and the
\* mention menu only by a chat selected under its results or its call.  Open
\* directories are listed, shown hits answer the present query, and the result
\* tree has every found file once.
TreesAreOfTheirProject ==
  /\ [](part = "treeSwitch" => TreeSwitch!CacheIsOfProject /\ TreeSwitch!ServiceFollowsPage /\ TreeSwitch!OpenIsListed)
  /\ [](part = "treePreview" => TreePreview!PreviewIsOfProject /\ TreePreview!PreviewOpenIsListed)
  /\ [][part = "treeSwitch" => TreeSwitch!ForeignStep]_treeVars
  /\ [][part = "treePreview" => TreePreview!ForeignStep]_treeVars
  /\ [](part = "findMention" => FindMention!ShownAnswersQuery)
  /\ [][part = "findMention" => FindMention!MixedStep]_findVars
  /\ [](part = "findTree" => FindTree!ShownAnswersQuery /\ FindTree!TakenInOwnProject)
  /\ [](part = "findQuick" => FindQuick!ShownAnswersQuery /\ FindQuick!TakenInOwnProject)
  /\ [](part = "resultFour" => ResultFour!EveryFileOnce /\ ResultFour!FoldingHides /\ ResultFour!FollowsListing)

\* ClientCache, FileView and FileResultTree: no write brings an older setting
\* back, no read shows an older version than the one on screen, and an arrow
\* key ends on a visible file.
NeverGoesBack ==
  /\ [][part = "cacheRest" => CacheRest!SettingsNeverRevertStep]_cacheVars
  /\ [][part = "fileCache" => FileCache!NeverBackwardsStep]_fileVars
  /\ ResultFour!ArrowFindsFile

\* Connection, PreviewWorkbench, FileView, GitView and FileSearch: a lost
\* connection is restored or the user is told that it is not; the tab on
\* screen ends up with content or an error; while the File tab stays on screen
\* and the connection holds the selected file appears or has failed; and the
\* loading signs of the git view and the search boxes end,
\* also when requests fail.
WorkspaceSettles ==
  /\ (part = "connLive" => ConnLive!ComesBack)
  /\ (part = "previewLive" => PreviewLive!ActiveTabFills)
  /\ (part = "fileLive" => FileLive!FileAppears)
  /\ (part = "gitLive" => GitLive!LoadingEnds)
  /\ (part = "findLive" => FindLive!LoadingEnds)

=============================================================================
