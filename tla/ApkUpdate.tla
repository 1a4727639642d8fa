------------------------------ MODULE ApkUpdate ------------------------------
(***************************************************************************)
(* The Android package card: the check of the installed and of the latest  *)
(* release, the install request over the native message bridge with its    *)
(* timeout, the download thread of the shell and the events it sends.      *)
(***************************************************************************)
EXTENDS Naturals, Sequences, FiniteSets

CONSTANTS Checks,     \* identities of refreshAndroidApkUpdate calls
          Threads,    \* identities of download threads
          MaxEvents,  \* bound on events that are not delivered
          MayLack,    \* whether the permission to install may be missing
          Timeouts,   \* whether a bridge request may run into its 30 s
          FetchFails  \* whether the release API may fail or lack the asset
ApkConstants == MaxEvents \in Nat \ {0} /\ {MayLack, Timeouts, FetchFails} \subseteq BOOLEAN

VARIABLES permitted,  \* whether the app may request installs
          installed,  \* the release on the device
          github,     \* the latest release
          thread,     \* of every download thread: "off", "downloading", "downloaded"
          installer,  \* the file pendingInstallerFile names: a thread, or 0
          open,       \* the file that the system installer was given, or 0
          events,     \* events that the page has not received
          rpc,        \* the install request: "none", "sent", "dropped" or its answer
          checks,     \* of every check: "off", "local", "fetch"
          local, latest, loading, pending, status, err  \* the card
vars == <<permitted, installed, github, thread, installer, open, events, rpc, checks, local, latest, loading, pending, status, err>>
shell == <<permitted, installed, github, thread, installer, open>>
card == <<local, latest, loading, pending, status, err>>

Init ==
  /\ permitted \in {TRUE, ~ MayLack} /\ installed = "v1" /\ github = "v2" /\ thread = [t \in Threads |-> "off"] /\ installer = 0 /\ open = 0
  /\ events = <<>> /\ rpc = "none" /\ checks = [k \in Checks |-> "off"] /\ local = "none" /\ latest = "none" /\ loading = FALSE /\ pending = FALSE /\ status = "" /\ err = "none"
resolveAndroidApkUpdateStatus == IF local = "none" \/ latest = "none" THEN "unknown" ELSE IF local = latest THEN "up_to_date" ELSE "update_available"
Room(n) == Len(events) + n <= MaxEvents
-----------------------------------------------------------------------------
\* refreshAndroidApkUpdate: the page is opened, or Check is pressed.
refreshAndroidApkUpdate(k) ==
  /\ checks[k] = "off" /\ checks' = [checks EXCEPT ![k] = "local"] /\ loading' = TRUE /\ err' = "none"
  /\ UNCHANGED <<events, rpc, local, latest, pending, status>> /\ UNCHANGED shell
GotLocal(k) ==
  /\ checks[k] = "local" /\ checks' = [checks EXCEPT ![k] = "fetch"] /\ local' = installed /\ UNCHANGED <<events, rpc, latest, loading, pending, status, err>> /\ UNCHANGED shell
parseAndroidLatestRelease(k) ==
  /\ checks[k] = "fetch" /\ checks' = [checks EXCEPT ![k] = "off"] /\ latest' = github /\ loading' = FALSE
  /\ UNCHANGED <<events, rpc, local, pending, status, err>> /\ UNCHANGED shell
CheckFails(k) ==
  /\ FetchFails /\ checks[k] # "off" /\ checks' = [checks EXCEPT ![k] = "off"] /\ err' = "check" /\ loading' = FALSE
  /\ UNCHANGED <<events, rpc, local, latest, pending, status>> /\ UNCHANGED shell
\* Download and Install.
requestAndroidApkInstall ==
  /\ ~ pending /\ ~ loading /\ latest # "none" /\ resolveAndroidApkUpdateStatus # "up_to_date" /\ rpc = "none"
  /\ pending' = TRUE /\ status' = "" /\ err' = "none" /\ rpc' = "sent" /\ UNCHANGED <<events, checks, local, latest, loading>> /\ UNCHANGED shell
\* installRelease in the shell: without permission only the settings open;
\* else a thread downloads.
installRelease ==
  /\ rpc \in {"sent", "dropped"} /\ Room(1)
  /\ IF permitted
     THEN \E t \in Threads : thread[t] = "off" /\ thread' = [thread EXCEPT ![t] = "downloading"] /\ events' = Append(events, "downloading") /\ rpc' = (IF rpc = "sent" THEN "downloading" ELSE "none")
     ELSE events' = Append(events, "permission_required") /\ rpc' = (IF rpc = "sent" THEN "permission_required" ELSE "none") /\ UNCHANGED thread
  /\ UNCHANGED <<permitted, installed, github, installer, open, checks>> /\ UNCHANGED card
GrantPermission == ~ permitted /\ permitted' = TRUE /\ UNCHANGED <<installed, github, thread, installer, open, events, rpc, checks>> /\ UNCHANGED card
\* The request is answered; a late answer finds no pending request.
InstallAnswer ==
  /\ rpc \in {"downloading", "permission_required"} /\ rpc' = "none" /\ status' = rpc
  /\ IF rpc = "permission_required" THEN pending' = FALSE /\ err' = "permission" ELSE UNCHANGED <<pending, err>>
  /\ UNCHANGED <<events, checks, local, latest, loading>> /\ UNCHANGED shell
RequestTimesOut ==
  /\ Timeouts /\ rpc \in {"sent", "downloading", "permission_required"} /\ rpc' = (IF rpc = "sent" THEN "dropped" ELSE "none") /\ pending' = FALSE /\ err' = "timeout"
  /\ UNCHANGED <<events, checks, local, latest, loading, status>> /\ UNCHANGED shell
\* downloadAndInstall: the archive is verified, then the installer is started;
\* the file it had before is deleted.
Downloaded(t) ==
  /\ thread[t] = "downloading" /\ Room(1) /\ thread' = [thread EXCEPT ![t] = "downloaded"] /\ events' = Append(events, "downloaded")
  /\ UNCHANGED <<permitted, installed, github, installer, open, rpc, checks>> /\ UNCHANGED card
DownloadFails(t) ==
  /\ thread[t] = "downloading" /\ Room(1) /\ thread' = [thread EXCEPT ![t] = "off"] /\ events' = Append(events, "failed")
  /\ UNCHANGED <<permitted, installed, github, installer, open, rpc, checks>> /\ UNCHANGED card
startPackageInstaller(t) ==
  /\ thread[t] = "downloaded" /\ Room(1) /\ thread' = [thread EXCEPT ![t] = "off"] /\ installer' = t /\ open' = t /\ events' = Append(events, "installing")
  /\ UNCHANGED <<permitted, installed, github, rpc, checks>> /\ UNCHANGED card
\* The user installs or leaves the installer.
onInstallerResult(ok) ==
  /\ open # 0 /\ open' = 0 /\ installer' = 0 /\ installed' = (IF ok THEN github ELSE installed)
  /\ UNCHANGED <<permitted, github, thread, events, rpc, checks>> /\ UNCHANGED card
EndsEarly(e) ==
  /\ status' = e /\ pending' = FALSE /\ err' = (CASE e = "failed" -> "install" [] e = "permission_required" -> "permission" [] OTHER -> err)
\* The listener of wheelmaker:android-apk-update.
listener(e) ==
  /\ status' = e /\ pending' = (pending /\ e \notin {"failed", "permission_required", "installing"})
  /\ err' = (CASE e = "failed" -> "install" [] e = "permission_required" -> "permission" [] OTHER -> err)
Deliver == events # <<>> /\ events' = Tail(events) /\ listener(Head(events)) /\ UNCHANGED <<rpc, checks, local, latest, loading>> /\ UNCHANGED shell
ShellStep == (\E t \in Threads : Downloaded(t) \/ DownloadFails(t) \/ startPackageInstaller(t))
CheckStep(k) == GotLocal(k) \/ parseAndroidLatestRelease(k) \/ CheckFails(k)
Next ==
  \/ \E k \in Checks : refreshAndroidApkUpdate(k) \/ CheckStep(k)
  \/ requestAndroidApkInstall \/ installRelease \/ GrantPermission \/ InstallAnswer \/ RequestTimesOut \/ ShellStep \/ Deliver
  \/ \E ok \in BOOLEAN : onInstallerResult(ok)
Spec == Init /\ [][Next]_vars
Fairness == WF_vars(installRelease) /\ WF_vars(InstallAnswer) /\ WF_vars(ShellStep) /\ WF_vars(Deliver) /\ \A k \in Checks : WF_vars(CheckStep(k))
FairSpec == Spec /\ Fairness
-----------------------------------------------------------------------------
TypeOK ==
  /\ \A t \in Threads : thread[t] \in {"off", "downloading", "downloaded"}
  /\ installer \in Threads \union {0} /\ Len(events) <= MaxEvents /\ rpc \in {"none", "sent", "dropped", "downloading", "permission_required"}
  /\ \A k \in Checks : checks[k] \in {"off", "local", "fetch"} 

\* With the permission granted and requests that are answered in time, the
\* card's flag keeps a second download from being started, and a download
\* from being started while its last one is not over.
OneDownload == Cardinality({t \in Threads : thread[t] # "off"}) <= 1
\* The button comes back, however download and install end.
InstallComesBack == pending ~> ~ pending
=============================================================================
