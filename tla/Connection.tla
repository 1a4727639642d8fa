----------------------------- MODULE Connection -----------------------------
(***************************************************************************)
(* The web client's connection to the registry: RegistryClient (one        *)
(* WebSocket and its pending requests), RegistryWorkspaceService (which    *)
(* client is current and whose events are forwarded), connect() and        *)
(* onClose of WorkspaceApp with the silent reconnect, the foreground       *)
(* supervisor of the PWA, and RegistryAuthController.                      *)
(*                                                                         *)
(* A connection attempt owns a socket of its own until it has listed the   *)
(* projects and the root directory; only then does it replace the current  *)
(* one.  The page may be hidden, shown, taken offline or logged out at     *)
(* any of its awaits.                                                      *)
(***************************************************************************)
EXTENDS Naturals, FiniteSets

CONSTANTS Requests,     \* concurrent calls of the application
          MaxDrops, MaxHides, MaxOffline, MaxFails, MaxLogouts, MaxCalls  \* bounds

BoundsAreNatural == {MaxDrops, MaxHides, MaxOffline, MaxFails, MaxLogouts, MaxCalls} \subseteq Nat

VARIABLES
  sock,        \* the WebSockets: "closed" or "open" (two suffice: old and new)
  repo,        \* RegistryWorkspaceService.repository
  bound,       \* the socket whose events and close the service forwards
  conn,        \* the attempt in flight: its step, its socket, silentReconnect
  req,         \* calls of the application: [on |-> socket, st |-> status]
  timer,       \* reconnectTimerRef
  started,     \* reconnectStartedAtRef: "none", "fresh" or past the "grace" period
  managed,     \* supervisorManagedCloseRef
  connected, reconnecting, error, project, tried,  \* connected, error, projectIdRef, autoConnectTriedRef
  auth,        \* RegistryAuthController.current.state
  hidden, online, voice,
  used         \* how often each bounded fault happened

ui == <<connected, reconnecting, error>>
page == <<hidden, online, voice>>
vars == <<sock, repo, bound, conn, req, timer, started, managed, ui, project, tried, auth, page, used>>

Sockets == {1, 2}
Idle == [step |-> "idle", on |-> 0, silent |-> FALSE]
Steps == {"auth", "open", "init", "list", "pick", "broken"}
Faults == {"drop", "hide", "offline", "fail", "logout", "call"}
Bound == [drop |-> MaxDrops, hide |-> MaxHides, offline |-> MaxOffline, fail |-> MaxFails, logout |-> MaxLogouts, call |-> MaxCalls]
Uses(f) == used[f] < Bound[f] /\ used' = [used EXCEPT ![f] = @ + 1]

Init ==
  /\ sock = [s \in Sockets |-> "closed"] /\ repo = 0 /\ bound = 0 /\ conn = Idle
  /\ req = [r \in Requests |-> [on |-> 0, st |-> "idle"]]
  /\ timer = FALSE /\ started = "none" /\ managed = FALSE
  /\ connected = FALSE /\ reconnecting = FALSE /\ error = FALSE /\ project = FALSE /\ tried = FALSE
  /\ auth = "checking" /\ hidden = FALSE /\ online = TRUE /\ voice = FALSE
  /\ used = [f \in Faults |-> 0]
-----------------------------------------------------------------------------
(* RegistryClient and RegistryWorkspaceService. *)

\* close() and handleSocketClosed reject every pending request of the client.
RejectPending(s) == [r \in Requests |-> IF req[r].on = s /\ req[r].st = "pending" THEN [req[r] EXCEPT !.st = "failed"] ELSE req[r]]

OnCloseForgetsTimer(st) ==
  LET s1 == [st EXCEPT !.connected = FALSE]
  IN  IF st.managed THEN [s1 EXCEPT !.managed = FALSE]
      ELSE [s1 EXCEPT !.error = FALSE, !.reconnecting = TRUE]
\* onClose of WorkspaceApp, as an update of the fields it touches.
OnClose(st) ==
  LET s1 == [st EXCEPT !.connected = FALSE]
  IN  CASE st.managed -> [s1 EXCEPT !.managed = FALSE]
        [] ~ st.managed /\ ~ project -> [s1 EXCEPT !.started = "none", !.reconnecting = FALSE, !.error = TRUE]
        [] OTHER -> [s1 EXCEPT !.started = IF @ = "none" THEN "fresh" ELSE @,
                               !.error = FALSE, !.reconnecting = TRUE, !.timer = TRUE]

Fields == [connected |-> connected, reconnecting |-> reconnecting, error |-> error,
           timer |-> timer, started |-> started, managed |-> managed]
SetFields(st) ==
  /\ connected' = st.connected /\ reconnecting' = st.reconnecting /\ error' = st.error
  /\ timer' = st.timer /\ started' = st.started /\ managed' = st.managed

\* service.close(): closes the current client, whose close listener runs even
\* when its socket was closed before; an attempt in flight is not touched.
ServiceClose(st) ==
  /\ SetFields(IF repo # 0 /\ bound = repo THEN OnClose(st) ELSE st)
  /\ sock' = [s \in Sockets |-> IF s = repo THEN "closed" ELSE sock[s]]
  /\ req' = RejectPending(repo)
  /\ repo' = 0
  /\ UNCHANGED <<bound, conn>>

Request(r) ==
  /\ req[r].st = "idle" /\ repo # 0 /\ sock[repo] = "open" /\ Uses("call")
  /\ req' = [req EXCEPT ![r] = [on |-> repo, st |-> "pending"]]
  /\ UNCHANGED <<sock, repo, bound, conn, timer, started, managed, ui, project, tried, auth, page>>

\* Answered, timed out or aborted; whichever is first removes the entry.
Settle(r, how) ==
  /\ req[r].st = "pending" /\ (how = "ok" => sock[req[r].on] = "open")
  /\ req' = [req EXCEPT ![r].st = how]
  /\ UNCHANGED <<sock, repo, bound, conn, timer, started, managed, ui, project, tried, auth, page, used>>

\* The socket of a client closes: its requests fail, and with them the attempt.
SocketDrops(s) ==
  /\ sock[s] = "open" /\ Uses("drop")
  /\ sock' = [sock EXCEPT ![s] = "closed"]
  /\ req' = RejectPending(s)
  /\ conn' = IF conn.on = s THEN [conn EXCEPT !.step = "broken"] ELSE conn
  /\ SetFields(IF bound = s THEN OnClose(Fields) ELSE Fields)
  /\ UNCHANGED <<repo, bound, project, tried, auth, page>>
-----------------------------------------------------------------------------
(* connect(). *)

Fresh == CHOOSE s \in Sockets : s # repo
\* The beginning of connect(): nothing when an attempt is in flight.
Begin(silent, st) ==
  IF conn # Idle THEN SetFields(st) /\ UNCHANGED conn
  ELSE /\ conn' = [step |-> "auth", on |-> 0, silent |-> silent]
       /\ SetFields([st EXCEPT !.error = FALSE, !.timer = FALSE,
                               !.started = IF silent THEN @ ELSE "none",
                               !.reconnecting = IF silent THEN @ ELSE FALSE])

FailedSilently(st) == [st EXCEPT !.reconnecting = conn.silent]
\* catch: a silent attempt is repeated for the grace period, then given up.
Failed(st) ==
  CASE conn.silent /\ st.started # "grace" ->
         [st EXCEPT !.started = "fresh", !.error = FALSE, !.reconnecting = TRUE, !.timer = TRUE]
    [] conn.silent /\ st.started = "grace" ->
         [st EXCEPT !.started = "none", !.reconnecting = FALSE, !.error = TRUE]
    [] OTHER -> [st EXCEPT !.error = TRUE]

\* The attempt fails.  Inside service.connect the new client is unbound and
\* closed; the step "pick" (selectProject) is outside of it.
InService == conn.step \in {"open", "init", "list"} \/ (conn.step = "broken" /\ conn.on # repo)
AttemptFails ==
  /\ conn.step \in Steps /\ conn.step # "auth"
  /\ IF conn.step = "broken" THEN UNCHANGED used ELSE Uses("fail")
  /\ conn' = Idle /\ SetFields(Failed(Fields))
  /\ sock' = IF InService /\ conn.on # 0 THEN [sock EXCEPT ![conn.on] = "closed"] ELSE sock
  /\ bound' = IF InService THEN 0 ELSE bound
  /\ UNCHANGED <<repo, req, project, tried, auth, page>>

\* requireSession(): a check when the state is not authenticated.
RequireSession ==
  /\ conn.step = "auth"
  /\ \/ /\ auth' = "authenticated"
        /\ auth = "authenticated" \/ auth # "loggedOut"
        /\ conn' = [conn EXCEPT !.step = "open"] /\ SetFields(Fields) /\ UNCHANGED used
     \/ /\ auth # "authenticated" /\ auth' \in {"loggedOut", "error"}
        /\ auth = "loggedOut" \/ Uses("fail")
        /\ auth = "loggedOut" => UNCHANGED used
        /\ conn' = Idle /\ SetFields(Failed(Fields))
  /\ UNCHANGED <<sock, repo, bound, req, project, tried, page>>

SocketOpens ==
  /\ conn.step = "open" /\ conn' = [conn EXCEPT !.step = "init", !.on = Fresh]
  /\ sock' = [sock EXCEPT ![Fresh] = "open"]
  /\ UNCHANGED <<repo, bound, req, timer, started, managed, ui, project, tried, auth, page, used>>

\* connectInit is answered: the new client is bound before it is current.
ConnectInitDone ==
  /\ conn.step = "init" /\ conn' = [conn EXCEPT !.step = "list"] /\ bound' = conn.on
  /\ UNCHANGED <<sock, repo, req, timer, started, managed, ui, project, tried, auth, page, used>>

\* listProjectSnapshot and the first reachable project: the previous client,
\* whose listeners are gone, is closed and replaced.
ServiceConnected ==
  /\ conn.step = "list" /\ conn' = [conn EXCEPT !.step = "pick"]
  /\ repo' = conn.on
  /\ sock' = [s \in Sockets |-> IF s = repo THEN "closed" ELSE sock[s]]
  /\ req' = RejectPending(repo)
  /\ UNCHANGED <<bound, timer, started, managed, ui, project, tried, auth, page, used>>

\* The rest of connect(): selectProject needs the client to be still current.
Connected ==
  /\ conn.step = "pick" /\ repo = conn.on /\ conn' = Idle
  /\ SetFields([Fields EXCEPT !.started = "none", !.reconnecting = FALSE, !.connected = TRUE])
  /\ project' = TRUE
  /\ UNCHANGED <<sock, repo, bound, req, tried, auth, page, used>>
ClosedBeforePick ==
  /\ conn.step = "pick" /\ repo # conn.on /\ conn' = [conn EXCEPT !.step = "broken", !.on = repo]
  /\ UNCHANGED <<sock, repo, bound, req, timer, started, managed, ui, project, tried, auth, page, used>>
-----------------------------------------------------------------------------
(* What starts an attempt. *)

AutoConnect ==
  /\ ~ connected /\ ~ tried /\ auth = "authenticated" /\ tried' = TRUE
  /\ Begin(FALSE, Fields)
  /\ UNCHANGED <<sock, repo, bound, req, project, auth, page, used>>
TimerFires ==
  /\ timer /\ Begin(TRUE, [Fields EXCEPT !.timer = FALSE])
  /\ UNCHANGED <<sock, repo, bound, req, project, tried, auth, page, used>>
GracePasses ==
  /\ started = "fresh" /\ started' = "grace"
  /\ UNCHANGED <<sock, repo, bound, conn, req, timer, managed, ui, project, tried, auth, page, used>>
\* The Connect button of the page that is shown when there is no workspace.
ManualReconnect ==
  /\ ~ connected /\ ~ (reconnecting /\ project) /\ auth = "authenticated" /\ Begin(FALSE, Fields)
  /\ UNCHANGED <<sock, repo, bound, req, project, tried, auth, page, used>>

\* ForegroundConnectionSupervisor.tryConnect.  The hook never rejects, because
\* connect() catches everything, so scheduleRetry is never reached.
TryConnect(st, fore) == IF fore /\ project THEN Begin(TRUE, st) ELSE SetFields(st) /\ UNCHANGED conn

disconnectForSupervisor ==
  ServiceClose([Fields EXCEPT !.managed = TRUE, !.timer = FALSE, !.started = "none",
                              !.reconnecting = project, !.connected = FALSE, !.error = FALSE])
Hide ==
  /\ ~ hidden /\ hidden' = TRUE /\ Uses("hide")
  /\ IF voice THEN SetFields(Fields) /\ UNCHANGED <<sock, repo, bound, conn, req>>
     ELSE disconnectForSupervisor
  /\ UNCHANGED <<project, tried, auth, online, voice>>
Show ==
  /\ hidden /\ hidden' = FALSE /\ TryConnect(Fields, online)
  /\ UNCHANGED <<sock, repo, bound, req, project, tried, auth, online, voice, used>>
Offline ==
  /\ online /\ online' = FALSE /\ Uses("offline") /\ disconnectForSupervisor
  /\ UNCHANGED <<project, tried, auth, hidden, voice>>
Online ==
  /\ ~ online /\ online' = TRUE /\ TryConnect(Fields, ~ hidden)
  /\ UNCHANGED <<sock, repo, bound, req, project, tried, auth, hidden, voice, used>>
VoiceInput == voice' = ~ voice /\ MaxHides > 0
  /\ UNCHANGED <<sock, repo, bound, conn, req, timer, started, managed, ui, project, tried, auth, hidden, online, used>>

(* RegistryAuthController. *)

AuthCheck ==
  /\ auth = "checking" /\ conn = Idle
  /\ \/ auth' = "authenticated" /\ UNCHANGED used
     \/ auth' \in {"loggedOut", "error"} /\ Uses("fail")
  /\ UNCHANGED <<sock, repo, bound, conn, req, timer, started, managed, ui, project, tried, page>>
RetryCheck ==
  /\ auth = "error" /\ conn = Idle /\ auth' = "checking"
  /\ UNCHANGED <<sock, repo, bound, conn, req, timer, started, managed, ui, project, tried, page, used>>
Login ==
  /\ auth = "loggedOut" /\ auth' = "authenticated" /\ Begin(FALSE, Fields)
  /\ UNCHANGED <<sock, repo, bound, req, project, tried, page, used>>
Logout ==
  /\ auth = "authenticated" /\ auth' = "loggedOut" /\ Uses("logout")
  /\ ServiceClose([Fields EXCEPT !.managed = TRUE, !.timer = FALSE, !.started = "none",
                                 !.error = FALSE, !.reconnecting = FALSE, !.connected = FALSE])
  /\ UNCHANGED <<project, tried, page>>
\* Revoked elsewhere: the login page, which checks the session again.
ReturnToLogin ==
  /\ auth = "authenticated" /\ auth' = "checking" /\ Uses("logout")
  /\ ServiceClose([Fields EXCEPT !.managed = TRUE, !.reconnecting = FALSE, !.connected = FALSE])
  /\ UNCHANGED <<project, tried, page>>

Attempt == RequireSession \/ SocketOpens \/ ConnectInitDone \/ ServiceConnected \/ Connected \/ ClosedBeforePick
Next ==
  \/ Attempt \/ AttemptFails
  \/ AutoConnect \/ TimerFires \/ GracePasses \/ ManualReconnect
  \/ Hide \/ Show \/ Offline \/ Online \/ VoiceInput
  \/ AuthCheck \/ RetryCheck \/ Login \/ Logout \/ ReturnToLogin
  \/ \E s \in Sockets : SocketDrops(s)
  \/ \E r \in Requests : Request(r) \/ \E how \in {"ok", "timeout", "aborted"} : Settle(r, how)

Spec == Init /\ [][Next]_vars
\* Every await of the attempt ends (an answer, an error or the 8 s timer), and
\* window.setTimeout fires.
Fairness == WF_vars(Attempt) /\ WF_vars(conn.step = "broken" /\ AttemptFails) /\ WF_vars(TimerFires)
FairSpec == Spec /\ Fairness
-----------------------------------------------------------------------------
(* Properties. *)

\* Types of the state.
TypeOK ==
  /\ sock \in [Sockets -> {"closed", "open"}] /\ repo \in {0} \union Sockets /\ bound \in {0} \union Sockets
  /\ conn.step \in Steps \union {"idle"} /\ conn.on \in {0} \union Sockets
  /\ \A r \in Requests : req[r].st \in {"idle", "pending", "ok", "failed", "timeout", "aborted"}
  /\ started \in {"none", "fresh", "grace"} /\ auth \in {"checking", "authenticated", "loggedOut", "error"}
  /\ {timer, managed, connected, reconnecting, error, project, tried, hidden, online, voice} \subseteq BOOLEAN

\* A page that has a project, is visible and online and logged in, is connected,
\* connecting, about to connect, or tells the user that it gave up (onClose and
\* the catch block of connect): "keeps cached workspace visible during silent
\* reconnect and falls back after grace period".
NotStranded ==
  project /\ ~ connected /\ ~ hidden /\ online /\ auth = "authenticated" => conn # Idle \/ timer \/ error

\* With pages that are hidden, offline or logged out that is lost in two ways only:
\* a close is taken for one of the supervisor's, whose flag an earlier disconnect
\* without a client left behind, or the session of a page that was sent back to the
\* login turns out to be valid, which connects nobody.
StrandedStep == NotStranded /\ ~ NotStranded' => (managed /\ ~ managed') \/ auth = "checking"

\* The events of the open socket reach the page.
Hears == repo # 0 /\ bound = repo /\ sock[repo] = "open"
\* A page that shows itself connected hears its registry, or an attempt is under
\* way or due, or the user was told.  (A failed attempt unbinds a client that is
\* still current: its events are lost until the next attempt succeeds.)
ConnectedHears == connected => Hears \/ conn # Idle \/ timer \/ error

\* Every open socket belongs to the current client or to the attempt in flight;
\* a replaced or failed attempt leaves none behind.
NoLeakedSocket == \A s \in Sockets : sock[s] = "open" => s = repo \/ s = conn.on

\* No request waits on a client that is closed: close() and handleSocketClosed
\* reject what is pending.
NoOrphanRequest == \A r \in Requests : req[r].st = "pending" => sock[req[r].on] = "open"

\* A page in the background holds no connection, unless voice input is active.
\* Not kept by the code: see the README.
HiddenIsClosed == hidden /\ ~ voice /\ used["hide"] > 0 /\ conn = Idle => \A s \in Sockets : sock[s] = "closed"

\* A lost connection is restored or the user is told that it is not.
ComesBack == project /\ ~ connected ~> connected \/ error \/ hidden \/ ~ online \/ auth # "authenticated"
=============================================================================
