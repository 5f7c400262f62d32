----------------------------- MODULE Connection -----------------------------
(***************************************************************************)
(* The life of the main connection (libkg/tgtransport.cpp): the socket,    *)
(* its three timers, the reconnect backoff, the key exchange, the session  *)
(* and its ini file, and the flags TgClient derives from it.               *)
(*                                                                         *)
(* The handlers call each other (migrateTo is stop, save, start; start may *)
(* be setDc, which is stop, load, save), so every method is an operator    *)
(* from the state of the program to the state it leaves, and an action     *)
(* applies the composition the code runs.  The state is one record:        *)
(*   sock         "idle", "connecting", "aborting" (disconnectFromHost()   *)
(*                while connecting only marks the socket), "open" or       *)
(*                "closing" (unsent bytes left)                            *)
(*   timers       those of _pingTimer, _retryTimer, _connectTimer running  *)
(*   attempt      _retryAttempt, up to MaxStep: the delay grows no further *)
(*   auto, latch  _autoReconnect, _notifiedDisconnect                      *)
(*   initialized, handshaking, bad     as in the code                      *)
(*   dc, host, key, user               the session; host: address is known *)
(*   client       TgClient's _connected, _initialized, _authorized         *)
(*   page, busy   what the window shows ("intro", "login" or "main") and   *)
(*                its authProgress overlay                                 *)
(*   ini          main (MainDc) and the DcSession groups                   *)
(* Salt, session id and key id are set and cleared with the key.  The ini  *)
(* is written synchronously; a crash keeps it and loses the rest.          *)
(***************************************************************************)
EXTENDS Integers, FiniteSets

CONSTANTS
  DCs,        \* data centres
  DefaultDc,  \* resetDc()
  NoDc,       \* dc id 0
  MaxStep,    \* the step the backoff delay stops growing at (6)
  MaxBad,     \* countBadPacket(): this many in a row reset the connection (3)
  MaxKeys     \* bound: key exchanges the server completes

ASSUME ConnectionAssumption ==
  /\ NoDc \notin DCs /\ DefaultDc \in DCs
  /\ MaxStep \in Nat \ {0} /\ MaxBad \in Nat \ {0} /\ MaxKeys \in Nat

VARIABLES
  app,      \* the program and its ini
  owed,     \* replies the server owes on this connection
  made,     \* keys generated so far
  known,    \* <<dc, key>> pairs the server knows
  signed    \* keys the account is signed in with

vars == <<app, owed, made, known, signed>>

NoKey == 0
Keys == 1 .. MaxKeys
Entry == [host : BOOLEAN, key : Keys \cup {NoKey}, user : BOOLEAN]
NoEntry == [host |-> FALSE, key |-> NoKey, user |-> FALSE]
EmptyIni == [main |-> NoDc, at |-> [d \in DCs |-> NoEntry]]

-----------------------------------------------------------------------------
(***************************************************************************)
(* The session.                                                            *)
(***************************************************************************)
HasSession(s) == s.user /\ s.key # NoKey

EntryOf(s) == [host |-> s.host, key |-> s.key, user |-> s.user]

\* MainDc is not written.
SaveWithoutMain(s) ==
  IF s.dc = NoDc THEN s
  ELSE [s EXCEPT !.ini.at[s.dc] = EntryOf(s)]

\* saveSession(): nothing is written before a data centre is chosen.
Save(s) ==
  IF s.dc = NoDc THEN s
  ELSE [s EXCEPT !.ini.main = s.dc, !.ini.at[s.dc] = EntryOf(s)]

\* saveSession(true): the file is cleared first.
SaveReset(s) == IF s.dc = NoDc THEN s ELSE Save([s EXCEPT !.ini = EmptyIni])

\* loadSession(): the main transport reads the group of MainDc, whatever the
\* current data centre is.
Load(s) ==
  LET d == s.ini.main
      e == IF d = NoDc THEN NoEntry ELSE s.ini.at[d]
  IN [s EXCEPT !.dc = d, !.host = e.host, !.key = e.key, !.user = e.user]

-----------------------------------------------------------------------------
(***************************************************************************)
(* Losing the connection.                                                  *)
(***************************************************************************)
Bump(n) == IF n < MaxStep THEN n + 1 ELSE n

ScheduleReconnect(s) ==
  IF ~s.auto \/ ~HasSession(s)
  THEN [s EXCEPT !.attempt = 0]
  ELSE [s EXCEPT !.attempt = Bump(@), !.timers = @ \cup {"retry"}]

\* TgClient::handleDisconnected() and the window's onDisconnected.
ClientDown(s) ==
  [s EXCEPT !.client = {}, !.busy = FALSE,
            !.page = IF s.user THEN @ ELSE "intro"]

\* Every report counts.
NotifyUnlatched(s) ==
  ClientDown(ScheduleReconnect(
    [s EXCEPT !.latch = TRUE, !.initialized = FALSE, !.handshaking = FALSE,
              !.timers = @ \ {"ping", "connect"}]))

\* The transport forgets the connection and keeps its flag.
NotifyKeepsInitialized(s) ==
  IF s.latch THEN s
  ELSE ClientDown(ScheduleReconnect(
         [s EXCEPT !.latch = TRUE, !.handshaking = FALSE,
                   !.timers = @ \ {"ping", "connect"}]))

\* notifyDisconnected().
Notify(s) ==
  IF s.latch THEN s
  ELSE ClientDown(ScheduleReconnect(
         [s EXCEPT !.latch = TRUE, !.initialized = FALSE, !.handshaking = FALSE,
                   !.timers = @ \ {"ping", "connect"}]))

\* A drop of an open socket is reported by error() and by disconnected(); a
\* failed connect by error() alone.
Dropped(s) == Notify(Notify([s EXCEPT !.sock = "idle"]))
Refused(s) == Notify([s EXCEPT !.sock = "idle"])

\* QAbstractSocket::disconnectFromHost().  Closing an open socket emits
\* disconnected() before it returns, unless bytes linger.
DisconnectFromHost(s, linger) ==
  CASE s.sock = "idle" -> s
    [] s.sock \in {"connecting", "aborting"} -> [s EXCEPT !.sock = "aborting"]
    [] OTHER -> IF linger THEN [s EXCEPT !.sock = "closing"]
                ELSE Notify([s EXCEPT !.sock = "idle"])

\* The timers are stopped below the early return.
StopTimersLast(s, linger) ==
  LET a == [Save(s) EXCEPT !.auto = FALSE] IN
  IF a.sock = "idle" THEN a
  ELSE DisconnectFromHost([a EXCEPT !.timers = {}], linger)

Stop(s, linger) ==
  DisconnectFromHost([Save(s) EXCEPT !.timers = {}, !.auto = FALSE], linger)

\* setDc() and resetDc(): the session is the one loaded for MainDc.
ResetDc(s, linger) ==
  LET a == Load([Stop(s, linger) EXCEPT !.dc = DefaultDc])
  IN Save([a EXCEPT !.dc = DefaultDc, !.host = TRUE])

\* The latch is left for _connected() to clear.
StartKeepsLatch(s) ==
  IF s.sock # "idle" THEN s
  ELSE LET a == Load(s)
           b == IF ~a.host \/ a.dc = NoDc THEN Save(ResetDc(a, FALSE)) ELSE a
       IN [b EXCEPT !.auto = TRUE, !.sock = "connecting",
                    !.timers = @ \cup {"connect", "ping"}]

\* The decision is not taken back.
StartStaysStopped(s) ==
  IF s.sock # "idle" THEN s
  ELSE LET a == Load(s)
           b == IF ~a.host \/ a.dc = NoDc THEN Save(ResetDc(a, FALSE)) ELSE a
       IN [b EXCEPT !.latch = FALSE, !.sock = "connecting",
                    !.timers = @ \cup {"connect", "ping"}]

\* start(): returns at once unless the socket is unconnected.
Start(s) ==
  IF s.sock # "idle" THEN s
  ELSE LET a == Load(s)
           b == IF ~a.host \/ a.dc = NoDc THEN Save(ResetDc(a, FALSE)) ELSE a
       IN [b EXCEPT !.latch = FALSE, !.auto = TRUE, !.sock = "connecting",
                    !.timers = @ \cup {"connect", "ping"}]

\* The user id survives.
ResetSessionKeepsUser(s, linger) ==
  LET a == SaveReset([Stop(s, linger) EXCEPT !.key = NoKey])
  IN ClientDown([a EXCEPT !.initialized = FALSE])

\* resetSession(): ends with a handleDisconnected() of its own.
ResetSession(s, linger) ==
  LET a == SaveReset([Stop(s, linger) EXCEPT !.key = NoKey, !.user = FALSE])
  IN ClientDown([a EXCEPT !.initialized = FALSE])

\* migrateTo(d); found: the config lists an address of d.
MigrateTo(s, d, found, linger) ==
  LET a == Stop(s, linger) IN
  IF found THEN Start(Save([a EXCEPT !.dc = d, !.host = TRUE]))
  ELSE Start(ResetDc(a, linger))

-----------------------------------------------------------------------------
\* Replies belong to the connection they were asked on.
Becomes(s, replies) ==
  /\ app' = s
  /\ owed' = IF s.sock \in {"open", "closing"} THEN replies ELSE {}

Quiet == UNCHANGED <<made, known, signed>>

\* What the server answers to a request encrypted with the key of s.
Answered(s, reply) == IF <<s.dc, s.key>> \in known THEN {reply} ELSE {}

(***************************************************************************)
(* The user, the platform and the process.                                 *)
(***************************************************************************)
\* The intro page's button: resetSession(), then start().
Intro ==
  /\ app.page = "intro" /\ ~app.busy
  /\ \E linger \in BOOLEAN :
       Becomes(Start([ResetSession(app, linger) EXCEPT !.busy = TRUE]), {})
  /\ Quiet

\* The login pages' way back to the intro page.
Back ==
  /\ app.page = "login"
  /\ Becomes([app EXCEPT !.page = "intro", !.busy = FALSE], owed)
  /\ Quiet

\* The drawer's log out button.
LogOut ==
  /\ app.page = "main"
  /\ \E linger \in BOOLEAN : Becomes(ResetSession(app, linger), {})
  /\ Quiet

\* The bearer came back: retryNow(), for a client with a session.
NetworkOnline ==
  /\ HasSession(app)
  /\ Becomes(Start([app EXCEPT !.timers = @ \ {"retry"}, !.attempt = 0]), owed)
  /\ Quiet

\* The process as constructed from the ini file.
Launched(ini) ==
  Load([sock |-> "idle", timers |-> {}, attempt |-> 0, auto |-> FALSE,
        latch |-> FALSE, initialized |-> FALSE, handshaking |-> FALSE,
        bad |-> 0, dc |-> NoDc, host |-> FALSE, key |-> NoKey, user |-> FALSE,
        client |-> {}, page |-> "intro", busy |-> FALSE, ini |-> ini])

\* A client with a session is started by the main page.
Restarted(ini) ==
  LET s == Launched(ini) IN
  IF HasSession(s) THEN Start([s EXCEPT !.busy = TRUE]) ELSE s

\* The process is killed, or quits: the destructor stops and saves.
Restart ==
  /\ \/ Becomes(Restarted(app.ini), {})
     \/ Becomes(Restarted(Stop(app, FALSE).ini), {})
  /\ Quiet

-----------------------------------------------------------------------------
(***************************************************************************)
(* Timers.                                                                 *)
(***************************************************************************)
RetryTimer ==
  /\ "retry" \in app.timers
  /\ Becomes(Start([app EXCEPT !.timers = @ \ {"retry"}]), owed)
  /\ Quiet

ConnectTimerSilent ==
  /\ "connect" \in app.timers
  /\ Becomes([app EXCEPT !.timers = @ \ {"connect"}, !.sock = "idle"], {})
  /\ Quiet

\* abort() of a connecting socket emits nothing; the handler notifies.
ConnectTimer ==
  /\ "connect" \in app.timers
  /\ Becomes(Refused([app EXCEPT !.timers = @ \ {"connect"}]), {})
  /\ Quiet

\* The keepalive also saves.
PingTimer ==
  /\ "ping" \in app.timers
  /\ Becomes(Save(app), owed)
  /\ Quiet

-----------------------------------------------------------------------------
(***************************************************************************)
(* The socket.                                                             *)
(***************************************************************************)
\* _connected(): initConnection() with a session, authorize() without.
Connected(s) ==
  [s EXCEPT !.sock = "open", !.timers = @ \ {"connect"},
            !.client = @ \cup {"connected"},
            !.handshaking = IF HasSession(s) THEN @ ELSE TRUE]

Greeting(s) == IF HasSession(s) THEN Answered(s, "config") ELSE {"pq"}

\* A socket told to close while it was connecting closes right after.
SocketConnected ==
  /\ \/ /\ app.sock = "connecting"
        /\ Becomes(Connected(app), Greeting(app))
     \/ /\ app.sock = "aborting"
        /\ \E linger \in BOOLEAN :
             Becomes(DisconnectFromHost(Connected(app), linger), Greeting(app))
  /\ Quiet

ConnectFails ==
  /\ app.sock \in {"connecting", "aborting"}
  /\ Becomes(Refused(app), {})
  /\ Quiet

Drop ==
  /\ app.sock \in {"open", "closing"}
  /\ Becomes(Dropped(app), {})
  /\ Quiet

\* countBadPacket(): abort() of an open socket emits disconnected(), and the
\* handler notifies again.
BadPacket ==
  /\ app.sock = "open"
  /\ \/ /\ app.bad + 1 < MaxBad
        /\ Becomes([app EXCEPT !.bad = @ + 1], owed)
     \/ /\ app.bad + 1 >= MaxBad
        /\ Becomes(Dropped([app EXCEPT !.bad = 0]), {})
  /\ Quiet

-----------------------------------------------------------------------------
(***************************************************************************)
(* Replies.  The plaintext ones are legal only while handshaking; a packet *)
(* that verifies ends a run of bad ones.                                   *)
(***************************************************************************)
Reads(reply) == app.sock = "open" /\ reply \in owed

Verified(s) == [s EXCEPT !.bad = 0]

HandleResPQ ==
  /\ Reads("pq") /\ app.handshaking
  /\ Becomes(app, (owed \ {"pq"}) \cup {"dh"})
  /\ Quiet

\* handleServerDHParamsOk(): the key is in place before the server confirms
\* it; the message that completes it may be lost.
HandleServerDHParamsOk ==
  /\ Reads("dh") /\ app.handshaking /\ made < MaxKeys
  /\ made' = made + 1
  /\ \E reached \in BOOLEAN :
       /\ Becomes([app EXCEPT !.key = made + 1],
                  (owed \ {"dh"}) \cup IF reached THEN {"gen"} ELSE {})
       /\ known' = known \cup IF reached THEN {<<app.dc, made + 1>>} ELSE {}
  /\ UNCHANGED signed

HandleDhGenOk ==
  /\ Reads("gen") /\ app.handshaking
  /\ LET s == Save([app EXCEPT !.handshaking = FALSE]) IN
     Becomes(s, (owed \ {"gen"}) \cup Answered(s, "config"))
  /\ Quiet

\* handleConfig() with handleInitialized(), onInitialized of the window and
\* checkAuthorization().
HandleConfig ==
  /\ Reads("config")
  /\ Becomes([Save(Verified(app)) EXCEPT
                !.initialized = TRUE, !.attempt = 0,
                !.client = @ \cup {"initialized"},
                !.busy = app.user /\ @, !.page = IF app.user THEN @ ELSE "login"],
             (owed \ {"config"}) \cup IF app.user THEN {"check"} ELSE {})
  /\ Quiet

\* handleVector(): the account behind the key.
HandleVector ==
  /\ Reads("check") /\ app.key \in signed
  /\ Becomes([Save([Verified(app) EXCEPT !.user = TRUE]) EXCEPT
                !.client = @ \cup {"authorized"},
                !.page = "main", !.busy = FALSE], owed \ {"check"})
  /\ Quiet

\* handleAuthorization(): the user has signed in.
HandleAuthorization ==
  /\ app.sock = "open" /\ app.initialized /\ ~app.user
  /\ Becomes(Save([Verified(app) EXCEPT !.user = TRUE]), owed \cup {"check"})
  /\ signed' = signed \cup {app.key}
  /\ UNCHANGED <<made, known>>

\* Another device ends this session.
Revoke ==
  /\ app.key \in signed
  /\ signed' = signed \ {app.key}
  /\ UNCHANGED <<app, owed, made, known>>

\* handleRpcError() with code 401.
Unauthorized ==
  /\ app.sock = "open" /\ app.initialized /\ app.user /\ app.key \notin signed
  /\ \E linger \in BOOLEAN : Becomes(ResetSession(Verified(app), linger), {})
  /\ Quiet

\* handleRpcError() with PHONE_MIGRATE_x and the like: an account that is
\* signed in has found its data centre.
Migrate ==
  /\ app.sock = "open" /\ app.initialized /\ ~app.user
  /\ \E d \in DCs \ {app.dc}, found, linger \in BOOLEAN :
       Becomes(MigrateTo(Verified(app), d, found, linger), {})
  /\ Quiet

-----------------------------------------------------------------------------
Init ==
  /\ app = Restarted(EmptyIni)
  /\ owed = {} /\ made = 0 /\ known = {} /\ signed = {}

Next ==
  \/ Intro \/ Back \/ LogOut \/ NetworkOnline \/ Restart
  \/ RetryTimer \/ ConnectTimer \/ PingTimer
  \/ SocketConnected \/ ConnectFails \/ Drop \/ BadPacket
  \/ HandleResPQ \/ HandleServerDHParamsOk \/ HandleDhGenOk
  \/ HandleConfig \/ HandleVector \/ HandleAuthorization
  \/ Revoke \/ Unauthorized \/ Migrate

Spec == Init /\ [][Next]_vars

(***************************************************************************)
(* Fairness: a running timer fires; a network that keeps coming back lets  *)
(* a connect and the reply to initConnection through in the end.           *)
(***************************************************************************)
Fairness ==
  /\ WF_vars(RetryTimer) /\ WF_vars(ConnectTimer)
  /\ SF_vars(SocketConnected) /\ SF_vars(HandleConfig)

FairSpec == Spec /\ Fairness

-----------------------------------------------------------------------------
(***************************************************************************)
(* Properties.                                                             *)
(***************************************************************************)
Program ==
  [sock : {"idle", "connecting", "aborting", "open", "closing"},
   timers : SUBSET {"ping", "retry", "connect"}, attempt : 0 .. MaxStep,
   auto : BOOLEAN, latch : BOOLEAN, initialized : BOOLEAN, handshaking : BOOLEAN,
   bad : 0 .. MaxBad - 1, dc : DCs \cup {NoDc}, host : BOOLEAN,
   key : Keys \cup {NoKey}, user : BOOLEAN,
   client : SUBSET {"connected", "initialized", "authorized"},
   page : {"intro", "login", "main"}, busy : BOOLEAN,
   ini : [main : DCs \cup {NoDc}, at : [DCs -> Entry]]]

\* The types of the program's record and of the server's knowledge.
ConnectionTypeOK ==
  /\ app \in Program
  /\ owed \subseteq {"pq", "dh", "gen", "config", "check"}
  /\ made \in 0 .. MaxKeys
  /\ known \subseteq DCs \X Keys /\ signed \subseteq Keys

(***************************************************************************)
(* A client that means to be connected and has a session always has a      *)
(* socket or a timer working on it: after any mixture of errors, timeouts, *)
(* aborts and late timers the retry timer runs while the socket is idle,   *)
(* and a connect that hangs is under the connect timer.                    *)
(***************************************************************************)
NeverStranded ==
  /\ app.auto /\ HasSession(app) /\ app.sock = "idle" => "retry" \in app.timers
  /\ app.sock = "connecting" => "connect" \in app.timers

(***************************************************************************)
(* A stop is not undone by a timer left behind, and no keepalive writes    *)
(* into a dead socket.                                                     *)
(***************************************************************************)
StoppedStaysStopped ==
  /\ ~app.auto => app.timers = {}
  /\ app.sock = "idle" => app.timers \subseteq {"retry"}

(***************************************************************************)
(* The flags the client shows agree with the transport's, which never      *)
(* outlive the socket: whoever is authorized is initialized, has a user    *)
(* and is past the key exchange.                                           *)
(* (With the types of the variables.)                                      *)
(***************************************************************************)
ClientAgrees ==
  /\ ConnectionTypeOK
  /\ app.client # {} => app.sock \in {"open", "closing"}
  /\ app.initialized <=> "initialized" \in app.client
  /\ app.initialized => "connected" \in app.client /\ ~app.handshaking
  /\ "authorized" \in app.client => app.initialized /\ HasSession(app)

(***************************************************************************)
(* A session that would be resumed without a key exchange, in memory or in *)
(* any group of the ini, has a key the server of that data centre knows.   *)
(* A key half exchanged when the process stopped is never resumed.         *)
(***************************************************************************)
SessionIsUsable ==
  /\ app.user => <<app.dc, app.key>> \in known
  /\ \A d \in DCs : app.ini.at[d].user => <<d, app.ini.at[d].key>> \in known

\* Once the client says it is authorized, a crash at any moment finds the
\* same session in the ini.
SignedInIsStored ==
  "authorized" \in app.client =>
    app.ini.main = app.dc /\ app.ini.at[app.dc] = EntryOf(app)

(***************************************************************************)
(* One failure is counted once, however many ways it is reported, and only *)
(* a connection that became useful, the user or the platform resets the    *)
(* backoff: a data centre that accepts and rejects is not hammered.        *)
(***************************************************************************)
BackoffCounts ==
  [][/\ app.sock # "idle" /\ app'.sock = "idle" /\ app'.auto /\ HasSession(app')
          => app'.attempt = Bump(app.attempt)
     /\ app'.attempt < app.attempt =>
          \/ app'.initialized /\ ~app.initialized
          \/ ~app'.auto \/ ~HasSession(app')
          \/ NetworkOnline \/ Restart]_vars

\* A client with a session that means to be connected gets there.
Reconnects ==
  (app.auto /\ HasSession(app))
    ~> (app.initialized \/ ~app.auto \/ ~HasSession(app))

(***************************************************************************)
(* "An explicit stop is a decision. start() sets this back."  The intro    *)
(* page resets the session and starts: only while the previous socket is   *)
(* on its way out is that start lost, with the transport left stopped.     *)
(***************************************************************************)
StartSetsBack ==
  [][Intro => app'.auto \/ app'.sock \in {"aborting", "closing"}]_vars
=============================================================================
