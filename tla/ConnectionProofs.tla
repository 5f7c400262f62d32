-------------------------- MODULE ConnectionProofs --------------------------
(***************************************************************************)
(* The connection is never left without a socket or a timer, a stop stops, *)
(* and the flags and sessions agree, for any data centres and bounds.      *)
(***************************************************************************)
EXTENDS Connection, TLAPS

(***************************************************************************)
(* The socket, the timers and the flags.  What makes the properties        *)
(* inductive: only a socket on its way out belongs to a stopped transport, *)
(* and a loss that was reported (latch) is one of a socket that is gone.   *)
(***************************************************************************)
Wired(s) ==
  /\ s.sock \in {"connecting", "open"} => s.auto
  /\ s.sock \in {"aborting", "closing"} => ~s.auto
  /\ s.latch => s.sock = "idle"
  /\ ~s.auto => s.timers = {}
  /\ s.sock = "idle" => s.timers \subseteq {"retry"}
  /\ s.sock = "connecting" => "connect" \in s.timers
  /\ s.auto /\ HasSession(s) /\ s.sock = "idle" => "retry" \in s.timers

Flagged(s) ==
  /\ s.sock \notin {"open", "closing"} =>
       s.client = {} /\ ~s.handshaking /\ ~s.initialized
  /\ s.sock = "open" => "connected" \in s.client
  /\ s.initialized <=> "initialized" \in s.client
  /\ s.initialized => "connected" \in s.client /\ ~s.handshaking
  /\ "authorized" \in s.client => s.initialized /\ HasSession(s)

(***************************************************************************)
(* The session: whoever has a user has an address and a key the server     *)
(* knows, in memory and in every group of the ini.  A key is exchanged     *)
(* only without a user.                                                    *)
(***************************************************************************)
KnownIn(ini, k) ==
  \A d \in DCs : ini.at[d].user => ini.at[d].host /\ <<d, ini.at[d].key>> \in k

Usable(s, k) ==
  /\ s.user => s.host /\ <<s.dc, s.key>> \in k
  /\ KnownIn(s.ini, k)
  /\ s.sock # "idle" => s.dc # NoDc /\ s.host
  /\ s.handshaking => ~s.user

\* What the authorized client relies on is in the ini.
Stored(s) ==
  "authorized" \in s.client => s.ini.main = s.dc /\ s.ini.at[s.dc] = EntryOf(s)

Good(s, k) == s \in Program /\ Wired(s) /\ Flagged(s) /\ Usable(s, k) /\ Stored(s)

\* A reply that is still owed on an open socket is about a key the server
\* knows, and the account is asked for only past initConnection.
Answering(s, r, k) ==
  s.sock = "open" =>
    /\ s.initialized => <<s.dc, s.key>> \in k
    /\ "config" \in r => ~s.handshaking /\ <<s.dc, s.key>> \in k
    /\ "check" \in r => s.initialized

\* The inductive invariant.
IInv ==
  ConnectionTypeOK /\ Good(app, known) /\ Answering(app, owed, known)

\* What the methods of the transport leave alone, and how they leave it.
SameWire(s, t) ==
  /\ t.sock = s.sock /\ t.timers = s.timers /\ t.auto = s.auto /\ t.latch = s.latch
  /\ t.initialized = s.initialized /\ t.handshaking = s.handshaking
  /\ t.client = s.client

SameSession(s, t) == t.dc = s.dc /\ t.host = s.host /\ t.key = s.key /\ t.user = s.user

Gone(s) == s.sock \in {"idle", "aborting", "closing"} /\ ~s.auto /\ s.timers = {}

-----------------------------------------------------------------------------
(***************************************************************************)
(* What each method of the transport leaves.                               *)
(***************************************************************************)
LEMMA ProgramFields ==
  ASSUME NEW s \in Program
  PROVE  /\ s.dc \in DCs \cup {NoDc} /\ EntryOf(s) \in Entry
         /\ s.ini \in [main : DCs \cup {NoDc}, at : [DCs -> Entry]]
         /\ s.ini.main \in DCs \cup {NoDc} /\ s.ini.at \in [DCs -> Entry]
BY DEF Program, EntryOf, Entry

\* saveSession() writes the group of the current data centre and MainDc.
LEMMA SaveFact ==
  ASSUME NEW s \in Program
  PROVE  /\ Save(s) \in Program
         /\ SameWire(s, Save(s)) /\ SameSession(s, Save(s))
         /\ s.dc = NoDc => Save(s) = s
         /\ s.dc # NoDc =>
              /\ Save(s).ini.main = s.dc
              /\ Save(s).ini.at = [s.ini.at EXCEPT ![s.dc] = EntryOf(s)]
<1>1. CASE s.dc = NoDc
  BY <1>1 DEF Save, SameWire, SameSession
<1>2. CASE s.dc # NoDc
  <2>. DEFINE ini == [s.ini EXCEPT !.main = s.dc, !.at[s.dc] = EntryOf(s)]
  <2>1. Save(s) = [s EXCEPT !.ini = ini]
    BY <1>2 DEF Save, Program
  <2>2. /\ ini \in [main : DCs \cup {NoDc}, at : [DCs -> Entry]]
        /\ ini.main = s.dc /\ ini.at = [s.ini.at EXCEPT ![s.dc] = EntryOf(s)]
    BY <1>2, ProgramFields
  <2>. HIDE DEF ini
  <2>. QED
    BY <1>2, <2>1, <2>2 DEF Program, SameWire, SameSession
<1>. QED
  BY <1>1, <1>2

\* Saving keeps what the session and the ini are good for.
LEMMA SaveKeeps ==
  ASSUME ConnectionAssumption, NEW s \in Program, NEW k, Usable(s, k)
  PROVE  Usable(Save(s), k) /\ (s.dc # NoDc => Stored(Save(s)))
<1>1. CASE s.dc = NoDc
  BY <1>1, SaveFact
<1>2. CASE s.dc # NoDc
  <2>. DEFINE t == Save(s)
  <2>1. /\ SameWire(s, t) /\ SameSession(s, t) /\ t.ini.main = s.dc
        /\ t.ini.at = [s.ini.at EXCEPT ![s.dc] = EntryOf(s)]
    BY <1>2, SaveFact
  <2>. HIDE DEF t
  <2>2. s.dc \in DCs /\ s.ini.at \in [DCs -> Entry]
    BY <1>2, ProgramFields
  <2>3. t.ini.at[s.dc] = EntryOf(t)
    BY <2>1, <2>2 DEF EntryOf, SameSession
  <2>4. KnownIn(t.ini, k)
    BY <2>1, <2>2 DEF KnownIn, Usable, EntryOf
  <2>5. Usable(t, k) /\ Stored(t)
    BY <2>1, <2>3, <2>4 DEF Usable, Stored, SameWire, SameSession
  <2>. QED
    BY <2>5 DEF t
<1>. QED
  BY <1>1, <1>2

\* loadSession() takes up the group of MainDc and nothing else.
LEMMA LoadFact ==
  ASSUME ConnectionAssumption, NEW s \in Program, NEW k, KnownIn(s.ini, k)
  PROVE  /\ Load(s) \in Program
         /\ SameWire(s, Load(s)) /\ Load(s).ini = s.ini /\ Load(s).dc = s.ini.main
         /\ Load(s).user => Load(s).host /\ <<Load(s).dc, Load(s).key>> \in k
         /\ Load(s).dc # NoDc => EntryOf(Load(s)) = s.ini.at[s.ini.main]
         /\ Load(s).dc = NoDc => ~Load(s).user
<1>. DEFINE d == s.ini.main
            e == IF d = NoDc THEN NoEntry ELSE s.ini.at[d]
            t == Load(s)
<1>1. d \in DCs \cup {NoDc} /\ s.ini.at \in [DCs -> Entry]
  BY ProgramFields
<1>2. /\ e \in Entry /\ (d # NoDc => e = s.ini.at[d]) /\ (d = NoDc => ~e.user)
      /\ e.user => e.host /\ <<d, e.key>> \in k
  BY <1>1 DEF KnownIn, Entry, NoEntry
<1>3. t = [s EXCEPT !.dc = d, !.host = e.host, !.key = e.key, !.user = e.user]
  BY DEF Load
<1>4. e.host \in BOOLEAN /\ e.key \in Keys \cup {NoKey} /\ e.user \in BOOLEAN
      /\ e = [host |-> e.host, key |-> e.key, user |-> e.user]
  BY <1>2 DEF Entry
<1>. HIDE DEF e, t
<1>5. /\ t \in Program /\ SameWire(s, t) /\ t.ini = s.ini
      /\ t.dc = d /\ t.host = e.host /\ t.key = e.key /\ t.user = e.user
  BY <1>1, <1>3, <1>4 DEF Program, SameWire
<1>6. EntryOf(t) = e
  BY <1>4, <1>5 DEF EntryOf
<1>. QED
  BY <1>2, <1>5, <1>6 DEF t

\* handleDisconnected() drops the client's flags and nothing else.
LEMMA ClientDownFact ==
  ASSUME NEW s \in Program
  PROVE  LET t == ClientDown(s) IN
         /\ t \in Program /\ SameSession(s, t) /\ t.ini = s.ini
         /\ t.sock = s.sock /\ t.auto = s.auto /\ t.latch = s.latch
         /\ t.initialized = s.initialized /\ t.handshaking = s.handshaking
         /\ t.client = {} /\ t.timers = s.timers
<1>. DEFINE p == IF s.user THEN s.page ELSE "intro"
<1>1. ClientDown(s) = [s EXCEPT !.client = {}, !.busy = FALSE, !.page = p]
  BY DEF ClientDown, Program
<1>2. p \in {"intro", "login", "main"}
  BY DEF Program
<1>. HIDE DEF p
<1>. QED
  BY <1>1, <1>2 DEF Program, SameSession

\* scheduleReconnect() starts the retry timer or leaves the timers alone.
LEMMA ScheduleFact ==
  ASSUME ConnectionAssumption, NEW s \in Program
  PROVE  LET t == ScheduleReconnect(s) IN
         /\ t \in Program /\ SameSession(s, t) /\ t.ini = s.ini
         /\ t.sock = s.sock /\ t.auto = s.auto /\ t.latch = s.latch
         /\ t.initialized = s.initialized /\ t.handshaking = s.handshaking
         /\ s.auto /\ HasSession(s) => t.timers = s.timers \cup {"retry"}
         /\ ~(s.auto /\ HasSession(s)) => t.timers = s.timers
<1>. DEFINE n == Bump(s.attempt)
            m == s.timers \cup {"retry"}
<1>1. 0 \in 0 .. MaxStep /\ n \in 0 .. MaxStep
  BY DEF Bump, Program, ConnectionAssumption
<1>2. m \in SUBSET {"ping", "retry", "connect"}
  BY DEF Program
<1>3. CASE s.auto /\ HasSession(s)
  <2>1. ScheduleReconnect(s) = [s EXCEPT !.attempt = n, !.timers = m]
    BY <1>3 DEF ScheduleReconnect, Program
  <2>. HIDE DEF n, m
  <2>2. LET t == [s EXCEPT !.attempt = n, !.timers = m] IN
        /\ t \in Program /\ SameSession(s, t) /\ t.ini = s.ini
        /\ t.sock = s.sock /\ t.auto = s.auto /\ t.latch = s.latch
        /\ t.initialized = s.initialized /\ t.handshaking = s.handshaking
        /\ t.timers = m
    BY <1>1, <1>2 DEF Program, SameSession
  <2>. QED
    BY <2>1, <2>2, <1>3 DEF m
<1>4. CASE ~(s.auto /\ HasSession(s))
  <2>1. ScheduleReconnect(s) = [s EXCEPT !.attempt = 0]
    BY <1>4 DEF ScheduleReconnect
  <2>2. LET t == [s EXCEPT !.attempt = 0] IN
        /\ t \in Program /\ SameSession(s, t) /\ t.ini = s.ini
        /\ t.sock = s.sock /\ t.auto = s.auto /\ t.latch = s.latch
        /\ t.initialized = s.initialized /\ t.handshaking = s.handshaking
        /\ t.timers = s.timers
    BY <1>1 DEF Program, SameSession
  <2>. QED
    BY <2>1, <2>2, <1>4
<1>. QED
  BY <1>3, <1>4

\* The first report of a loss.
LEMMA NotifyFact ==
  ASSUME ConnectionAssumption, NEW s \in Program, ~s.latch
  PROVE  LET t == Notify(s) IN
         /\ t \in Program /\ SameSession(s, t) /\ t.ini = s.ini
         /\ t.sock = s.sock /\ t.auto = s.auto /\ t.latch
         /\ ~t.initialized /\ ~t.handshaking /\ t.client = {}
         /\ s.auto /\ HasSession(s) =>
              t.timers = (s.timers \ {"ping", "connect"}) \cup {"retry"}
         /\ ~(s.auto /\ HasSession(s)) => t.timers = s.timers \ {"ping", "connect"}
<1>. DEFINE a == [s EXCEPT !.latch = TRUE, !.initialized = FALSE, !.handshaking = FALSE,
                           !.timers = @ \ {"ping", "connect"}]
            b == ScheduleReconnect(a)
<1>1. Notify(s) = ClientDown(b)
  BY DEF Notify
<1>2. /\ a \in Program /\ SameSession(s, a) /\ a.ini = s.ini /\ a.sock = s.sock
      /\ a.auto = s.auto /\ a.latch /\ ~a.initialized /\ ~a.handshaking
      /\ a.timers = s.timers \ {"ping", "connect"}
  BY DEF Program, SameSession
<1>. HIDE DEF a
<1>3. HasSession(a) <=> HasSession(s)
  BY <1>2 DEF HasSession, SameSession
<1>4. /\ b \in Program /\ SameSession(a, b) /\ b.ini = a.ini
      /\ b.sock = a.sock /\ b.auto = a.auto /\ b.latch = a.latch
      /\ b.initialized = a.initialized /\ b.handshaking = a.handshaking
      /\ a.auto /\ HasSession(a) => b.timers = a.timers \cup {"retry"}
      /\ ~(a.auto /\ HasSession(a)) => b.timers = a.timers
  BY <1>2, ScheduleFact
<1>. HIDE DEF b
<1>5. /\ ClientDown(b) \in Program /\ SameSession(b, ClientDown(b))
      /\ ClientDown(b).ini = b.ini /\ ClientDown(b).sock = b.sock
      /\ ClientDown(b).auto = b.auto /\ ClientDown(b).latch = b.latch
      /\ ClientDown(b).initialized = b.initialized
      /\ ClientDown(b).handshaking = b.handshaking
      /\ ClientDown(b).client = {} /\ ClientDown(b).timers = b.timers
  BY <1>4, ClientDownFact
<1>. QED
  BY <1>1, <1>2, <1>3, <1>4, <1>5 DEF SameSession

\* A second report of the same loss changes nothing.
LEMMA OneReport ==
  ASSUME NEW s \in Program, Notify([s EXCEPT !.sock = "idle"]).latch
  PROVE  Dropped(s) = Refused(s)
BY DEF Dropped, Refused, Notify

\* A lost socket leaves a program in order, with its retry timer if need be.
LEMMA LostFact ==
  ASSUME ConnectionAssumption, NEW s \in Program, NEW k,
         ~s.latch, ~s.auto => s.timers = {}, Usable(s, k)
  PROVE  LET t == Refused(s) IN
         /\ Good(t, k) /\ t.sock = "idle" /\ SameSession(s, t) /\ t.ini = s.ini
         /\ t.auto = s.auto /\ Dropped(s) = t
         /\ s.timers = {} /\ ~s.auto => t.timers = {}
<1>. DEFINE a == [s EXCEPT !.sock = "idle"]
            t == Notify(a)
<1>1. /\ a \in Program /\ ~a.latch /\ a.sock = "idle" /\ SameSession(s, a)
      /\ a.ini = s.ini /\ a.auto = s.auto /\ a.timers = s.timers
  BY DEF Program, SameSession
<1>. HIDE DEF a
<1>2. /\ t \in Program /\ SameSession(a, t) /\ t.ini = a.ini /\ t.sock = "idle"
      /\ t.auto = a.auto /\ t.latch
      /\ ~t.initialized /\ ~t.handshaking /\ t.client = {}
      /\ a.auto /\ HasSession(a) =>
           t.timers = (a.timers \ {"ping", "connect"}) \cup {"retry"}
      /\ ~(a.auto /\ HasSession(a)) => t.timers = a.timers \ {"ping", "connect"}
  BY <1>1, NotifyFact
<1>. HIDE DEF t
<1>3. SameSession(s, t) /\ t.ini = s.ini /\ t.auto = s.auto
  BY <1>1, <1>2 DEF SameSession
<1>4. Wired(t) /\ (s.timers = {} /\ ~s.auto => t.timers = {})
  <2>1. a.timers \subseteq {"ping", "retry", "connect"}
    BY <1>1 DEF Program
  <2>2. HasSession(t) <=> HasSession(a)
    BY <1>2 DEF HasSession, SameSession
  <2>. QED
    BY <1>1, <1>2, <2>1, <2>2 DEF Wired
<1>5. Flagged(t) /\ Stored(t)
  BY <1>2 DEF Flagged, Stored
<1>6. Usable(t, k)
  BY <1>2, <1>3 DEF Usable, SameSession
<1>7. Refused(s) = t
  BY DEF Refused, a, t
<1>8. Dropped(s) = Refused(s)
  BY <1>2, OneReport DEF a, t
<1>. QED
  BY <1>2, <1>3, <1>4, <1>5, <1>6, <1>7, <1>8 DEF Good

\* stop() saves, and leaves a socket gone or on its way out and no timer.
LEMMA StopFact ==
  ASSUME ConnectionAssumption, NEW s \in Program, NEW k, NEW linger \in BOOLEAN,
         s.latch => s.sock = "idle", Flagged(s), Usable(s, k)
  PROVE  LET t == Stop(s, linger) IN
         /\ Good(t, k) /\ Gone(t) /\ SameSession(s, t) /\ t.ini = Save(s).ini
         /\ s.sock = "idle" => t.sock = "idle"
<1>. DEFINE b == [Save(s) EXCEPT !.timers = {}, !.auto = FALSE]
            t == Stop(s, linger)
<1>1. /\ Save(s) \in Program /\ SameWire(s, Save(s)) /\ SameSession(s, Save(s))
      /\ Usable(Save(s), k) /\ Stored(Save(s))
  <2>1. s.dc = NoDc => s.sock = "idle"
    BY DEF Usable
  <2>2. s.sock = "idle" => "authorized" \notin s.client
    BY DEF Flagged
  <2>. QED
    BY <2>1, <2>2, SaveFact, SaveKeeps DEF Stored, SameWire
<1>2. /\ b \in Program /\ SameSession(s, b) /\ b.ini = Save(s).ini
      /\ b.sock = s.sock /\ b.timers = {} /\ ~b.auto /\ b.latch = s.latch
      /\ b.client = s.client /\ b.initialized = s.initialized
      /\ b.handshaking = s.handshaking
  BY <1>1 DEF Program, SameSession, SameWire
<1>3. Usable(b, k) /\ Stored(b) /\ Flagged(b)
  <2>1. SameSession(Save(s), b) /\ SameSession(s, Save(s))
    BY <1>1, <1>2 DEF SameSession
  <2>2. Usable(b, k)
    BY <1>1, <1>2, <2>1 DEF Usable, SameWire, SameSession
  <2>3. Stored(b)
    BY <1>1, <1>2, <2>1 DEF Stored, EntryOf, SameWire, SameSession
  <2>4. Flagged(b)
    BY <1>2 DEF Flagged, HasSession, SameSession
  <2>. QED
    BY <2>2, <2>3, <2>4
<1>4. t = DisconnectFromHost(b, linger)
  BY DEF Stop
<1>. HIDE DEF b, t
<1>5. CASE b.sock = "idle"
  <2>1. t = b
    BY <1>4, <1>5 DEF DisconnectFromHost
  <2>2. Wired(b) /\ Gone(b)
    BY <1>2, <1>5 DEF Wired, Gone
  <2>. QED
    BY <1>2, <1>3, <1>5, <2>1, <2>2 DEF Good, t
<1>6. CASE b.sock \in {"connecting", "aborting"}
  <2>1. t = [b EXCEPT !.sock = "aborting"]
    BY <1>4, <1>6 DEF DisconnectFromHost
  <2>2. /\ t \in Program /\ SameSession(b, t) /\ t.ini = b.ini
        /\ t.sock = "aborting" /\ t.timers = {} /\ ~t.auto /\ t.latch = b.latch
        /\ t.client = b.client /\ t.initialized = b.initialized
        /\ t.handshaking = b.handshaking
    BY <1>2, <2>1 DEF Program, SameSession
  <2>3. Wired(t) /\ Gone(t)
    BY <1>2, <1>6, <2>2 DEF Wired, Gone
  <2>4. Flagged(t)
    BY <1>3, <1>6, <2>2 DEF Flagged
  <2>5. Usable(t, k)
    BY <1>3, <1>6, <2>2 DEF Usable, SameSession
  <2>6. Stored(t)
    BY <1>3, <2>2 DEF Stored, EntryOf, SameSession
  <2>7. SameSession(s, t)
    BY <1>2, <2>2 DEF SameSession
  <2>. QED
    BY <1>2, <1>6, <2>2, <2>3, <2>4, <2>5, <2>6, <2>7 DEF Good, t
<1>7. CASE b.sock \in {"open", "closing"} /\ linger
  <2>1. t = [b EXCEPT !.sock = "closing"]
    BY <1>4, <1>7 DEF DisconnectFromHost
  <2>2. /\ t \in Program /\ SameSession(b, t) /\ t.ini = b.ini
        /\ t.sock = "closing" /\ t.timers = {} /\ ~t.auto /\ t.latch = b.latch
        /\ t.client = b.client /\ t.initialized = b.initialized
        /\ t.handshaking = b.handshaking
    BY <1>2, <2>1 DEF Program, SameSession
  <2>3. Wired(t) /\ Gone(t)
    BY <1>2, <1>7, <2>2 DEF Wired, Gone
  <2>4. Flagged(t)
    BY <1>3, <1>7, <2>2 DEF Flagged, HasSession, SameSession
  <2>5. Usable(t, k)
    BY <1>3, <1>7, <2>2 DEF Usable, SameSession
  <2>6. Stored(t)
    BY <1>3, <2>2 DEF Stored, EntryOf, SameSession
  <2>7. SameSession(s, t)
    BY <1>2, <2>2 DEF SameSession
  <2>. QED
    BY <1>2, <1>7, <2>2, <2>3, <2>4, <2>5, <2>6, <2>7 DEF Good, t
<1>8. CASE b.sock \in {"open", "closing"} /\ ~linger
  <2>1. t = Refused(b)
    BY <1>4, <1>8 DEF DisconnectFromHost, Refused
  <2>2. ~b.latch
    BY <1>2, <1>8
  <2>3. /\ Good(t, k) /\ t.sock = "idle" /\ SameSession(b, t) /\ t.ini = b.ini
        /\ ~t.auto /\ t.timers = {}
    BY <1>2, <1>3, <2>1, <2>2, LostFact
  <2>. QED
    BY <1>2, <2>3 DEF SameSession, Gone, t
<1>. QED
  BY <1>2, <1>5, <1>6, <1>7, <1>8 DEF Program

\* resetDc() leaves the default data centre and no user.
LEMMA ResetDcFact ==
  ASSUME ConnectionAssumption, NEW s \in Program, NEW k, NEW linger \in BOOLEAN,
         s.latch => s.sock = "idle", Flagged(s), Usable(s, k),
         ~s.user, s.dc = NoDc => s.ini.main = NoDc
  PROVE  LET t == ResetDc(s, linger) IN
         /\ Good(t, k) /\ Gone(t) /\ ~t.user /\ t.dc = DefaultDc /\ t.host
         /\ s.sock = "idle" => t.sock = "idle"
<1>. DEFINE p == Stop(s, linger)
            q == [p EXCEPT !.dc = DefaultDc]
            a == Load(q)
            b == [a EXCEPT !.dc = DefaultDc, !.host = TRUE]
            t == ResetDc(s, linger)
<1>1. /\ Good(p, k) /\ Gone(p) /\ SameSession(s, p) /\ p.ini = Save(s).ini
      /\ s.sock = "idle" => p.sock = "idle"
  BY StopFact
<1>2. t = Save(b)
  BY DEF ResetDc
<1>. HIDE DEF p, t
<1>3. /\ q \in Program /\ SameWire(p, q) /\ q.ini = p.ini
  BY <1>1 DEF Good, Program, SameWire, ConnectionAssumption
<1>. HIDE DEF q
<1>4. /\ a \in Program /\ SameWire(q, a) /\ a.ini = q.ini /\ a.dc = q.ini.main
      /\ a.dc # NoDc => EntryOf(a) = q.ini.at[q.ini.main]
      /\ a.dc = NoDc => ~a.user
  BY <1>1, <1>3, LoadFact DEF Good, Usable
<1>. HIDE DEF a
<1>5. ~a.user
  <2>1. CASE s.dc = NoDc
    <3>1. Save(s) = s
      BY <2>1, SaveFact
    <3>2. q.ini = s.ini
      BY <1>1, <1>3, <3>1
    <3>. QED
      BY <1>4, <2>1, <3>2
  <2>2. CASE s.dc # NoDc
    <3>1. s.dc \in DCs /\ s.ini.at \in [DCs -> Entry]
      BY <2>2, ProgramFields
    <3>2. /\ Save(s).ini.main = s.dc
          /\ Save(s).ini.at = [s.ini.at EXCEPT ![s.dc] = EntryOf(s)]
      BY <2>2, SaveFact
    <3>3. q.ini = Save(s).ini
      BY <1>1, <1>3
    <3>4. q.ini.main = s.dc /\ q.ini.at[s.dc] = EntryOf(s)
      BY <3>1, <3>2, <3>3
    <3>5. EntryOf(a) = EntryOf(s)
      BY <1>4, <2>2, <3>4
    <3>. QED
      BY <3>5 DEF EntryOf
  <2>. QED
    BY <2>1, <2>2
<1>6. /\ b \in Program /\ SameWire(a, b) /\ b.ini = a.ini
      /\ b.dc = DefaultDc /\ b.host /\ b.user = a.user
  BY <1>4 DEF Program, SameWire, ConnectionAssumption
<1>. HIDE DEF b
<1>7. SameWire(p, b) /\ b.ini = p.ini /\ ~b.user
  BY <1>3, <1>4, <1>5, <1>6 DEF SameWire
<1>8. b.dc # NoDc
  BY <1>6 DEF ConnectionAssumption
<1>9. Usable(b, k)
  BY <1>1, <1>6, <1>7, <1>8 DEF Good, Usable
<1>10. /\ t \in Program /\ SameWire(b, t) /\ SameSession(b, t)
       /\ Usable(t, k) /\ Stored(t)
  BY <1>2, <1>6, <1>8, <1>9, SaveFact, SaveKeeps
<1>11. SameWire(p, t) /\ ~t.user /\ t.dc = DefaultDc /\ t.host
  BY <1>6, <1>7, <1>10 DEF SameWire, SameSession
<1>12. Wired(t) /\ Gone(t)
  BY <1>1, <1>11 DEF Good, Wired, Gone, SameWire, HasSession
<1>13. "authorized" \notin p.client
  BY <1>1, <1>5 DEF Good, Flagged, HasSession, SameSession
<1>14. Flagged(t)
  BY <1>1, <1>11, <1>13 DEF Good, Flagged, SameWire
<1>. QED
  BY <1>1, <1>10, <1>11, <1>12, <1>14 DEF Good, SameWire, t

\* start() connects an idle socket and leaves any other alone.
LEMMA StartFact ==
  ASSUME ConnectionAssumption, NEW s \in Program, NEW k,
         Flagged(s), Usable(s, k), s.sock # "idle" => Wired(s) /\ Stored(s)
  PROVE  LET t == Start(s) IN
         /\ Good(t, k)
         /\ s.sock # "idle" => t = s
         /\ s.sock = "idle" => t.sock = "connecting" /\ t.auto
<1>1. CASE s.sock # "idle"
  BY <1>1 DEF Start, Good
<1>2. CASE s.sock = "idle"
  <2>. DEFINE a == Load(s)
              b == IF ~a.host \/ a.dc = NoDc THEN Save(ResetDc(a, FALSE)) ELSE a
              m == b.timers \cup {"connect", "ping"}
              t == Start(s)
  <2>1. t = [b EXCEPT !.latch = FALSE, !.auto = TRUE, !.sock = "connecting", !.timers = m]
    BY <1>2 DEF Start
  <2>. HIDE DEF t
  <2>2. /\ a \in Program /\ SameWire(s, a) /\ a.ini = s.ini /\ a.dc = s.ini.main
        /\ a.user => a.host /\ <<a.dc, a.key>> \in k
        /\ a.dc = NoDc => ~a.user
    BY LoadFact DEF Usable
  <2>. HIDE DEF a
  <2>3. /\ a.sock = "idle" /\ a.client = {} /\ ~a.handshaking /\ ~a.initialized
    BY <1>2, <2>2 DEF Flagged, SameWire
  <2>4. Flagged(a) /\ Usable(a, k)
    BY <2>2, <2>3 DEF Flagged, Usable
  <2>5. /\ b \in Program /\ Flagged(b) /\ Usable(b, k) /\ b.sock = "idle"
        /\ b.dc # NoDc /\ b.host
    <3>1. CASE ~a.host \/ a.dc = NoDc
      <4>. DEFINE r == ResetDc(a, FALSE)
      <4>1. ~a.user /\ (a.dc = NoDc => a.ini.main = NoDc)
        BY <2>2, <3>1
      <4>2. /\ Good(r, k) /\ r.dc = DefaultDc /\ r.host /\ r.sock = "idle"
        BY <2>2, <2>3, <2>4, <4>1, ResetDcFact
      <4>. HIDE DEF r
      <4>3. /\ Save(r) \in Program /\ SameWire(r, Save(r)) /\ SameSession(r, Save(r))
            /\ Usable(Save(r), k)
        BY <4>2, SaveFact, SaveKeeps DEF Good
      <4>4. b = Save(r)
        BY <3>1 DEF r
      <4>5. Flagged(Save(r))
        BY <4>2, <4>3 DEF Good, Flagged, HasSession, SameWire, SameSession
      <4>. QED
        BY <4>2, <4>3, <4>4, <4>5 DEF SameWire, SameSession, ConnectionAssumption
    <3>2. CASE ~(~a.host \/ a.dc = NoDc)
      BY <2>2, <2>3, <2>4, <3>2 DEF Program
    <3>. QED
      BY <3>1, <3>2
  <2>. HIDE DEF b
  <2>6. m \in SUBSET {"ping", "retry", "connect"} /\ "connect" \in m
    BY <2>5 DEF Program
  <2>. HIDE DEF m
  <2>7. /\ t \in Program /\ SameSession(b, t) /\ t.ini = b.ini
        /\ t.sock = "connecting" /\ t.auto /\ ~t.latch /\ t.timers = m
        /\ t.client = b.client /\ t.initialized = b.initialized
        /\ t.handshaking = b.handshaking
    BY <2>1, <2>5, <2>6 DEF Program, SameSession
  <2>8. b.client = {} /\ ~b.handshaking /\ ~b.initialized
    BY <2>5 DEF Flagged
  <2>9. Wired(t) /\ Flagged(t) /\ Stored(t)
    BY <2>6, <2>7, <2>8 DEF Wired, Flagged, Stored
  <2>10. Usable(t, k)
    BY <2>5, <2>7, <2>8 DEF Usable, SameSession
  <2>. QED
    BY <1>2, <2>7, <2>9, <2>10 DEF Good, t
<1>. QED
  BY <1>1, <1>2

\* resetSession() leaves no user, no key and an ini without either.
LEMMA ResetSessionFact ==
  ASSUME ConnectionAssumption, NEW s, NEW k, NEW linger \in BOOLEAN, Good(s, k)
  PROVE  LET t == ResetSession(s, linger) IN Good(t, k) /\ Gone(t)
<1>. DEFINE p == Stop(s, linger)
            x == [p EXCEPT !.key = NoKey, !.user = FALSE]
            e == [x EXCEPT !.ini = EmptyIni]
            y == SaveReset(x)
            z == [y EXCEPT !.initialized = FALSE]
            t == ResetSession(s, linger)
<1>1. Good(p, k) /\ Gone(p)
  BY StopFact DEF Good, Wired
<1>2. t = ClientDown(z)
  BY DEF ResetSession
<1>. HIDE DEF p, t
<1>3. /\ x \in Program /\ SameWire(p, x) /\ ~x.user /\ x.ini = p.ini
      /\ x.dc = p.dc /\ x.host = p.host
  BY <1>1 DEF Good, Program, SameWire
<1>. HIDE DEF x
<1>4. EmptyIni \in [main : DCs \cup {NoDc}, at : [DCs -> Entry]] /\ KnownIn(EmptyIni, k)
  BY DEF EmptyIni, NoEntry, Entry, KnownIn
<1>5. /\ e \in Program /\ SameWire(x, e) /\ SameSession(x, e) /\ e.ini = EmptyIni
  BY <1>3, <1>4 DEF Program, SameWire, SameSession
<1>. HIDE DEF e
<1>6. Usable(x, k)
  BY <1>1, <1>3 DEF Good, Usable, SameWire
<1>7. Usable(e, k)
  BY <1>4, <1>5, <1>6 DEF Usable, SameWire, SameSession
<1>8. /\ y \in Program /\ SameWire(x, y) /\ SameSession(x, y) /\ Usable(y, k)
  <2>1. CASE x.dc = NoDc
    BY <1>3, <1>6, <2>1 DEF SaveReset, SameWire, SameSession
  <2>2. CASE x.dc # NoDc
    <3>1. y = Save(e)
      BY <2>2 DEF SaveReset, e
    <3>2. /\ Save(e) \in Program /\ SameWire(e, Save(e)) /\ SameSession(e, Save(e))
          /\ Usable(Save(e), k)
      BY <1>5, <1>7, SaveFact, SaveKeeps
    <3>. QED
      BY <1>5, <3>1, <3>2 DEF SameWire, SameSession
  <2>. QED
    BY <2>1, <2>2
<1>. HIDE DEF y
<1>9. /\ z \in Program /\ SameSession(y, z) /\ z.ini = y.ini /\ z.sock = y.sock
      /\ z.auto = y.auto /\ z.latch = y.latch /\ z.timers = y.timers
      /\ ~z.initialized /\ z.handshaking = y.handshaking
  BY <1>8 DEF Program, SameSession
<1>. HIDE DEF z
<1>10. /\ t \in Program /\ SameSession(z, t) /\ t.ini = z.ini
       /\ t.sock = z.sock /\ t.auto = z.auto /\ t.latch = z.latch
       /\ t.initialized = z.initialized /\ t.handshaking = z.handshaking
       /\ t.client = {} /\ t.timers = z.timers
  BY <1>2, <1>9, ClientDownFact
<1>11. /\ t.sock = p.sock /\ t.auto = p.auto /\ t.latch = p.latch
       /\ t.timers = p.timers /\ t.handshaking = p.handshaking
       /\ ~t.initialized /\ SameSession(y, t) /\ t.ini = y.ini
  BY <1>3, <1>8, <1>9, <1>10 DEF SameWire, SameSession
<1>12. Wired(t) /\ Gone(t)
  BY <1>1, <1>11 DEF Good, Wired, Gone
<1>13. Flagged(t) /\ Stored(t)
  BY <1>1, <1>10, <1>11 DEF Good, Gone, Flagged, Stored
<1>14. Usable(t, k)
  <2>1. ~t.user /\ (t.handshaking => ~t.user)
    BY <1>3, <1>8, <1>11 DEF SameSession
  <2>2. t.sock = y.sock
    BY <1>9, <1>10
  <2>. QED
    BY <1>8, <1>11, <2>1, <2>2 DEF Usable, SameSession
<1>. QED
  BY <1>10, <1>12, <1>13, <1>14 DEF Good, t

\* migrateTo(), for an account without a user here.
LEMMA MigrateFact ==
  ASSUME ConnectionAssumption, NEW s, NEW k, NEW linger \in BOOLEAN,
         NEW found \in BOOLEAN, NEW d \in DCs, Good(s, k), ~s.user, s.sock = "open"
  PROVE  LET t == MigrateTo(s, d, found, linger) IN Good(t, k) /\ t.sock # "open"
<1>. DEFINE a == Stop(s, linger)
            x == [a EXCEPT !.dc = d, !.host = TRUE]
            t == MigrateTo(s, d, found, linger)
<1>1. /\ Good(a, k) /\ Gone(a) /\ SameSession(s, a)
  BY StopFact DEF Good, Wired
<1>2. /\ found => t = Start(Save(x))
      /\ ~found => t = Start(ResetDc(a, linger))
  BY DEF MigrateTo
<1>. HIDE DEF a, t
<1>3. ~a.user /\ a.dc # NoDc
  BY <1>1 DEF Good, Usable, SameSession
<1>4. CASE found
  <2>1. /\ x \in Program /\ SameWire(a, x) /\ x.ini = a.ini
        /\ x.dc = d /\ x.host /\ ~x.user
    BY <1>1, <1>3 DEF Good, Program, SameWire
  <2>. HIDE DEF x
  <2>2. d # NoDc
    BY DEF ConnectionAssumption
  <2>3. Usable(x, k)
    BY <1>1, <2>1, <2>2 DEF Good, Usable, SameWire
  <2>4. /\ Save(x) \in Program /\ SameWire(x, Save(x)) /\ SameSession(x, Save(x))
        /\ Usable(Save(x), k) /\ Stored(Save(x))
    BY <2>1, <2>2, <2>3, SaveFact, SaveKeeps
  <2>5. SameWire(a, Save(x)) /\ ~Save(x).user
    BY <2>1, <2>4 DEF SameWire, SameSession
  <2>6. "authorized" \notin a.client
    BY <1>1, <1>3 DEF Good, Flagged, HasSession
  <2>7. Wired(Save(x)) /\ Flagged(Save(x))
    BY <1>1, <2>5, <2>6 DEF Good, Gone, Wired, Flagged, SameWire
  <2>8. Good(t, k) /\ (t = Save(x) \/ t.sock = "connecting")
    BY <1>2, <1>4, <2>4, <2>7, StartFact
  <2>. QED
    BY <1>1, <2>5, <2>8 DEF Gone, SameWire, t
<1>5. CASE ~found
  <2>. DEFINE r == ResetDc(a, linger)
  <2>1. Good(r, k) /\ Gone(r)
    BY <1>1, <1>3, ResetDcFact DEF Good, Wired
  <2>. HIDE DEF r
  <2>2. t = Start(r)
    BY <1>2, <1>5 DEF r
  <2>3. Good(t, k) /\ (t = r \/ t.sock = "connecting")
    BY <2>1, <2>2, StartFact DEF Good
  <2>. QED
    BY <2>1, <2>3 DEF Gone, t
<1>. QED
  BY <1>4, <1>5

\* A process started from an ini of usable sessions is in order.
LEMMA RestartedFact ==
  ASSUME ConnectionAssumption, NEW k,
         NEW ini \in [main : DCs \cup {NoDc}, at : [DCs -> Entry]], KnownIn(ini, k)
  PROVE  LET t == Restarted(ini) IN Good(t, k) /\ t.sock \in {"idle", "connecting"}
<1>. DEFINE r == [sock |-> "idle", timers |-> {}, attempt |-> 0, auto |-> FALSE,
                  latch |-> FALSE, initialized |-> FALSE, handshaking |-> FALSE,
                  bad |-> 0, dc |-> NoDc, host |-> FALSE, key |-> NoKey, user |-> FALSE,
                  client |-> {}, page |-> "intro", busy |-> FALSE, ini |-> ini]
            s == Launched(ini)
            b == [s EXCEPT !.busy = TRUE]
            t == Restarted(ini)
<1>1. 0 \in 0 .. MaxStep /\ 0 \in 0 .. MaxBad - 1
  BY DEF ConnectionAssumption
<1>2. r \in Program
  BY <1>1 DEF Program
<1>3. s = Load(r)
  BY DEF Launched
<1>4. t = IF HasSession(s) THEN Start(b) ELSE s
  BY DEF Restarted
<1>5. /\ r.sock = "idle" /\ r.timers = {} /\ ~r.auto /\ ~r.latch /\ ~r.initialized
      /\ ~r.handshaking /\ r.client = {} /\ r.ini = ini
  OBVIOUS
<1>. HIDE DEF r, s, t
<1>6. /\ s \in Program /\ SameWire(r, s) /\ s.ini = r.ini
      /\ s.user => s.host /\ <<s.dc, s.key>> \in k
  BY <1>2, <1>3, <1>5, LoadFact
<1>7. Wired(s) /\ Flagged(s) /\ Stored(s) /\ s.sock = "idle"
  BY <1>5, <1>6 DEF Wired, Flagged, Stored, SameWire
<1>8. Usable(s, k)
  BY <1>5, <1>6 DEF Usable, SameWire
<1>9. /\ b \in Program /\ b.sock = s.sock /\ Flagged(b) /\ Usable(b, k)
  BY <1>6, <1>7, <1>8 DEF Program, Flagged, Usable, HasSession
<1>. HIDE DEF b
<1>10. Good(Start(b), k) /\ Start(b).sock = "connecting"
  BY <1>7, <1>9, StartFact
<1>. QED
  BY <1>4, <1>6, <1>7, <1>8, <1>10 DEF Good, t

-----------------------------------------------------------------------------
(***************************************************************************)
(* The invariant is inductive.                                             *)
(***************************************************************************)
\* Page, overlay, backoff and bad packets are not the invariant's business.
LEMMA GoodSame ==
  ASSUME NEW s, NEW k, Good(s, k), NEW t \in Program,
         SameWire(s, t), SameSession(s, t), t.ini = s.ini
  PROVE  Good(t, k)
<1>1. Wired(t) /\ Flagged(t)
  BY DEF Good, Wired, Flagged, HasSession, SameWire, SameSession
<1>2. Usable(t, k)
  BY DEF Good, Usable, SameWire, SameSession
<1>3. Stored(t)
  BY DEF Good, Stored, EntryOf, SameWire, SameSession
<1>. QED
  BY <1>1, <1>2, <1>3 DEF Good

\* Saving keeps a program in order.
LEMMA SaveGood ==
  ASSUME ConnectionAssumption, NEW s, NEW k, Good(s, k)
  PROVE  Good(Save(s), k) /\ SameWire(s, Save(s)) /\ SameSession(s, Save(s))
<1>1. CASE s.dc = NoDc
  BY <1>1, SaveFact DEF Good
<1>2. CASE s.dc # NoDc
  <2>. DEFINE t == Save(s)
  <2>1. t \in Program /\ SameWire(s, t) /\ SameSession(s, t) /\ Usable(t, k) /\ Stored(t)
    BY <1>2, SaveFact, SaveKeeps DEF Good
  <2>. HIDE DEF t
  <2>2. Wired(t) /\ Flagged(t)
    BY <2>1 DEF Good, Wired, Flagged, HasSession, SameWire, SameSession
  <2>. QED
    BY <2>1, <2>2 DEF Good, t
<1>. QED
  BY <1>1, <1>2

\* The server learns keys and forgets none.
LEMMA GoodGrows ==
  ASSUME NEW s, NEW k, NEW l, k \subseteq l, Good(s, k)
  PROVE  Good(s, l)
BY DEF Good, Usable, KnownIn

\* Where a step leaves the connection.
LEMMA Settles ==
  ASSUME made' \in 0 .. MaxKeys, known' \subseteq DCs \X Keys, signed' \subseteq Keys,
         NEW t, NEW r \in SUBSET {"pq", "dh", "gen", "config", "check"},
         Good(t, known'), Answering(t, r, known'), Becomes(t, r)
  PROVE  IInv'
BY DEF IInv, ConnectionTypeOK, Good, Answering, Becomes

\* Nothing is owed unless the socket is open.
LEMMA SettlesShut ==
  ASSUME ConnectionTypeOK, Quiet, NEW t,
         NEW r \in SUBSET {"pq", "dh", "gen", "config", "check"},
         Good(t, known), t.sock # "open", Becomes(t, r)
  PROVE  IInv'
<1>1. /\ made' \in 0 .. MaxKeys /\ known' \subseteq DCs \X Keys /\ signed' \subseteq Keys
      /\ known' = known
  BY DEF Quiet, ConnectionTypeOK
<1>2. Answering(t, r, known')
  BY DEF Answering
<1>. QED
  BY <1>1, <1>2, Settles

\* A handler that keeps the wire and the session, and asks for nothing new.
LEMMA SettlesSame ==
  ASSUME IInv, Quiet, NEW t, NEW r \in SUBSET owed, Good(t, known),
         SameWire(app, t), SameSession(app, t), Becomes(t, r)
  PROVE  IInv'
<1>1. /\ made' \in 0 .. MaxKeys /\ known' \subseteq DCs \X Keys /\ signed' \subseteq Keys
      /\ known' = known /\ r \in SUBSET {"pq", "dh", "gen", "config", "check"}
  BY DEF Quiet, IInv, ConnectionTypeOK
<1>2. Answering(t, r, known')
  BY <1>1 DEF IInv, Answering, SameWire, SameSession
<1>. QED
  BY <1>1, <1>2, Settles

\* A key the server knows is a key.
LEMMA UserHasKey ==
  ASSUME IInv, app.user
  PROVE  HasSession(app)
BY DEF IInv, ConnectionTypeOK, Good, Usable, HasSession, Keys, NoKey

\* The process starts with an empty ini.
LEMMA IInvInit ==
  ASSUME ConnectionAssumption, Init
  PROVE  IInv
<1>1. EmptyIni \in [main : DCs \cup {NoDc}, at : [DCs -> Entry]] /\ KnownIn(EmptyIni, known)
  BY DEF EmptyIni, NoEntry, Entry, KnownIn
<1>2. Good(app, known) /\ app.sock \in {"idle", "connecting"}
  BY <1>1, RestartedFact DEF Init
<1>3. ConnectionTypeOK
  BY <1>2 DEF Init, ConnectionTypeOK, Good, ConnectionAssumption
<1>. QED
  BY <1>2, <1>3 DEF IInv, Answering

\* A retry, now or by its timer: start() on a program without the retry timer.
LEMMA RetryFact ==
  ASSUME ConnectionAssumption, IInv, Quiet, NEW x \in Program,
         SameSession(app, x), x.ini = app.ini,
         x.sock = app.sock, x.auto = app.auto, x.latch = app.latch,
         x.timers = app.timers \ {"retry"}, x.client = app.client,
         x.initialized = app.initialized, x.handshaking = app.handshaking,
         Becomes(Start(x), owed)
  PROVE  IInv'
<1>. DEFINE t == Start(x)
<1>1. Flagged(x) /\ Stored(x)
  BY DEF IInv, Good, Flagged, Stored, EntryOf, HasSession, SameSession
<1>2. Usable(x, known)
  BY DEF IInv, Good, Usable, SameSession
<1>3. x.sock # "idle" => Wired(x)
  BY DEF IInv, Good, Wired
<1>4. /\ Good(t, known) /\ (x.sock # "idle" => t = x)
      /\ x.sock = "idle" => t.sock = "connecting"
  BY <1>1, <1>2, <1>3, StartFact
<1>. HIDE DEF t
<1>5. /\ made' \in 0 .. MaxKeys /\ known' \subseteq DCs \X Keys /\ signed' \subseteq Keys
      /\ known' = known /\ owed \in SUBSET {"pq", "dh", "gen", "config", "check"}
  BY DEF Quiet, IInv, ConnectionTypeOK
<1>6. Answering(t, owed, known')
  BY <1>4, <1>5 DEF IInv, Answering, SameSession
<1>. QED
  BY <1>4, <1>5, <1>6, Settles DEF t

\* The user's, the platform's and the process's steps.
LEMMA UserSteps ==
  ASSUME ConnectionAssumption, IInv, Intro \/ Back \/ LogOut \/ NetworkOnline \/ Restart
  PROVE  IInv'
<1>. USE DEF IInv
<1>1. CASE Intro
  <2>1. PICK linger \in BOOLEAN :
          Becomes(Start([ResetSession(app, linger) EXCEPT !.busy = TRUE]), {})
    BY <1>1 DEF Intro
  <2>. DEFINE r == ResetSession(app, linger)
              x == [r EXCEPT !.busy = TRUE]
              t == Start(x)
  <2>2. Good(r, known) /\ Gone(r)
    BY ResetSessionFact
  <2>. HIDE DEF r
  <2>3. x \in Program /\ SameWire(r, x) /\ SameSession(r, x) /\ x.ini = r.ini
    BY <2>2 DEF Good, Program, SameWire, SameSession
  <2>4. Good(x, known)
    BY <2>2, <2>3, GoodSame
  <2>. HIDE DEF x
  <2>5. Good(t, known) /\ (t = x \/ t.sock = "connecting")
    BY <2>4, StartFact DEF Good
  <2>6. t.sock # "open"
    BY <2>2, <2>3, <2>5 DEF Gone, SameWire
  <2>7. Becomes(t, {}) /\ Quiet
    BY <2>1, <1>1 DEF r, x, Intro
  <2>. QED
    BY <2>5, <2>6, <2>7, SettlesShut
<1>2. CASE Back
  <2>. DEFINE t == [app EXCEPT !.page = "intro", !.busy = FALSE]
  <2>1. t \in Program /\ SameWire(app, t) /\ SameSession(app, t) /\ t.ini = app.ini
    BY DEF Good, Program, SameWire, SameSession
  <2>2. Becomes(t, owed) /\ Quiet
    BY <1>2 DEF Back
  <2>. HIDE DEF t
  <2>. QED
    BY <2>1, <2>2, GoodSame, SettlesSame
<1>3. CASE LogOut
  <2>1. PICK linger \in BOOLEAN : Becomes(ResetSession(app, linger), {})
    BY <1>3 DEF LogOut
  <2>2. Good(ResetSession(app, linger), known) /\ Gone(ResetSession(app, linger))
    BY ResetSessionFact
  <2>. QED
    BY <1>3, <2>1, <2>2, SettlesShut DEF LogOut, Gone
<1>4. CASE NetworkOnline
  <2>. DEFINE x == [app EXCEPT !.timers = @ \ {"retry"}, !.attempt = 0]
              t == Start(x)
  <2>1. 0 \in 0 .. MaxStep
    BY DEF ConnectionAssumption
  <2>2. /\ x \in Program /\ SameSession(app, x) /\ x.ini = app.ini
        /\ x.sock = app.sock /\ x.auto = app.auto /\ x.latch = app.latch
        /\ x.timers = app.timers \ {"retry"} /\ x.client = app.client
        /\ x.initialized = app.initialized /\ x.handshaking = app.handshaking
    BY <2>1 DEF Good, Program, SameSession
  <2>3. Becomes(t, owed) /\ Quiet
    BY <1>4 DEF NetworkOnline
  <2>. QED
    BY <2>2, <2>3, RetryFact
<1>5. CASE Restart
  <2>. DEFINE p == Stop(app, FALSE)
  <2>1. Good(p, known)
    BY StopFact DEF Good, Wired
  <2>2. PICK ini \in {app.ini, p.ini} : Becomes(Restarted(ini), {})
    BY <1>5 DEF Restart
  <2>3. /\ ini \in [main : DCs \cup {NoDc}, at : [DCs -> Entry]]
        /\ KnownIn(ini, known)
    BY <2>1, <2>2, ProgramFields DEF Good, Usable
  <2>4. Good(Restarted(ini), known) /\ Restarted(ini).sock \in {"idle", "connecting"}
    BY <2>3, RestartedFact
  <2>. QED
    BY <1>5, <2>2, <2>4, SettlesShut DEF Restart
<1>. QED
  BY <1>1, <1>2, <1>3, <1>4, <1>5

\* The timers' steps.
LEMMA TimerSteps ==
  ASSUME ConnectionAssumption, IInv, RetryTimer \/ ConnectTimer \/ PingTimer
  PROVE  IInv'
<1>1. CASE RetryTimer
  <2>. DEFINE x == [app EXCEPT !.timers = @ \ {"retry"}]
  <2>1. /\ x \in Program /\ SameSession(app, x) /\ x.ini = app.ini
        /\ x.sock = app.sock /\ x.auto = app.auto /\ x.latch = app.latch
        /\ x.timers = app.timers \ {"retry"} /\ x.client = app.client
        /\ x.initialized = app.initialized /\ x.handshaking = app.handshaking
    BY DEF IInv, Good, Program, SameSession
  <2>2. Becomes(Start(x), owed) /\ Quiet
    BY <1>1 DEF RetryTimer
  <2>. HIDE DEF x
  <2>. QED
    BY <2>1, <2>2, RetryFact
<1>2. CASE ConnectTimer
  <2>. DEFINE x == [app EXCEPT !.timers = @ \ {"connect"}]
  <2>1. /\ x \in Program /\ SameSession(app, x) /\ x.ini = app.ini
        /\ x.sock = app.sock /\ x.auto = app.auto /\ x.latch = app.latch
        /\ x.timers = app.timers \ {"connect"} /\ x.handshaking = app.handshaking
    BY DEF IInv, Good, Program, SameSession
  <2>2. Becomes(Refused(x), {}) /\ Quiet /\ "connect" \in app.timers
    BY <1>2 DEF ConnectTimer
  <2>. HIDE DEF x
  <2>3. ~x.latch /\ (~x.auto => x.timers = {})
    BY <2>1, <2>2 DEF IInv, Good, Wired
  <2>4. Usable(x, known)
    BY <2>1 DEF IInv, Good, Usable, SameSession
  <2>5. Good(Refused(x), known) /\ Refused(x).sock = "idle"
    BY <2>1, <2>3, <2>4, LostFact
  <2>. QED
    BY <2>2, <2>5, SettlesShut DEF IInv
<1>3. CASE PingTimer
  <2>1. Good(Save(app), known) /\ SameWire(app, Save(app)) /\ SameSession(app, Save(app))
    BY SaveGood DEF IInv
  <2>. QED
    BY <1>3, <2>1, SettlesSame DEF PingTimer
<1>. QED
  BY <1>1, <1>2, <1>3

\* _connected() opens the socket and starts the key exchange without a session.
LEMMA ConnectedFact ==
  ASSUME IInv, app.sock \in {"connecting", "aborting"}
  PROVE  LET t == Connected(app) IN
         /\ t \in Program /\ SameSession(app, t) /\ t.ini = app.ini
         /\ t.sock = "open" /\ t.auto = app.auto /\ ~t.latch
         /\ t.timers = app.timers \ {"connect"} /\ t.client = {"connected"}
         /\ ~t.initialized /\ (t.handshaking <=> ~HasSession(app))
         /\ Flagged(t) /\ Usable(t, known) /\ Stored(t)
<1>. DEFINE h == IF HasSession(app) THEN app.handshaking ELSE TRUE
            c == app.client \cup {"connected"}
            t == Connected(app)
<1>1. t = [app EXCEPT !.sock = "open", !.timers = @ \ {"connect"}, !.client = c,
                      !.handshaking = h]
  BY DEF Connected, IInv, Good, Program
<1>2. /\ app.client = {} /\ ~app.handshaking /\ ~app.initialized /\ ~app.latch
  BY DEF IInv, Good, Flagged, Wired
<1>3. h \in BOOLEAN /\ (h <=> ~HasSession(app)) /\ c = {"connected"}
  <2>1. HasSession(app) => h = FALSE
    BY <1>2 DEF IInv, Good, Program
  <2>2. ~HasSession(app) => h = TRUE
    OBVIOUS
  <2>. QED
    BY <1>2, <2>1, <2>2
<1>. HIDE DEF h, c, t
<1>4. /\ t \in Program /\ SameSession(app, t) /\ t.ini = app.ini
      /\ t.sock = "open" /\ t.auto = app.auto /\ ~t.latch
      /\ t.timers = app.timers \ {"connect"} /\ t.client = c
      /\ ~t.initialized /\ t.handshaking = h
  BY <1>1, <1>2, <1>3 DEF IInv, Good, Program, SameSession
<1>5. t.handshaking => ~t.user
  BY <1>3, <1>4, UserHasKey DEF SameSession
<1>6. Flagged(t) /\ Stored(t)
  BY <1>3, <1>4 DEF Flagged, Stored
<1>7. Usable(t, known)
  BY <1>4, <1>5 DEF IInv, Good, Usable, SameSession
<1>. QED
  BY <1>3, <1>4, <1>6, <1>7 DEF t

\* The socket's steps.
LEMMA SocketSteps ==
  ASSUME ConnectionAssumption, IInv, SocketConnected \/ ConnectFails \/ Drop \/ BadPacket
  PROVE  IInv'
<1>. DEFINE Typed(r) == r \in SUBSET {"pq", "dh", "gen", "config", "check"}
            c == Connected(app)
<1>1. CASE SocketConnected /\ app.sock = "connecting"
  <2>1. Becomes(c, Greeting(app)) /\ Quiet
    BY <1>1 DEF SocketConnected
  <2>2. /\ c \in Program /\ SameSession(app, c) /\ c.ini = app.ini
        /\ c.sock = "open" /\ c.auto = app.auto /\ ~c.latch
        /\ c.timers = app.timers \ {"connect"} /\ ~c.initialized
        /\ (c.handshaking <=> ~HasSession(app))
        /\ Flagged(c) /\ Usable(c, known) /\ Stored(c)
    BY <1>1, ConnectedFact
  <2>. HIDE DEF c
  <2>3. Wired(c)
    BY <1>1, <2>2 DEF IInv, Good, Wired
  <2>4. /\ Typed(Greeting(app)) /\ "check" \notin Greeting(app)
        /\ "config" \in Greeting(app) => HasSession(app) /\ <<app.dc, app.key>> \in known
    BY DEF Greeting, Answered
  <2>5. Answering(c, Greeting(app), known)
    BY <2>2, <2>4 DEF Answering, SameSession
  <2>6. /\ made' \in 0 .. MaxKeys /\ known' \subseteq DCs \X Keys /\ signed' \subseteq Keys
        /\ known' = known
    BY <2>1 DEF Quiet, IInv, ConnectionTypeOK
  <2>. QED
    BY <2>1, <2>2, <2>3, <2>4, <2>5, <2>6, Settles DEF Good
<1>2. CASE SocketConnected /\ app.sock = "aborting"
  <2>1. PICK linger \in BOOLEAN : Becomes(DisconnectFromHost(c, linger), Greeting(app))
    BY <1>2 DEF SocketConnected
  <2>2. /\ c \in Program /\ SameSession(app, c) /\ c.ini = app.ini
        /\ c.sock = "open" /\ c.auto = app.auto /\ ~c.latch
        /\ c.timers = app.timers \ {"connect"} /\ c.client = {"connected"}
        /\ ~c.initialized /\ Flagged(c) /\ Usable(c, known) /\ Stored(c)
    BY <1>2, ConnectedFact
  <2>. HIDE DEF c
  <2>. DEFINE t == DisconnectFromHost(c, linger)
  <2>3. ~c.auto /\ c.timers = {}
    BY <1>2, <2>2 DEF IInv, Good, Wired
  <2>4. Good(t, known) /\ t.sock # "open"
    <3>1. CASE linger
      <4>1. t = [c EXCEPT !.sock = "closing"]
        BY <2>2, <3>1 DEF DisconnectFromHost
      <4>. HIDE DEF t
      <4>2. /\ t \in Program /\ SameSession(c, t) /\ t.ini = c.ini
            /\ t.sock = "closing" /\ t.timers = {} /\ ~t.auto /\ ~t.latch
            /\ t.client = c.client /\ ~t.initialized /\ t.handshaking = c.handshaking
        BY <2>2, <2>3, <4>1 DEF Program, SameSession
      <4>3. Wired(t) /\ Flagged(t) /\ Stored(t)
        BY <2>2, <4>2 DEF Wired, Flagged, Stored
      <4>4. Usable(t, known)
        BY <2>2, <4>2 DEF Usable, SameSession
      <4>. QED
        BY <4>2, <4>3, <4>4 DEF Good
    <3>2. CASE ~linger
      <4>1. t = Refused(c)
        BY <2>2, <3>2 DEF DisconnectFromHost, Refused
      <4>. QED
        BY <2>2, <2>3, <4>1, LostFact
    <3>. QED
      BY <3>1, <3>2
  <2>. HIDE DEF t
  <2>5. Typed(Greeting(app)) /\ Becomes(t, Greeting(app)) /\ Quiet
    BY <1>2, <2>1 DEF Greeting, Answered, SocketConnected, t
  <2>. QED
    BY <2>4, <2>5, SettlesShut DEF IInv
<1>3. CASE ConnectFails \/ Drop
  <2>1. ~app.latch /\ (~app.auto => app.timers = {}) /\ Usable(app, known)
    BY <1>3 DEF IInv, Good, Wired, ConnectFails, Drop
  <2>2. Good(Refused(app), known) /\ Refused(app).sock = "idle" /\ Dropped(app) = Refused(app)
    BY <2>1, LostFact DEF IInv, Good
  <2>3. Becomes(Refused(app), {}) /\ Quiet
    BY <1>3, <2>2 DEF ConnectFails, Drop
  <2>. QED
    BY <2>2, <2>3, SettlesShut DEF IInv
<1>4. CASE BadPacket /\ app.bad + 1 < MaxBad
  <2>. DEFINE t == [app EXCEPT !.bad = @ + 1]
  <2>1. app.bad + 1 \in 0 .. MaxBad - 1
    BY <1>4 DEF IInv, Good, Program, ConnectionAssumption
  <2>2. t \in Program /\ SameWire(app, t) /\ SameSession(app, t) /\ t.ini = app.ini
    BY <2>1 DEF IInv, Good, Program, SameWire, SameSession
  <2>3. Becomes(t, owed) /\ Quiet
    BY <1>4 DEF BadPacket, IInv, Good, Program, ConnectionAssumption
  <2>. HIDE DEF t
  <2>4. Good(t, known)
    BY <2>2, GoodSame DEF IInv
  <2>. QED
    BY <2>2, <2>3, <2>4, SettlesSame
<1>5. CASE BadPacket /\ app.bad + 1 >= MaxBad
  <2>. DEFINE x == [app EXCEPT !.bad = 0]
  <2>1. 0 \in 0 .. MaxBad - 1
    BY DEF ConnectionAssumption
  <2>2. x \in Program /\ SameWire(app, x) /\ SameSession(app, x) /\ x.ini = app.ini
    BY <2>1 DEF IInv, Good, Program, SameWire, SameSession
  <2>3. Becomes(Dropped(x), {}) /\ Quiet /\ app.sock = "open"
    BY <1>5 DEF BadPacket, IInv, Good, Program, ConnectionAssumption
  <2>. HIDE DEF x
  <2>4. Good(x, known)
    BY <2>2, GoodSame DEF IInv
  <2>5. ~x.latch /\ (~x.auto => x.timers = {}) /\ Usable(x, known)
    BY <2>2, <2>3, <2>4 DEF Good, Wired, SameWire
  <2>6. Good(Dropped(x), known) /\ Dropped(x).sock = "idle"
    BY <2>2, <2>5, LostFact
  <2>. QED
    BY <2>3, <2>6, SettlesShut DEF IInv
<1>. QED
  BY <1>1, <1>2, <1>3, <1>4, <1>5 DEF SocketConnected, BadPacket

\* A packet that verifies ends a run of bad ones.
LEMMA VerifiedFact ==
  ASSUME ConnectionAssumption, IInv
  PROVE  LET t == Verified(app) IN
         /\ Good(t, known) /\ SameWire(app, t) /\ SameSession(app, t) /\ t.ini = app.ini
<1>. DEFINE t == Verified(app)
<1>1. 0 \in 0 .. MaxBad - 1
  BY DEF ConnectionAssumption
<1>2. t \in Program /\ SameWire(app, t) /\ SameSession(app, t) /\ t.ini = app.ini
  BY <1>1 DEF IInv, Good, Program, Verified, SameWire, SameSession
<1>. HIDE DEF t
<1>3. Good(t, known)
  BY <1>2, GoodSame DEF IInv
<1>. QED
  BY <1>2, <1>3 DEF t

\* The replies of the key exchange.
LEMMA ExchangeSteps ==
  ASSUME ConnectionAssumption, IInv, HandleResPQ \/ HandleServerDHParamsOk \/ HandleDhGenOk
  PROVE  IInv'
<1>1. /\ made \in 0 .. MaxKeys /\ known \subseteq DCs \X Keys /\ signed \subseteq Keys
      /\ owed \subseteq {"pq", "dh", "gen", "config", "check"}
  BY DEF IInv, ConnectionTypeOK
<1>2. CASE HandleResPQ
  <2>. DEFINE r == (owed \ {"pq"}) \cup {"dh"}
  <2>1. Becomes(app, r) /\ Quiet
    BY <1>2 DEF HandleResPQ
  <2>2. r \in SUBSET {"pq", "dh", "gen", "config", "check"}
    BY <1>1
  <2>3. Answering(app, r, known')
    BY <2>1 DEF IInv, Answering, Quiet
  <2>. HIDE DEF r
  <2>. QED
    BY <1>1, <2>1, <2>2, <2>3, Settles DEF IInv, Quiet
<1>3. CASE HandleServerDHParamsOk
  <2>. DEFINE t == [app EXCEPT !.key = made + 1]
  <2>1. /\ app.sock = "open" /\ app.handshaking /\ made + 1 \in Keys
        /\ made' = made + 1 /\ signed' = signed
    BY <1>1, <1>3 DEF HandleServerDHParamsOk, Reads, Keys, ConnectionAssumption
  <2>2. PICK reached \in BOOLEAN :
          /\ Becomes(t, (owed \ {"dh"}) \cup IF reached THEN {"gen"} ELSE {})
          /\ known' = known \cup IF reached THEN {<<app.dc, made + 1>>} ELSE {}
    BY <1>3 DEF HandleServerDHParamsOk
  <2>. DEFINE r == (owed \ {"dh"}) \cup IF reached THEN {"gen"} ELSE {}
  <2>3. /\ t \in Program /\ SameWire(app, t) /\ t.ini = app.ini
        /\ t.dc = app.dc /\ t.host = app.host /\ t.user = app.user
    BY <2>1 DEF IInv, Good, Program, SameWire
  <2>. HIDE DEF t
  <2>4. /\ ~app.user /\ ~app.initialized /\ "authorized" \notin app.client
        /\ app.dc \in DCs
    BY <2>1 DEF IInv, Good, Usable, Flagged, Program
  <2>5. /\ made' \in 0 .. MaxKeys /\ signed' \subseteq Keys /\ known \subseteq known'
        /\ known' \subseteq DCs \X Keys
        /\ r \in SUBSET {"pq", "dh", "gen", "config", "check"}
    BY <1>1, <2>1, <2>2, <2>4 DEF Keys
  <2>6. Wired(t) /\ Flagged(t) /\ Stored(t)
    BY <2>1, <2>3, <2>4 DEF IInv, Good, Wired, Flagged, Stored, HasSession, SameWire
  <2>7. Usable(t, known)
    BY <2>3, <2>4 DEF IInv, Good, Usable, SameWire
  <2>8. Good(t, known')
    BY <2>3, <2>5, <2>6, <2>7, GoodGrows DEF Good
  <2>9. Answering(t, r, known')
    BY <2>1, <2>3, <2>4 DEF IInv, Answering, SameWire
  <2>. HIDE DEF r
  <2>10. Becomes(t, r)
    BY <2>2 DEF r
  <2>. QED
    BY <2>5, <2>8, <2>9, <2>10, Settles
<1>4. CASE HandleDhGenOk
  <2>. DEFINE x == [app EXCEPT !.handshaking = FALSE]
              t == Save(x)
              r == (owed \ {"gen"}) \cup Answered(t, "config")
  <2>1. Becomes(t, r) /\ Quiet /\ app.sock = "open" /\ app.handshaking
    BY <1>4 DEF HandleDhGenOk, Reads
  <2>2. /\ x \in Program /\ SameSession(app, x) /\ x.ini = app.ini
        /\ x.sock = app.sock /\ x.timers = app.timers /\ x.auto = app.auto
        /\ x.latch = app.latch /\ x.initialized = app.initialized
        /\ ~x.handshaking /\ x.client = app.client
    BY DEF IInv, Good, Program, SameSession
  <2>. HIDE DEF x
  <2>3. Wired(x) /\ Flagged(x)
    BY <2>2 DEF IInv, Good, Wired, Flagged, HasSession, SameSession
  <2>4. Usable(x, known)
    BY <2>2 DEF IInv, Good, Usable, SameSession
  <2>5. Stored(x)
    BY <2>2 DEF IInv, Good, Stored, EntryOf, SameSession
  <2>6. Good(t, known) /\ SameWire(x, t) /\ SameSession(x, t)
    BY <2>2, <2>3, <2>4, <2>5, SaveGood DEF Good
  <2>. HIDE DEF t
  <2>7. ~t.initialized /\ ~t.handshaking /\ "config" \notin owed /\ "check" \notin owed
    BY <2>1, <2>2, <2>6 DEF IInv, Good, Flagged, Answering, SameWire
  <2>8. Answered(t, "config") \subseteq {"config"}
        /\ ("config" \in Answered(t, "config") => <<t.dc, t.key>> \in known)
    BY DEF Answered
  <2>9. r \in SUBSET {"pq", "dh", "gen", "config", "check"} /\ Answering(t, r, known)
    BY <1>1, <2>7, <2>8 DEF Answering
  <2>. HIDE DEF r
  <2>10. known' = known /\ made' = made /\ signed' = signed
    BY <2>1 DEF Quiet
  <2>11. Becomes(t, r)
    BY <2>1
  <2>. QED
    BY <1>1, <2>6, <2>9, <2>10, <2>11, Settles
<1>. QED
  BY <1>2, <1>3, <1>4

\* The replies that make the connection useful, and the account's steps.
LEMMA AccountSteps ==
  ASSUME ConnectionAssumption, IInv,
         HandleConfig \/ HandleVector \/ HandleAuthorization \/ Revoke \/ Unauthorized \/ Migrate
  PROVE  IInv'
<1>1. /\ made \in 0 .. MaxKeys /\ known \subseteq DCs \X Keys /\ signed \subseteq Keys
      /\ owed \subseteq {"pq", "dh", "gen", "config", "check"}
  BY DEF IInv, ConnectionTypeOK
<1>. DEFINE v == Verified(app)
<1>2. Good(v, known) /\ SameWire(app, v) /\ SameSession(app, v) /\ v.ini = app.ini
  BY VerifiedFact
<1>. HIDE DEF v
<1>3. CASE HandleConfig
  <2>. DEFINE x == Save(v)
              c == x.client \cup {"initialized"}
              b == app.user /\ x.busy
              p == IF app.user THEN x.page ELSE "login"
              t == [x EXCEPT !.initialized = TRUE, !.attempt = 0, !.client = c,
                             !.busy = b, !.page = p]
              r == (owed \ {"config"}) \cup IF app.user THEN {"check"} ELSE {}
  <2>1. Good(x, known) /\ SameWire(v, x) /\ SameSession(v, x)
    BY <1>2, SaveGood
  <2>. HIDE DEF x
  <2>2. Becomes(t, r) /\ Quiet /\ app.sock = "open" /\ "config" \in owed
    BY <1>3, <2>1 DEF HandleConfig, Reads, x, v, Good, Program
  <2>3. 0 \in 0 .. MaxStep
    BY DEF ConnectionAssumption
  <2>4. /\ c \in SUBSET {"connected", "initialized", "authorized"}
        /\ p \in {"intro", "login", "main"}
    BY <2>1 DEF Good, Program
  <2>5. b \in BOOLEAN
    OBVIOUS
  <2>. HIDE DEF b, p, c
  <2>6. /\ t \in Program /\ SameSession(x, t) /\ t.ini = x.ini
        /\ t.sock = x.sock /\ t.timers = x.timers /\ t.auto = x.auto /\ t.latch = x.latch
        /\ t.initialized /\ t.handshaking = x.handshaking /\ t.client = c
    BY <2>1, <2>3, <2>4, <2>5 DEF Good, Program, SameSession
  <2>. HIDE DEF t
  <2>7. /\ x.sock = "open" /\ ~x.handshaking /\ <<x.dc, x.key>> \in known
    BY <1>2, <2>1, <2>2 DEF IInv, Answering, SameWire, SameSession
  <2>8. Wired(t)
    BY <2>1, <2>6 DEF Good, Wired, HasSession, SameSession
  <2>9. Flagged(t)
    BY <2>1, <2>6, <2>7 DEF Good, Flagged, HasSession, SameSession, c
  <2>10. Usable(t, known)
    BY <2>1, <2>6 DEF Good, Usable, SameSession
  <2>11. Stored(t)
    BY <2>1, <2>6 DEF Good, Stored, EntryOf, SameSession, c
  <2>12. r \in SUBSET {"pq", "dh", "gen", "config", "check"} /\ Answering(t, r, known)
    BY <1>1, <2>6, <2>7 DEF Answering, SameSession
  <2>. HIDE DEF r
  <2>13. known' = known /\ made' = made /\ signed' = signed
    BY <2>2 DEF Quiet
  <2>14. Becomes(t, r)
    BY <2>2
  <2>. QED
    BY <1>1, <2>6, <2>8, <2>9, <2>10, <2>11, <2>12, <2>13, <2>14, Settles DEF Good
<1>4. CASE HandleVector
  <2>. DEFINE w == [v EXCEPT !.user = TRUE]
              x == Save(w)
              c == x.client \cup {"authorized"}
              t == [x EXCEPT !.client = c, !.page = "main", !.busy = FALSE]
              r == owed \ {"check"}
  <2>1. Becomes(t, r) /\ Quiet /\ app.sock = "open" /\ "check" \in owed /\ app.key \in signed
    <3>1. x \in Program => t = [x EXCEPT !.client = @ \cup {"authorized"},
                                         !.page = "main", !.busy = FALSE]
      BY DEF Program
    <3>2. w \in Program
      BY <1>2 DEF Good, Program
    <3>3. x \in Program
      BY <3>2, SaveFact
    <3>. QED
      BY <1>4, <3>1, <3>3 DEF HandleVector, Reads, v
  <2>2. /\ w \in Program /\ SameWire(v, w) /\ w.ini = v.ini
        /\ w.dc = v.dc /\ w.host = v.host /\ w.key = v.key /\ w.user
    BY <1>2 DEF Good, Program, SameWire
  <2>. HIDE DEF w
  <2>3. /\ w.sock = "open" /\ w.initialized /\ w.dc # NoDc /\ w.host
        /\ <<w.dc, w.key>> \in known /\ ~w.handshaking
    BY <1>2, <2>1, <2>2 DEF IInv, Answering, Good, Usable, Flagged, SameWire, SameSession
  <2>4. Usable(w, known)
    BY <1>2, <2>2, <2>3 DEF Good, Usable
  <2>5. /\ x \in Program /\ SameWire(w, x) /\ SameSession(w, x)
        /\ Usable(x, known) /\ Stored(x) /\ x.ini.main = x.dc
        /\ x.ini.at[x.dc] = EntryOf(x)
    <3>1. /\ x \in Program /\ SameWire(w, x) /\ SameSession(w, x)
          /\ Usable(x, known) /\ Stored(x) /\ x.ini.main = w.dc
          /\ x.ini.at = [w.ini.at EXCEPT ![w.dc] = EntryOf(w)]
      BY <2>2, <2>3, <2>4, SaveFact, SaveKeeps
    <3>2. w.dc \in DCs /\ w.ini.at \in [DCs -> Entry]
      BY <2>2, <2>3, ProgramFields
    <3>. HIDE DEF x
    <3>3. EntryOf(x) = EntryOf(w)
      BY <3>1 DEF EntryOf, SameSession
    <3>. QED
      BY <3>1, <3>2, <3>3 DEF SameSession
  <2>. HIDE DEF x
  <2>6. c \in SUBSET {"connected", "initialized", "authorized"}
    BY <2>5 DEF Program
  <2>. HIDE DEF c
  <2>7. /\ t \in Program /\ SameSession(x, t) /\ t.ini = x.ini
        /\ t.sock = x.sock /\ t.timers = x.timers /\ t.auto = x.auto /\ t.latch = x.latch
        /\ t.initialized = x.initialized /\ t.handshaking = x.handshaking /\ t.client = c
    BY <2>5, <2>6 DEF Program, SameSession
  <2>. HIDE DEF t
  <2>8. HasSession(t)
    BY <1>1, <2>2, <2>3, <2>5, <2>7 DEF HasSession, SameSession, Keys, NoKey
  <2>9. Wired(t)
    BY <1>2, <2>2, <2>3, <2>5, <2>7 DEF Good, Wired, SameWire
  <2>10. "connected" \in c /\ "initialized" \in c
    BY <1>2, <2>2, <2>3, <2>5 DEF Good, Flagged, SameWire, c
  <2>11. Flagged(t)
    BY <2>3, <2>5, <2>7, <2>8, <2>10 DEF Flagged, SameWire
  <2>12. Usable(t, known)
    BY <2>5, <2>7 DEF Usable, SameSession
  <2>13. Stored(t)
    BY <2>5, <2>7 DEF Stored, EntryOf, SameSession
  <2>14. r \in SUBSET {"pq", "dh", "gen", "config", "check"} /\ Answering(t, r, known)
    BY <1>1, <2>2, <2>3, <2>5, <2>7 DEF Answering, SameWire, SameSession
  <2>. HIDE DEF r
  <2>15. known' = known /\ made' = made /\ signed' = signed
    BY <2>1 DEF Quiet
  <2>16. Becomes(t, r)
    BY <2>1
  <2>. QED
    BY <1>1, <2>7, <2>9, <2>11, <2>12, <2>13, <2>14, <2>15, <2>16, Settles DEF Good
<1>5. CASE HandleAuthorization
  <2>. DEFINE w == [v EXCEPT !.user = TRUE]
              t == Save(w)
              r == owed \cup {"check"}
  <2>1. /\ Becomes(t, r) /\ app.sock = "open" /\ app.initialized /\ ~app.user
        /\ signed' = signed \cup {app.key} /\ made' = made /\ known' = known
    BY <1>5 DEF HandleAuthorization, v
  <2>2. /\ w \in Program /\ SameWire(v, w) /\ w.ini = v.ini
        /\ w.dc = v.dc /\ w.host = v.host /\ w.key = v.key /\ w.user
    BY <1>2 DEF Good, Program, SameWire
  <2>. HIDE DEF w
  <2>3. /\ w.sock = "open" /\ w.initialized /\ w.dc # NoDc /\ w.host
        /\ <<w.dc, w.key>> \in known /\ ~w.handshaking /\ app.key \in Keys
        /\ w.key \in Keys
    BY <1>1, <1>2, <2>1, <2>2 DEF IInv, Answering, Good, Usable, Flagged, SameWire, SameSession
  <2>4. "authorized" \notin w.client
    BY <1>2, <2>1, <2>2 DEF IInv, Good, Flagged, HasSession, SameWire
  <2>5. Usable(w, known) /\ Stored(w)
    BY <1>2, <2>2, <2>3, <2>4 DEF Good, Usable, Stored
  <2>6. Wired(w)
    BY <1>2, <2>2, <2>3 DEF Good, Wired, SameWire
  <2>7. Flagged(w)
    BY <1>2, <2>2, <2>3, <2>4 DEF Good, Flagged, SameWire
  <2>8. Good(t, known) /\ SameWire(w, t) /\ SameSession(w, t)
    BY <2>2, <2>5, <2>6, <2>7, SaveGood DEF Good
  <2>. HIDE DEF t
  <2>9. signed' \subseteq Keys
    BY <1>1, <2>1, <2>3
  <2>10. r \in SUBSET {"pq", "dh", "gen", "config", "check"} /\ Answering(t, r, known)
    BY <1>1, <2>3, <2>8 DEF Answering, SameWire, SameSession
  <2>. HIDE DEF r
  <2>. QED
    BY <1>1, <2>1, <2>8, <2>9, <2>10, Settles
<1>6. CASE Revoke
  BY <1>6 DEF Revoke, IInv, ConnectionTypeOK
<1>7. CASE Unauthorized
  <2>1. PICK linger \in BOOLEAN : Becomes(ResetSession(v, linger), {})
    BY <1>7 DEF Unauthorized, v
  <2>2. Good(ResetSession(v, linger), known) /\ Gone(ResetSession(v, linger))
    BY <1>2, ResetSessionFact
  <2>3. ResetSession(v, linger).sock # "open"
    BY <2>2 DEF Gone
  <2>. QED
    BY <1>7, <2>1, <2>2, <2>3, SettlesShut DEF Unauthorized, IInv
<1>8. CASE Migrate
  <2>1. PICK d \in DCs \ {app.dc}, found \in BOOLEAN, linger \in BOOLEAN :
          Becomes(MigrateTo(v, d, found, linger), {})
    BY <1>8 DEF Migrate, v
  <2>. DEFINE t == MigrateTo(v, d, found, linger)
  <2>2. ~v.user /\ v.sock = "open"
    BY <1>2, <1>8 DEF Migrate, SameWire, SameSession
  <2>3. Good(t, known) /\ t.sock # "open"
    BY <1>2, <2>2, MigrateFact
  <2>4. Becomes(t, {}) /\ Quiet
    BY <1>8, <2>1 DEF Migrate
  <2>. HIDE DEF t
  <2>. QED
    BY <2>3, <2>4, SettlesShut DEF IInv
<1>. QED
  BY <1>3, <1>4, <1>5, <1>6, <1>7, <1>8

-----------------------------------------------------------------------------
(***************************************************************************)
(* The theorems.                                                           *)
(***************************************************************************)
\* The inductive invariant holds of the connection's every step.
THEOREM ConnectionInvariant ==
  Spec => []IInv
<1>1. Init => IInv
  BY ConnectionAssumption, IInvInit
<1>2. IInv /\ [Next]_vars => IInv'
  <2>1. ASSUME IInv, Next PROVE IInv'
    BY <2>1, ConnectionAssumption, UserSteps, TimerSteps, SocketSteps, ExchangeSteps, AccountSteps DEF Next
  <2>2. ASSUME IInv, UNCHANGED vars PROVE IInv'
    BY <2>2 DEF vars, IInv, ConnectionTypeOK, Answering
  <2>. QED
    BY <2>1, <2>2
<1>. QED
  BY <1>1, <1>2, PTL DEF Spec

\* A client with a session that means to be connected always has a socket or
\* a timer working on it (scheduleReconnect(), onConnectTimer()).
THEOREM NeverStrandedHolds ==
  Spec => []NeverStranded
<1>1. IInv => NeverStranded
  BY DEF IInv, Good, Wired, NeverStranded
<1>. QED
  BY <1>1, ConnectionInvariant, PTL

\* No timer left behind undoes stop(), and none writes into a dead socket.
THEOREM StoppedStaysStoppedHolds ==
  Spec => []StoppedStaysStopped
<1>1. IInv => StoppedStaysStopped
  BY DEF IInv, Good, Wired, StoppedStaysStopped
<1>. QED
  BY <1>1, ConnectionInvariant, PTL

\* The client's flags agree with the transport's and with its session, which
\* keep their types (handleConnected() to handleAuthorized()).
THEOREM ClientAgreesHolds ==
  Spec => []ClientAgrees
<1>1. IInv => ClientAgrees
  BY DEF IInv, Good, Flagged, ClientAgrees
<1>. QED
  BY <1>1, ConnectionInvariant, PTL

\* A session that would be resumed without a key exchange, in memory or in
\* the ini, has a key its data centre knows (handleServerDHParamsOk()).
THEOREM SessionIsUsableHolds ==
  Spec => []SessionIsUsable
<1>1. IInv => SessionIsUsable
  BY DEF IInv, Good, Usable, KnownIn, SessionIsUsable
<1>. QED
  BY <1>1, ConnectionInvariant, PTL

\* A crash of an authorized client finds its session in the ini
\* (saveSession() in handleAuthorization() and handleVector()).
THEOREM SignedInIsStoredHolds ==
  Spec => []SignedInIsStored
<1>1. IInv => SignedInIsStored
  BY DEF IInv, Good, Stored, SignedInIsStored
<1>. QED
  BY <1>1, ConnectionInvariant, PTL

\* The intro page's start() takes back a stop unless a socket of the previous
\* session is still on its way out.
THEOREM StartSetsBackHolds ==
  Spec => StartSetsBack
<1>1. ASSUME IInv, Intro PROVE app'.auto \/ app'.sock \in {"aborting", "closing"}
  <2>1. PICK linger \in BOOLEAN :
          app' = Start([ResetSession(app, linger) EXCEPT !.busy = TRUE])
    BY <1>1 DEF Intro, Becomes
  <2>. DEFINE r == ResetSession(app, linger)
              x == [r EXCEPT !.busy = TRUE]
  <2>2. Good(r, known) /\ Gone(r)
    BY <1>1, ConnectionAssumption, ResetSessionFact DEF IInv
  <2>. HIDE DEF r
  <2>3. x \in Program /\ SameWire(r, x) /\ SameSession(r, x) /\ x.ini = r.ini
    BY <2>2 DEF Good, Program, SameWire, SameSession
  <2>4. Good(x, known)
    BY <2>2, <2>3, GoodSame
  <2>. HIDE DEF x
  <2>5. (x.sock # "idle" => Start(x) = x) /\ (x.sock = "idle" => Start(x).auto)
    BY <2>4, ConnectionAssumption, StartFact DEF Good
  <2>6. app' = Start(x)
    BY <2>1 DEF r, x
  <2>. QED
    BY <2>2, <2>3, <2>5, <2>6 DEF Gone, SameWire
<1>2. IInv /\ [Next]_vars
        => [Intro => app'.auto \/ app'.sock \in {"aborting", "closing"}]_vars
  BY <1>1
<1>. QED
  BY <1>2, ConnectionInvariant, PTL DEF Spec, StartSetsBack

-----------------------------------------------------------------------------
(***************************************************************************)
(* The backoff.  What makes it inductive: a connection that became useful  *)
(* has a counter at zero, so that a second config resets nothing.          *)
(***************************************************************************)
Calm(s) == s.initialized => s.attempt = 0

\* A method that leaves the counter and the flag of the connection alone.
SameTempo(s, t) == t.attempt = s.attempt /\ t.initialized = s.initialized

\* A method that may also have lost the connection.
Slackens(s, t) == SameTempo(s, t) \/ (t.sock = "idle" /\ ~t.initialized)

\* What BackoffCounts says of a step from s to t.
CountsLoss(s, t) ==
  s.sock # "idle" /\ t.sock = "idle" /\ t.auto /\ HasSession(t)
    => t.attempt = Bump(s.attempt)

SetBack(s, t) ==
  t.attempt < s.attempt =>
    (t.initialized /\ ~s.initialized) \/ ~t.auto \/ ~HasSession(t)

Paced(s, t) == CountsLoss(s, t) /\ SetBack(s, t) /\ Calm(t)

\* Neither the session's storage nor a socket that is asked to close counts.
LEMMA StorageTempo ==
  ASSUME NEW s \in Program
  PROVE  SameTempo(s, Save(s)) /\ SameTempo(s, Load(s))
BY DEF SameTempo, Save, Load, Program

\* scheduleReconnect() counts for a session, and sets back without one.
LEMMA ScheduleTempo ==
  ASSUME NEW s \in Program
  PROVE  ScheduleReconnect(s).attempt =
           IF s.auto /\ HasSession(s) THEN Bump(s.attempt) ELSE 0
BY DEF ScheduleReconnect, Program

\* A reported loss counts once.
LEMMA NotifyTempo ==
  ASSUME ConnectionAssumption, NEW s \in Program, ~s.latch
  PROVE  Notify(s).attempt =
           IF s.auto /\ HasSession(s) THEN Bump(s.attempt) ELSE 0
<1>. DEFINE a == [s EXCEPT !.latch = TRUE, !.initialized = FALSE, !.handshaking = FALSE,
                           !.timers = @ \ {"ping", "connect"}]
            b == ScheduleReconnect(a)
<1>1. /\ a \in Program /\ a.auto = s.auto /\ a.attempt = s.attempt
      /\ HasSession(a) <=> HasSession(s)
  BY DEF Program, HasSession
<1>2. Notify(s) = ClientDown(b)
  BY DEF Notify
<1>. HIDE DEF a
<1>3. b \in Program /\ b.attempt = IF a.auto /\ HasSession(a) THEN Bump(a.attempt) ELSE 0
  BY <1>1, ScheduleFact, ScheduleTempo
<1>. HIDE DEF b
<1>4. ClientDown(b).attempt = b.attempt
  BY <1>3 DEF ClientDown, Program
<1>. QED
  BY <1>1, <1>2, <1>3, <1>4

\* Every way to lose a socket counts once (error(), disconnected(), abort()).
LEMMA LostTempo ==
  ASSUME ConnectionAssumption, NEW s \in Program, NEW k,
         ~s.latch, ~s.auto => s.timers = {}, Usable(s, k)
  PROVE  LET t == Refused(s) IN Dropped(s) = t /\ Paced(s, t)
<1>. DEFINE a == [s EXCEPT !.sock = "idle"]
            t == Refused(s)
<1>1. /\ a \in Program /\ ~a.latch /\ a.auto = s.auto /\ a.attempt = s.attempt
      /\ HasSession(a) <=> HasSession(s)
  BY DEF Program, HasSession
<1>2. t = Notify(a)
  BY DEF Refused
<1>. HIDE DEF a, t
<1>3. /\ t.sock = "idle" /\ SameSession(s, t) /\ t.auto = s.auto
      /\ Good(t, k) /\ Dropped(s) = t
  BY LostFact DEF t
<1>4. t.attempt = IF s.auto /\ HasSession(s) THEN Bump(s.attempt) ELSE 0
  BY <1>1, <1>2, NotifyTempo
<1>5. (HasSession(t) <=> HasSession(s)) /\ ~t.initialized
  BY <1>3 DEF HasSession, SameSession, Good, Flagged
<1>6. ~(Bump(s.attempt) < s.attempt)
  BY DEF Program, Bump, ConnectionAssumption
<1>7. Paced(s, t)
  BY <1>3, <1>4, <1>5, <1>6 DEF Paced, CountsLoss, SetBack, Calm
<1>. QED
  BY <1>3, <1>7 DEF t

\* stop() leaves the counter alone unless the socket is gone before it
\* returns.
LEMMA StopTempo ==
  ASSUME ConnectionAssumption, NEW s \in Program, NEW k, NEW linger \in BOOLEAN,
         s.latch => s.sock = "idle", Flagged(s), Usable(s, k)
  PROVE  LET t == Stop(s, linger) IN
         Slackens(s, t) /\ (s.sock = "idle" => SameTempo(s, t))
<1>. DEFINE b == [Save(s) EXCEPT !.timers = {}, !.auto = FALSE]
            t == Stop(s, linger)
<1>1. Save(s) \in Program /\ SameWire(s, Save(s)) /\ SameTempo(s, Save(s))
  BY SaveFact, StorageTempo
<1>2. b \in Program /\ b.sock = s.sock /\ b.latch = s.latch /\ SameTempo(s, b)
  BY <1>1 DEF Program, SameWire, SameTempo
<1>3. t = DisconnectFromHost(b, linger)
  BY DEF Stop
<1>4. Good(t, k)
  BY StopFact
<1>. HIDE DEF b, t
<1>5. CASE b.sock = "idle"
  <2>1. t = b
    BY <1>3, <1>5 DEF DisconnectFromHost
  <2>. QED
    BY <1>2, <2>1 DEF Slackens, t
<1>6. CASE b.sock \in {"connecting", "aborting"}
  <2>1. t = [b EXCEPT !.sock = "aborting"]
    BY <1>3, <1>6 DEF DisconnectFromHost
  <2>2. SameTempo(b, t)
    BY <1>2, <2>1 DEF Program, SameTempo
  <2>3. SameTempo(s, t)
    BY <1>2, <2>2 DEF SameTempo
  <2>. QED
    BY <2>3 DEF Slackens, t
<1>7. CASE b.sock \in {"open", "closing"} /\ linger
  <2>1. t = [b EXCEPT !.sock = "closing"]
    BY <1>3, <1>7 DEF DisconnectFromHost
  <2>2. SameTempo(b, t)
    BY <1>2, <2>1 DEF Program, SameTempo
  <2>3. SameTempo(s, t)
    BY <1>2, <2>2 DEF SameTempo
  <2>. QED
    BY <2>3 DEF Slackens, t
<1>8. CASE b.sock \in {"open", "closing"} /\ ~linger
  <2>. DEFINE a == [b EXCEPT !.sock = "idle"]
  <2>1. t = Notify(a)
    BY <1>3, <1>8 DEF DisconnectFromHost
  <2>2. a \in Program /\ a.sock = "idle" /\ a.latch = b.latch
    BY <1>2 DEF Program
  <2>. HIDE DEF a
  <2>3. ~a.latch
    BY <1>2, <1>8, <2>2
  <2>4. t.sock = "idle"
    BY <2>1, <2>2, <2>3, NotifyFact
  <2>. QED
    BY <1>2, <1>4, <1>8, <2>4 DEF Good, Flagged, Slackens, t
<1>. QED
  BY <1>2, <1>5, <1>6, <1>7, <1>8 DEF Program

\* resetDc(), like stop().
LEMMA ResetDcTempo ==
  ASSUME ConnectionAssumption, NEW s \in Program, NEW k, NEW linger \in BOOLEAN,
         s.latch => s.sock = "idle", Flagged(s), Usable(s, k)
  PROVE  LET t == ResetDc(s, linger) IN
         /\ Slackens(s, t) /\ (s.sock = "idle" => SameTempo(s, t))
         /\ t.ini.main = DefaultDc /\ t.ini.at[DefaultDc] = EntryOf(t)
<1>. DEFINE p == Stop(s, linger)
            q == [p EXCEPT !.dc = DefaultDc]
            a == Load(q)
            b == [a EXCEPT !.dc = DefaultDc, !.host = TRUE]
            t == ResetDc(s, linger)
<1>1. Good(p, k) /\ Slackens(s, p) /\ (s.sock = "idle" => SameTempo(s, p))
  BY StopFact, StopTempo
<1>2. t = Save(b)
  BY DEF ResetDc
<1>. HIDE DEF p, t
<1>3. /\ q \in Program /\ SameWire(p, q) /\ SameTempo(p, q) /\ q.ini = p.ini
  BY <1>1 DEF Good, Program, SameWire, SameTempo, ConnectionAssumption
<1>. HIDE DEF q
<1>4. a \in Program /\ SameWire(q, a) /\ SameTempo(q, a)
  BY <1>1, <1>3, LoadFact, StorageTempo DEF Good, Usable
<1>. HIDE DEF a
<1>5. b \in Program /\ SameWire(a, b) /\ SameTempo(a, b) /\ b.dc = DefaultDc
  BY <1>4 DEF Program, SameWire, SameTempo, ConnectionAssumption
<1>. HIDE DEF b
<1>6. /\ t \in Program /\ SameWire(b, t) /\ SameTempo(b, t) /\ SameSession(b, t)
      /\ b.dc # NoDc => /\ t.ini.main = b.dc
                        /\ t.ini.at = [b.ini.at EXCEPT ![b.dc] = EntryOf(b)]
  BY <1>2, <1>5, SaveFact, StorageTempo
<1>7. DefaultDc # NoDc /\ DefaultDc \in DCs
  BY DEF ConnectionAssumption
<1>8. b.ini.at \in [DCs -> Entry]
  BY <1>5, ProgramFields
<1>9. t.ini.main = DefaultDc /\ t.ini.at[DefaultDc] = EntryOf(b)
  BY <1>5, <1>6, <1>7, <1>8
<1>10. EntryOf(b) = EntryOf(t)
  BY <1>6 DEF EntryOf, SameSession
<1>11. SameTempo(p, t) /\ t.sock = p.sock
  BY <1>3, <1>4, <1>5, <1>6 DEF SameWire, SameTempo
<1>. QED
  BY <1>1, <1>9, <1>10, <1>11 DEF Slackens, SameTempo, t

\* start() leaves the counter alone, and resumes no user the ini has not.
LEMMA StartTempo ==
  ASSUME ConnectionAssumption, NEW s \in Program, NEW k,
         Flagged(s), Usable(s, k), s.sock # "idle" => Wired(s) /\ Stored(s)
  PROVE  LET t == Start(s) IN
         /\ SameTempo(s, t)
         /\ s.sock = "idle" /\ (s.ini.main = NoDc \/ ~s.ini.at[s.ini.main].user) => ~t.user
<1>1. CASE s.sock # "idle"
  BY <1>1 DEF Start, SameTempo
<1>2. CASE s.sock = "idle"
  <2>. DEFINE a == Load(s)
              b == IF ~a.host \/ a.dc = NoDc THEN Save(ResetDc(a, FALSE)) ELSE a
              m == b.timers \cup {"connect", "ping"}
              t == Start(s)
  <2>1. t = [b EXCEPT !.latch = FALSE, !.auto = TRUE, !.sock = "connecting", !.timers = m]
    BY <1>2 DEF Start
  <2>. HIDE DEF t
  <2>2. /\ a \in Program /\ SameWire(s, a) /\ SameTempo(s, a)
        /\ a.ini = s.ini /\ a.dc = s.ini.main
        /\ a.user => a.host /\ <<a.dc, a.key>> \in k
        /\ a.dc # NoDc => EntryOf(a) = s.ini.at[s.ini.main]
        /\ a.dc = NoDc => ~a.user
    BY LoadFact, StorageTempo DEF Usable
  <2>. HIDE DEF a
  <2>3. (s.ini.main = NoDc \/ ~s.ini.at[s.ini.main].user) => ~a.user
    BY <2>2 DEF EntryOf
  <2>4. a.sock = "idle" /\ Flagged(a) /\ Usable(a, k)
    BY <1>2, <2>2 DEF Flagged, Usable, SameWire
  <2>5. b \in Program /\ SameTempo(a, b) /\ (~a.user => ~b.user)
    <3>1. CASE ~a.host \/ a.dc = NoDc
      <4>. DEFINE r == ResetDc(a, FALSE)
      <4>1. ~a.user /\ (a.dc = NoDc => a.ini.main = NoDc)
        BY <2>2, <3>1
      <4>2. Good(r, k) /\ ~r.user
        BY <2>2, <2>4, <4>1, ResetDcFact
      <4>3. SameTempo(a, r)
        BY <2>2, <2>4, ResetDcTempo
      <4>. HIDE DEF r
      <4>4. Save(r) \in Program /\ SameSession(r, Save(r)) /\ SameTempo(r, Save(r))
        BY <4>2, SaveFact, StorageTempo DEF Good
      <4>5. b = Save(r)
        BY <3>1 DEF r
      <4>. QED
        BY <4>2, <4>3, <4>4, <4>5 DEF SameTempo, SameSession
    <3>2. CASE ~(~a.host \/ a.dc = NoDc)
      BY <2>2, <3>2 DEF SameTempo
    <3>. QED
      BY <3>1, <3>2
  <2>. HIDE DEF b, m
  <2>6. SameTempo(b, t) /\ t.user = b.user
    BY <2>1, <2>5 DEF Program, SameTempo
  <2>. QED
    BY <2>2, <2>3, <2>5, <2>6 DEF SameTempo, t
<1>. QED
  BY <1>1, <1>2

\* resetSession() ends useful connections, and leaves no user to resume.
LEMMA ResetSessionTempo ==
  ASSUME ConnectionAssumption, NEW s, NEW k, NEW linger \in BOOLEAN, Good(s, k)
  PROVE  LET t == ResetSession(s, linger) IN
         /\ ~t.initialized
         /\ \/ t.attempt = s.attempt
            \/ t.ini.main # NoDc /\ ~t.ini.at[t.ini.main].user
<1>. DEFINE p == Stop(s, linger)
            x == [p EXCEPT !.key = NoKey, !.user = FALSE]
            e == [x EXCEPT !.ini = EmptyIni]
            y == SaveReset(x)
            z == [y EXCEPT !.initialized = FALSE]
            t == ResetSession(s, linger)
<1>1. /\ Good(p, k) /\ SameSession(s, p) /\ (s.sock = "idle" => SameTempo(s, p))
  BY StopFact, StopTempo DEF Good, Wired
<1>2. t = ClientDown(z)
  BY DEF ResetSession
<1>. HIDE DEF p, t
<1>3. /\ x \in Program /\ ~x.user /\ x.dc = p.dc /\ x.attempt = p.attempt
  BY <1>1 DEF Good, Program
<1>. HIDE DEF x
<1>4. EmptyIni \in [main : DCs \cup {NoDc}, at : [DCs -> Entry]]
  BY DEF EmptyIni, NoEntry, Entry
<1>5. e \in Program /\ e.dc = x.dc /\ e.user = x.user /\ e.ini = EmptyIni
  BY <1>3, <1>4 DEF Program
<1>. HIDE DEF e
<1>6. y \in Program /\ (x.dc = NoDc => y = x)
      /\ (x.dc # NoDc => y.ini.main # NoDc /\ ~y.ini.at[y.ini.main].user)
  <2>1. CASE x.dc = NoDc
    BY <1>3, <2>1 DEF SaveReset
  <2>2. CASE x.dc # NoDc
    <3>1. y = Save(e)
      BY <2>2 DEF SaveReset, e
    <3>2. /\ Save(e) \in Program /\ Save(e).ini.main = e.dc
          /\ Save(e).ini.at = [e.ini.at EXCEPT ![e.dc] = EntryOf(e)]
      BY <1>5, <2>2, SaveFact
    <3>3. e.dc \in DCs /\ e.ini.at \in [DCs -> Entry]
      BY <1>5, <2>2, ProgramFields
    <3>4. Save(e).ini.at[e.dc].user = e.user
      BY <3>2, <3>3 DEF EntryOf
    <3>. QED
      BY <1>3, <1>5, <2>2, <3>1, <3>2, <3>4
  <2>. QED
    BY <2>1, <2>2
<1>. HIDE DEF y
<1>7. z \in Program /\ z.attempt = y.attempt /\ ~z.initialized /\ z.ini = y.ini
  BY <1>6 DEF Program
<1>. HIDE DEF z
<1>8. t.attempt = z.attempt /\ ~t.initialized /\ t.ini = z.ini
  BY <1>2, <1>7 DEF ClientDown, Program
<1>9. x.dc = NoDc => p.attempt = s.attempt
  BY <1>1, <1>3 DEF Good, Usable, SameTempo, SameSession
<1>. QED
  BY <1>3, <1>6, <1>7, <1>8, <1>9 DEF t

\* migrateTo() leaves no idle socket and resumes no user.
LEMMA MigrateTempo ==
  ASSUME ConnectionAssumption, NEW s, NEW k, NEW linger \in BOOLEAN,
         NEW found \in BOOLEAN, NEW d \in DCs, Good(s, k), ~s.user, s.sock = "open"
  PROVE  LET t == MigrateTo(s, d, found, linger) IN
         /\ t.sock # "idle" /\ (~t.auto \/ ~t.user)
         /\ SameTempo(s, t) \/ ~t.initialized
<1>. DEFINE a == Stop(s, linger)
            x == [a EXCEPT !.dc = d, !.host = TRUE]
            y == IF found THEN Save(x) ELSE ResetDc(a, linger)
            t == MigrateTo(s, d, found, linger)
<1>1. /\ Good(a, k) /\ Gone(a) /\ SameSession(s, a) /\ Slackens(s, a)
  BY StopFact, StopTempo DEF Good, Wired
<1>2. t = Start(y)
  BY DEF MigrateTo
<1>. HIDE DEF a, t
<1>3. ~a.user /\ a.dc # NoDc
  BY <1>1 DEF Good, Usable, SameSession
<1>4. /\ y \in Program /\ Flagged(y) /\ Usable(y, k) /\ Wired(y) /\ Stored(y) /\ ~y.auto
      /\ Slackens(a, y) /\ (a.sock = "idle" => y.sock = "idle" /\ SameTempo(a, y))
      /\ ~y.ini.at[y.ini.main].user
  <2>1. CASE found
    <3>1. /\ x \in Program /\ SameWire(a, x) /\ SameTempo(a, x) /\ x.ini = a.ini
          /\ x.dc = d /\ x.host /\ ~x.user
      BY <1>1, <1>3 DEF Good, Program, SameWire, SameTempo
    <3>. HIDE DEF x
    <3>2. d # NoDc
      BY DEF ConnectionAssumption
    <3>3. Usable(x, k)
      BY <1>1, <3>1, <3>2 DEF Good, Usable, SameWire
    <3>4. /\ Save(x) \in Program /\ SameWire(x, Save(x)) /\ SameTempo(x, Save(x))
          /\ Usable(Save(x), k) /\ Stored(Save(x))
          /\ Save(x).ini.main = x.dc
          /\ Save(x).ini.at = [x.ini.at EXCEPT ![x.dc] = EntryOf(x)]
      BY <3>1, <3>2, <3>3, SaveFact, SaveKeeps, StorageTempo
    <3>5. x.dc \in DCs /\ x.ini.at \in [DCs -> Entry]
      BY <3>1, ProgramFields
    <3>6. ~Save(x).ini.at[Save(x).ini.main].user
      BY <3>1, <3>4, <3>5 DEF EntryOf
    <3>7. SameWire(a, Save(x)) /\ SameTempo(a, Save(x))
      BY <3>1, <3>4 DEF SameWire, SameTempo
    <3>8. "authorized" \notin a.client
      BY <1>1, <1>3 DEF Good, Flagged, HasSession
    <3>9. Wired(Save(x)) /\ Flagged(Save(x)) /\ ~Save(x).auto
      BY <1>1, <3>7, <3>8 DEF Good, Gone, Wired, Flagged, SameWire
    <3>10. y = Save(x)
      BY <2>1
    <3>. QED
      BY <3>4, <3>6, <3>7, <3>9, <3>10 DEF Slackens, SameWire
  <2>2. CASE ~found
    <3>. DEFINE r == ResetDc(a, linger)
    <3>1. /\ Good(r, k) /\ Gone(r) /\ ~r.user
          /\ a.sock = "idle" => r.sock = "idle"
      BY <1>1, <1>3, ResetDcFact DEF Good, Wired
    <3>2. /\ Slackens(a, r) /\ (a.sock = "idle" => SameTempo(a, r))
          /\ r.ini.main = DefaultDc /\ r.ini.at[DefaultDc] = EntryOf(r)
      BY <1>1, ResetDcTempo DEF Good, Wired
    <3>. HIDE DEF r
    <3>3. y = r
      BY <2>2 DEF r
    <3>. QED
      BY <3>1, <3>2, <3>3 DEF Good, Gone, EntryOf
  <2>. QED
    BY <2>1, <2>2
<1>. HIDE DEF y
<1>5. /\ Good(t, k) /\ SameTempo(y, t)
      /\ y.sock # "idle" => t = y
      /\ y.sock = "idle" => t.sock = "connecting" /\ ~t.user
  BY <1>2, <1>4, StartFact, StartTempo
<1>6. t.sock # "idle" /\ (~t.auto \/ ~t.user)
  BY <1>4, <1>5
<1>7. SameTempo(s, t) \/ ~t.initialized
  BY <1>1, <1>4, <1>5 DEF Slackens, SameTempo
<1>. QED
  BY <1>6, <1>7 DEF t

\* A process has counted nothing when it starts, and waits for no timer.
LEMMA RestartedTempo ==
  ASSUME ConnectionAssumption, NEW k,
         NEW ini \in [main : DCs \cup {NoDc}, at : [DCs -> Entry]], KnownIn(ini, k)
  PROVE  LET t == Restarted(ini) IN
         t.attempt = 0 /\ (t.sock = "idle" => ~HasSession(t))
<1>. DEFINE r == [sock |-> "idle", timers |-> {}, attempt |-> 0, auto |-> FALSE,
                  latch |-> FALSE, initialized |-> FALSE, handshaking |-> FALSE,
                  bad |-> 0, dc |-> NoDc, host |-> FALSE, key |-> NoKey, user |-> FALSE,
                  client |-> {}, page |-> "intro", busy |-> FALSE, ini |-> ini]
            s == Launched(ini)
            b == [s EXCEPT !.busy = TRUE]
            t == Restarted(ini)
<1>1. 0 \in 0 .. MaxStep /\ 0 \in 0 .. MaxBad - 1
  BY DEF ConnectionAssumption
<1>2. r \in Program
  BY <1>1 DEF Program
<1>3. s = Load(r)
  BY DEF Launched
<1>4. t = IF HasSession(s) THEN Start(b) ELSE s
  BY DEF Restarted
<1>5. /\ r.sock = "idle" /\ r.attempt = 0 /\ ~r.initialized
      /\ ~r.handshaking /\ r.client = {} /\ r.ini = ini
  OBVIOUS
<1>. HIDE DEF r, s, t
<1>6. /\ s \in Program /\ SameWire(r, s) /\ s.ini = r.ini /\ s.attempt = 0
      /\ s.user => s.host /\ <<s.dc, s.key>> \in k
  BY <1>2, <1>3, <1>5, LoadFact, StorageTempo DEF SameTempo
<1>7. s.sock = "idle" /\ Flagged(s) /\ Usable(s, k)
  BY <1>5, <1>6 DEF Flagged, Usable, SameWire
<1>8. /\ b \in Program /\ b.sock = "idle" /\ b.attempt = 0 /\ Flagged(b) /\ Usable(b, k)
  BY <1>6, <1>7 DEF Program, Flagged, Usable, HasSession
<1>. HIDE DEF b
<1>9. Start(b).sock = "connecting" /\ Start(b).attempt = 0
  BY <1>8, StartFact, StartTempo DEF SameTempo
<1>. QED
  BY <1>4, <1>6, <1>9 DEF t

-----------------------------------------------------------------------------
\* A step that leaves counter, flag and socket alone, or opens the socket.
LEMMA KeepsPace ==
  ASSUME ConnectionAssumption, NEW s \in Program, NEW t, SameTempo(s, t), Calm(s),
         t.sock = "idle" => s.sock = "idle"
  PROVE  Paced(s, t)
<1>1. ~(s.attempt < s.attempt)
  BY DEF Program, ConnectionAssumption
<1>2. ~(t.attempt < s.attempt)
  BY <1>1 DEF SameTempo
<1>. QED
  BY <1>2 DEF Paced, CountsLoss, SetBack, Calm, SameTempo

\* A step that stops, or that leaves no user, owes no count.
LEMMA StopsPace ==
  ASSUME NEW s, NEW t, Calm(s), SameTempo(s, t) \/ ~t.initialized,
         ~t.auto \/ (~t.user /\ t.sock # "idle")
  PROVE  Paced(s, t)
BY DEF Paced, CountsLoss, SetBack, Calm, SameTempo, HasSession

\* The user's steps.  Only retryNow() and a new process set back freely.
LEMMA UserPace ==
  ASSUME ConnectionAssumption, IInv, Calm(app),
         Intro \/ Back \/ LogOut \/ NetworkOnline \/ Restart
  PROVE  /\ CountsLoss(app, app') /\ Calm(app')
         /\ SetBack(app, app') \/ NetworkOnline \/ Restart
<1>1. app \in Program /\ Good(app, known)
  BY DEF IInv, Good
<1>2. CASE Intro
  <2>1. PICK linger \in BOOLEAN :
          app' = Start([ResetSession(app, linger) EXCEPT !.busy = TRUE])
    BY <1>2 DEF Intro, Becomes
  <2>. DEFINE r == ResetSession(app, linger)
              x == [r EXCEPT !.busy = TRUE]
              t == Start(x)
  <2>2. Good(r, known) /\ Gone(r)
    BY <1>1, ResetSessionFact
  <2>3. /\ ~r.initialized
        /\ r.attempt = app.attempt \/ (r.ini.main # NoDc /\ ~r.ini.at[r.ini.main].user)
    BY <1>1, ResetSessionTempo
  <2>. HIDE DEF r
  <2>4. /\ x \in Program /\ SameWire(r, x) /\ SameSession(r, x) /\ x.ini = r.ini
        /\ SameTempo(r, x)
    BY <2>2 DEF Good, Program, SameWire, SameSession, SameTempo
  <2>5. Good(x, known)
    BY <2>2, <2>4, GoodSame
  <2>. HIDE DEF x
  <2>6. /\ x.sock # "idle" => t = x
        /\ x.sock = "idle" => t.sock = "connecting"
        /\ SameTempo(x, t)
        /\ x.sock = "idle" /\ (x.ini.main = NoDc \/ ~x.ini.at[x.ini.main].user) => ~t.user
    BY <2>5, StartFact, StartTempo DEF Good
  <2>. HIDE DEF t
  <2>7. ~t.initialized /\ t.attempt = r.attempt
    BY <2>3, <2>4, <2>6 DEF SameTempo
  <2>8. CASE x.sock # "idle"
    <3>1. ~t.auto
      BY <2>2, <2>4, <2>6, <2>8 DEF Gone, SameWire
    <3>. QED
      BY <2>1, <2>7, <3>1, StopsPace DEF Paced, t, x, r
  <2>9. CASE x.sock = "idle" /\ r.attempt = app.attempt
    <3>1. ~(app.attempt < app.attempt)
      BY <1>1 DEF Program, ConnectionAssumption
    <3>2. CountsLoss(app, t) /\ Calm(t) /\ SetBack(app, t)
      BY <2>6, <2>7, <2>9, <3>1 DEF CountsLoss, Calm, SetBack
    <3>. QED
      BY <2>1, <3>2 DEF t, x, r
  <2>10. CASE x.sock = "idle" /\ r.ini.main # NoDc /\ ~r.ini.at[r.ini.main].user
    <3>1. ~t.user /\ t.sock # "idle"
      BY <2>4, <2>6, <2>10
    <3>. QED
      BY <2>1, <2>7, <3>1, StopsPace DEF Paced, t, x, r
  <2>. QED
    BY <2>3, <2>8, <2>9, <2>10
<1>3. CASE Back
  <2>. DEFINE t == [app EXCEPT !.page = "intro", !.busy = FALSE]
  <2>1. app' = t
    BY <1>3 DEF Back, Becomes
  <2>2. SameTempo(app, t) /\ t.sock = app.sock
    BY <1>1 DEF SameTempo, Program
  <2>. HIDE DEF t
  <2>3. Paced(app, t)
    BY <1>1, <2>2, KeepsPace
  <2>. QED
    BY <2>1, <2>3 DEF Paced
<1>4. CASE LogOut
  <2>1. PICK linger \in BOOLEAN : app' = ResetSession(app, linger)
    BY <1>4 DEF LogOut, Becomes
  <2>. DEFINE t == ResetSession(app, linger)
  <2>2. Gone(t) /\ ~t.initialized
    BY <1>1, ResetSessionFact, ResetSessionTempo
  <2>. HIDE DEF t
  <2>3. Paced(app, t)
    BY <2>2, StopsPace DEF Gone
  <2>. QED
    BY <2>1, <2>3 DEF Paced, t
<1>5. CASE NetworkOnline
  <2>. DEFINE m == app.timers \ {"retry"}
              x == [app EXCEPT !.timers = m, !.attempt = 0]
              t == Start(x)
  <2>1. app' = t
    BY <1>1, <1>5 DEF NetworkOnline, Becomes, Program
  <2>2. /\ x \in Program /\ x.attempt = 0 /\ SameSession(app, x) /\ x.ini = app.ini
        /\ x.sock = app.sock /\ x.client = app.client /\ x.timers = m
        /\ x.initialized = app.initialized /\ x.handshaking = app.handshaking
        /\ x.auto = app.auto /\ x.latch = app.latch
    <3>1. 0 \in 0 .. MaxStep /\ m \in SUBSET {"ping", "retry", "connect"}
      BY <1>1 DEF Program, ConnectionAssumption
    <3>. HIDE DEF m
    <3>. QED
      BY <1>1, <3>1 DEF Program, SameSession
  <2>. HIDE DEF x
  <2>3. /\ Flagged(x) /\ Usable(x, known) /\ Stored(x) /\ (x.sock # "idle" => Wired(x))
    <3>1. Flagged(x)
      BY <1>1, <2>2 DEF Good, Flagged, HasSession, SameSession
    <3>2. Usable(x, known)
      BY <1>1, <2>2 DEF Good, Usable, SameSession
    <3>3. Stored(x)
      BY <1>1, <2>2 DEF Good, Stored, EntryOf, SameSession
    <3>4. x.sock # "idle" => Wired(x)
      BY <1>1, <2>2 DEF Good, Wired, HasSession, SameSession
    <3>. QED
      BY <3>1, <3>2, <3>3, <3>4
  <2>4. /\ x.sock # "idle" => t = x
        /\ x.sock = "idle" => t.sock = "connecting"
        /\ SameTempo(x, t)
    BY <2>2, <2>3, StartFact, StartTempo
  <2>. HIDE DEF t
  <2>5. CountsLoss(app, t) /\ Calm(t)
    BY <2>2, <2>4 DEF CountsLoss, Calm, SameTempo
  <2>. QED
    BY <1>5, <2>1, <2>5
<1>6. CASE Restart
  <2>. DEFINE q == Stop(app, FALSE)
  <2>1. app' = Restarted(app.ini) \/ app' = Restarted(q.ini)
    BY <1>6 DEF Restart, Becomes
  <2>2. Good(q, known)
    BY <1>1, StopFact DEF Good, Wired
  <2>. HIDE DEF q
  <2>3. ASSUME NEW i, i = app.ini \/ i = q.ini
        PROVE  LET t == Restarted(i) IN CountsLoss(app, t) /\ Calm(t)
    <3>1. /\ i \in [main : DCs \cup {NoDc}, at : [DCs -> Entry]] /\ KnownIn(i, known)
      BY <1>1, <2>2, <2>3, ProgramFields DEF Good, Usable
    <3>. DEFINE t == Restarted(i)
    <3>2. t.attempt = 0 /\ (t.sock = "idle" => ~HasSession(t))
      BY <3>1, RestartedTempo
    <3>. HIDE DEF t
    <3>3. CountsLoss(app, t) /\ Calm(t)
      BY <3>2 DEF CountsLoss, Calm
    <3>. QED
      BY <3>3 DEF t
  <2>4. CountsLoss(app, app') /\ Calm(app')
    BY <2>1, <2>3
  <2>. QED
    BY <1>6, <2>4
<1>. QED
  BY <1>2, <1>3, <1>4, <1>5, <1>6

\* The timers' steps.
LEMMA TimerPace ==
  ASSUME ConnectionAssumption, IInv, Calm(app), RetryTimer \/ ConnectTimer \/ PingTimer
  PROVE  Paced(app, app')
<1>1. app \in Program /\ Good(app, known)
  BY DEF IInv, Good
<1>2. CASE RetryTimer
  <2>. DEFINE m == app.timers \ {"retry"}
              x == [app EXCEPT !.timers = m]
              t == Start(x)
  <2>1. app' = t
    BY <1>1, <1>2 DEF RetryTimer, Becomes, Program
  <2>2. /\ x \in Program /\ SameTempo(app, x) /\ SameSession(app, x) /\ x.ini = app.ini
        /\ x.sock = app.sock /\ x.client = app.client /\ x.timers = m
        /\ x.initialized = app.initialized /\ x.handshaking = app.handshaking
        /\ x.auto = app.auto /\ x.latch = app.latch
    BY <1>1 DEF Program, SameTempo, SameSession
  <2>. HIDE DEF x
  <2>3. Flagged(x) /\ Stored(x)
    BY <1>1, <2>2 DEF Good, Flagged, Stored, EntryOf, HasSession, SameSession
  <2>4. Usable(x, known)
    BY <1>1, <2>2 DEF Good, Usable, SameSession
  <2>5. x.sock # "idle" => Wired(x)
    BY <1>1, <2>2 DEF Good, Wired, HasSession, SameSession
  <2>6. /\ x.sock # "idle" => t = x
        /\ SameTempo(x, t)
    BY <2>2, <2>3, <2>4, <2>5, StartFact, StartTempo
  <2>7. t.sock = "idle" => x.sock = "idle"
    BY <2>6
  <2>. HIDE DEF t
  <2>8. Paced(app, t)
    BY <1>1, <2>2, <2>6, <2>7, KeepsPace DEF SameTempo
  <2>. QED
    BY <2>1, <2>8
<1>3. CASE ConnectTimer
  <2>. DEFINE m == app.timers \ {"connect"}
              x == [app EXCEPT !.timers = m]
              t == Refused(x)
  <2>1. app' = t /\ "connect" \in app.timers
    BY <1>1, <1>3 DEF ConnectTimer, Becomes, Program
  <2>2. /\ x \in Program /\ SameTempo(app, x) /\ SameSession(app, x) /\ x.ini = app.ini
        /\ x.sock = app.sock /\ x.timers = m /\ x.handshaking = app.handshaking
        /\ x.auto = app.auto /\ x.latch = app.latch
    BY <1>1 DEF Program, SameTempo, SameSession
  <2>. HIDE DEF x
  <2>3. ~x.latch /\ (~x.auto => x.timers = {})
    BY <1>1, <2>1, <2>2 DEF Good, Wired
  <2>4. Usable(x, known)
    BY <1>1, <2>2 DEF Good, Usable, SameSession
  <2>5. Paced(x, t)
    BY <2>2, <2>3, <2>4, LostTempo
  <2>. HIDE DEF t
  <2>6. Paced(app, t)
    BY <2>2, <2>5 DEF Paced, CountsLoss, SetBack, SameTempo
  <2>. QED
    BY <2>1, <2>6
<1>4. CASE PingTimer
  <2>1. app' = Save(app)
    BY <1>4 DEF PingTimer, Becomes
  <2>2. SameTempo(app, Save(app)) /\ Save(app).sock = app.sock
    BY <1>1, StorageTempo, SaveFact DEF SameWire
  <2>. QED
    BY <1>1, <2>1, <2>2, KeepsPace
<1>. QED
  BY <1>2, <1>3, <1>4

\* The socket's steps.
LEMMA SocketPace ==
  ASSUME ConnectionAssumption, IInv, Calm(app),
         SocketConnected \/ ConnectFails \/ Drop \/ BadPacket
  PROVE  Paced(app, app')
<1>1. app \in Program /\ Good(app, known)
  BY DEF IInv, Good
<1>. DEFINE c == Connected(app)
<1>2. app.sock \in {"connecting", "aborting"} => c.attempt = app.attempt
  BY <1>1 DEF Connected, Program
<1>3. CASE SocketConnected /\ app.sock = "connecting"
  <2>1. app' = c
    BY <1>3 DEF SocketConnected, Becomes
  <2>2. /\ c.sock = "open" /\ ~c.initialized
    BY <1>3, ConnectedFact
  <2>3. ~app.initialized
    BY <1>1, <1>3 DEF Good, Flagged
  <2>4. SameTempo(app, c)
    BY <1>1, <1>2, <1>3 DEF SameTempo, Connected, Program
  <2>. HIDE DEF c
  <2>5. Paced(app, c)
    BY <1>1, <2>2, <2>4, KeepsPace
  <2>. QED
    BY <2>1, <2>5
<1>4. CASE SocketConnected /\ app.sock = "aborting"
  <2>1. PICK linger \in BOOLEAN : app' = DisconnectFromHost(c, linger)
    BY <1>4 DEF SocketConnected, Becomes
  <2>2. /\ c \in Program /\ c.sock = "open" /\ c.auto = app.auto /\ ~c.latch
        /\ c.timers = app.timers \ {"connect"} /\ ~c.initialized /\ Usable(c, known)
    BY <1>4, ConnectedFact
  <2>. HIDE DEF c
  <2>. DEFINE t == DisconnectFromHost(c, linger)
  <2>3. ~c.auto /\ c.timers = {}
    BY <1>1, <1>4, <2>2 DEF Good, Wired
  <2>4. ~t.auto /\ ~t.initialized
    <3>1. CASE linger
      <4>1. t = [c EXCEPT !.sock = "closing"]
        BY <2>2, <3>1 DEF DisconnectFromHost
      <4>. HIDE DEF t
      <4>. QED
        BY <2>2, <2>3, <4>1 DEF Program
    <3>2. CASE ~linger
      <4>1. t = Refused(c)
        BY <2>2, <3>2 DEF DisconnectFromHost, Refused
      <4>. HIDE DEF t
      <4>2. Good(t, known) /\ t.sock = "idle" /\ t.auto = c.auto
        BY <2>2, <2>3, <4>1, LostFact
      <4>. QED
        BY <2>3, <4>2 DEF Good, Flagged
    <3>. QED
      BY <3>1, <3>2
  <2>. HIDE DEF t
  <2>5. Paced(app, t)
    BY <2>4, StopsPace
  <2>. QED
    BY <2>1, <2>5 DEF t
<1>5. CASE ConnectFails \/ Drop
  <2>1. ~app.latch /\ (~app.auto => app.timers = {}) /\ Usable(app, known)
    BY <1>5 DEF IInv, Good, Wired, ConnectFails, Drop
  <2>2. Paced(app, Refused(app)) /\ Dropped(app) = Refused(app)
    BY <1>1, <2>1, LostTempo
  <2>. QED
    BY <1>5, <2>2 DEF ConnectFails, Drop, Becomes
<1>6. CASE BadPacket /\ app.bad + 1 < MaxBad
  <2>. DEFINE t == [app EXCEPT !.bad = @ + 1]
  <2>1. app' = t
    BY <1>6 DEF BadPacket, Becomes, IInv, Good, Program, ConnectionAssumption
  <2>2. SameTempo(app, t) /\ t.sock = app.sock
    BY <1>1 DEF SameTempo, Program
  <2>. HIDE DEF t
  <2>3. Paced(app, t)
    BY <1>1, <2>2, KeepsPace
  <2>. QED
    BY <2>1, <2>3
<1>7. CASE BadPacket /\ app.bad + 1 >= MaxBad
  <2>. DEFINE x == [app EXCEPT !.bad = 0]
              t == Refused(x)
  <2>1. 0 \in 0 .. MaxBad - 1
    BY DEF ConnectionAssumption
  <2>2. /\ x \in Program /\ SameWire(app, x) /\ SameSession(app, x) /\ x.ini = app.ini
        /\ SameTempo(app, x)
    BY <1>1, <2>1 DEF Program, SameWire, SameSession, SameTempo
  <2>3. app' = Dropped(x) /\ app.sock = "open"
    BY <1>7 DEF BadPacket, Becomes, IInv, Good, Program, ConnectionAssumption
  <2>. HIDE DEF x
  <2>4. Good(x, known)
    BY <1>1, <2>2, GoodSame
  <2>5. ~x.latch /\ (~x.auto => x.timers = {}) /\ Usable(x, known)
    BY <2>2, <2>3, <2>4 DEF Good, Wired, SameWire
  <2>6. Paced(x, t) /\ app' = t
    BY <2>2, <2>3, <2>5, LostTempo
  <2>. HIDE DEF t
  <2>7. Paced(app, t)
    BY <2>2, <2>6 DEF Paced, CountsLoss, SetBack, SameTempo, SameWire
  <2>. QED
    BY <2>6, <2>7
<1>. QED
  BY <1>3, <1>4, <1>5, <1>6, <1>7 DEF SocketConnected, BadPacket

\* The key exchange's steps.
LEMMA ExchangePace ==
  ASSUME ConnectionAssumption, IInv, Calm(app),
         HandleResPQ \/ HandleServerDHParamsOk \/ HandleDhGenOk
  PROVE  Paced(app, app')
<1>1. app \in Program
  BY DEF IInv, Good
<1>2. SameTempo(app, app') /\ app'.sock = app.sock
  <2>1. CASE HandleResPQ
    BY <2>1 DEF HandleResPQ, Becomes, SameTempo
  <2>2. CASE HandleServerDHParamsOk
    BY <1>1, <2>2 DEF HandleServerDHParamsOk, Becomes, SameTempo, Program
  <2>3. CASE HandleDhGenOk
    <3>. DEFINE x == [app EXCEPT !.handshaking = FALSE]
    <3>1. app' = Save(x)
      BY <2>3 DEF HandleDhGenOk, Becomes
    <3>2. x \in Program /\ SameTempo(app, x) /\ x.sock = app.sock
      BY <1>1 DEF Program, SameTempo
    <3>. HIDE DEF x
    <3>3. SameTempo(x, Save(x)) /\ Save(x).sock = x.sock
      BY <3>2, StorageTempo, SaveFact DEF SameWire
    <3>. QED
      BY <3>1, <3>2, <3>3 DEF SameTempo
  <2>. QED
    BY <2>1, <2>2, <2>3
<1>. QED
  BY <1>1, <1>2, KeepsPace

\* The steps of the account.  The reply to initConnection() sets back a
\* connection that was not useful before; a second one finds nothing to reset.
LEMMA AccountPace ==
  ASSUME ConnectionAssumption, IInv, Calm(app),
         HandleConfig \/ HandleVector \/ HandleAuthorization \/ Unauthorized \/ Migrate
  PROVE  Paced(app, app')
<1>1. app \in Program
  BY DEF IInv, Good
<1>. DEFINE v == Verified(app)
<1>2. Good(v, known) /\ SameWire(app, v) /\ SameSession(app, v)
  BY VerifiedFact
<1>3. SameTempo(app, v) /\ v.sock = app.sock
  BY <1>1 DEF Verified, Program, SameTempo
<1>4. CASE HandleConfig
  <2>. DEFINE x == Save(v)
              c == x.client \cup {"initialized"}
              b == app.user /\ x.busy
              p == IF app.user THEN x.page ELSE "login"
              t == [x EXCEPT !.initialized = TRUE, !.attempt = 0, !.client = c,
                             !.busy = b, !.page = p]
  <2>1. x \in Program /\ SameTempo(v, x) /\ x.sock = v.sock
    BY <1>2, StorageTempo, SaveFact DEF Good, SameWire
  <2>. HIDE DEF x
  <2>2. app' = t /\ app.sock = "open"
    BY <1>4, <2>1 DEF HandleConfig, Reads, Becomes, x, v, Program
  <2>. HIDE DEF b, p, c
  <2>3. t.initialized /\ t.attempt = 0 /\ t.sock = x.sock
    BY <2>1 DEF Program
  <2>. HIDE DEF t, v
  <2>4. t.sock # "idle"
    BY <1>3, <2>1, <2>2, <2>3
  <2>5. app.initialized => ~(t.attempt < app.attempt)
    <3>1. ~(0 < 0)
      OBVIOUS
    <3>. QED
      BY <2>3, <3>1 DEF Calm
  <2>6. Paced(app, t)
    BY <2>3, <2>4, <2>5 DEF Paced, CountsLoss, SetBack, Calm
  <2>. QED
    BY <2>2, <2>6
<1>5. CASE HandleVector \/ HandleAuthorization
  <2>. DEFINE w == [v EXCEPT !.user = TRUE]
              x == Save(w)
  <2>1. w \in Program /\ SameTempo(v, w) /\ w.sock = v.sock
    BY <1>2 DEF Good, Program, SameTempo
  <2>2. \/ app' = x
        \/ app' = [x EXCEPT !.client = @ \cup {"authorized"}, !.page = "main", !.busy = FALSE]
    BY <1>5 DEF HandleVector, HandleAuthorization, Becomes
  <2>. HIDE DEF w, v
  <2>3. x \in Program /\ SameTempo(w, x) /\ x.sock = w.sock
    BY <2>1, StorageTempo, SaveFact DEF SameWire
  <2>. HIDE DEF x
  <2>. DEFINE c == x.client \cup {"authorized"}
              y == [x EXCEPT !.client = c, !.page = "main", !.busy = FALSE]
  <2>4. app' = x \/ app' = y
    BY <2>2, <2>3 DEF Program
  <2>5. y.attempt = x.attempt /\ y.initialized = x.initialized /\ y.sock = x.sock
    BY <2>3 DEF Program
  <2>. HIDE DEF y
  <2>6. SameTempo(x, app') /\ app'.sock = x.sock
    BY <2>4, <2>5 DEF SameTempo
  <2>7. SameTempo(app, app') /\ app'.sock = app.sock
    BY <1>3, <2>1, <2>3, <2>6 DEF SameTempo
  <2>. QED
    BY <1>1, <2>7, KeepsPace
<1>6. CASE Unauthorized
  <2>1. PICK linger \in BOOLEAN : app' = ResetSession(v, linger)
    BY <1>6 DEF Unauthorized, Becomes
  <2>. HIDE DEF v
  <2>. DEFINE t == ResetSession(v, linger)
  <2>2. Gone(t) /\ ~t.initialized
    BY <1>2, ResetSessionFact, ResetSessionTempo
  <2>. HIDE DEF t
  <2>3. Paced(app, t)
    BY <2>2, StopsPace DEF Gone
  <2>. QED
    BY <2>1, <2>3 DEF t
<1>7. CASE Migrate
  <2>1. PICK d \in DCs \ {app.dc}, found \in BOOLEAN, linger \in BOOLEAN :
          app' = MigrateTo(v, d, found, linger)
    BY <1>7 DEF Migrate, Becomes
  <2>2. ~v.user /\ v.sock = "open"
    BY <1>2, <1>7 DEF Migrate, SameWire, SameSession
  <2>. HIDE DEF v
  <2>. DEFINE t == MigrateTo(v, d, found, linger)
  <2>3. /\ t.sock # "idle" /\ (~t.auto \/ ~t.user)
        /\ SameTempo(v, t) \/ ~t.initialized
    BY <1>2, <2>2, MigrateTempo
  <2>. HIDE DEF t
  <2>4. SameTempo(app, t) \/ ~t.initialized
    BY <1>3, <2>3 DEF SameTempo
  <2>5. Paced(app, t)
    BY <2>3, <2>4, StopsPace
  <2>. QED
    BY <2>1, <2>5 DEF t
<1>. QED
  BY <1>4, <1>5, <1>6, <1>7

\* One failure is counted once, however many ways it is reported, and only a
\* connection that became useful, a stop, retryNow() or a new process sets the
\* backoff back (notifyDisconnected(), scheduleReconnect(), handleConfig()).
THEOREM BackoffCountsHolds ==
  Spec => BackoffCounts
<1>. DEFINE Step ==
         /\ app.sock # "idle" /\ app'.sock = "idle" /\ app'.auto /\ HasSession(app')
              => app'.attempt = Bump(app.attempt)
         /\ app'.attempt < app.attempt =>
              \/ app'.initialized /\ ~app.initialized
              \/ ~app'.auto \/ ~HasSession(app')
              \/ NetworkOnline \/ Restart
<1>1. Init => Calm(app)
  <2>1. Init => KnownIn(EmptyIni, {}) /\ app = Restarted(EmptyIni)
                /\ EmptyIni \in [main : DCs \cup {NoDc}, at : [DCs -> Entry]]
    BY DEF Init, EmptyIni, NoEntry, Entry, KnownIn
  <2>. QED
    BY <2>1, ConnectionAssumption, RestartedTempo DEF Calm
<1>2. ASSUME IInv, Calm(app), Next PROVE Step /\ Calm(app')
  <2>1. CASE Revoke
    <3>1. app' = app /\ app \in Program
      BY <1>2, <2>1 DEF Revoke, IInv, Good
    <3>2. Paced(app, app)
      BY <1>2, <3>1, ConnectionAssumption, KeepsPace DEF SameTempo
    <3>. QED
      BY <3>1, <3>2 DEF Paced, CountsLoss, SetBack
  <2>2. CASE Intro \/ Back \/ LogOut \/ NetworkOnline \/ Restart
    BY <1>2, <2>2, ConnectionAssumption, UserPace DEF CountsLoss, SetBack
  <2>3. CASE RetryTimer \/ ConnectTimer \/ PingTimer
    BY <1>2, <2>3, ConnectionAssumption, TimerPace DEF Paced, CountsLoss, SetBack
  <2>4. CASE SocketConnected \/ ConnectFails \/ Drop \/ BadPacket
    BY <1>2, <2>4, ConnectionAssumption, SocketPace DEF Paced, CountsLoss, SetBack
  <2>5. CASE HandleResPQ \/ HandleServerDHParamsOk \/ HandleDhGenOk
    BY <1>2, <2>5, ConnectionAssumption, ExchangePace DEF Paced, CountsLoss, SetBack
  <2>6. CASE HandleConfig \/ HandleVector \/ HandleAuthorization \/ Unauthorized \/ Migrate
    BY <1>2, <2>6, ConnectionAssumption, AccountPace DEF Paced, CountsLoss, SetBack
  <2>. QED
    BY <1>2, <2>1, <2>2, <2>3, <2>4, <2>5, <2>6 DEF Next
<1>3. IInv /\ Calm(app) /\ [Next]_vars => Calm(app)' /\ [Step]_vars
  <2>1. ASSUME IInv, Calm(app), UNCHANGED vars PROVE Calm(app)'
    BY <2>1 DEF vars, Calm
  <2>. QED
    BY <1>2, <2>1
<1>. QED
  BY <1>1, <1>3, ConnectionInvariant, PTL DEF Spec, BackoffCounts
=============================================================================
