# SymboGram: verification project

SymboGram is a Telegram client for Symbian and other Qt platforms. This directory
holds TLA+ models of the parts of it whose correctness depends on the order in
which things happen, the TLC configurations that check them on small instances,
and TLAPS proofs about all six of them: the update pipeline, which is shown to
implement an abstract feed of updates, the connection, the message bookkeeping, the
password check, the file transfers and the open chat.

    tlc -workers 2 -config updates_common.cfg MCUpdates
    tlapm UpdatesProofs.tla
    tlapm QueueProofs.tla
    tlapm FeedProofs.tla
    tlapm ConnectionProofs.tla
    tlapm RequestsProofs.tla
    tlapm PasswordProofs.tla
    tlapm FilesProofs.tla
    tlapm MessagesProofs.tla

`PROJECT.json` lists the runs, which lines every definition models, the hazards
and the theorems. Line numbers below refer to the files under `src/`.

## 1. Inventory

The program is one Qt event loop, plus one worker thread for the SRP proof. A
handler (a slot, a timer, a socket callback) runs to its end before the next one
starts. What makes it hard is not threads but everything that may happen between
two handlers: messages lost, repeated, reordered or answered late, the connection
gone and back, the process killed.

| Component | State | Operations | Talks to |
|---|---|---|---|
| `TgUpdatesState` (libkg/tgupdatesstate.cpp) | pts, seq, pts per channel, the ini | verdicts (`check`, `checkSeq`), `advance`, `reset`, load and save | the manager |
| `TgUpdatesManager` (libkg/tgupdates.cpp) | parked queue and gap timer, ids of the state, difference and channel requests, poll queue, access hashes | `handleUpdates`, replies, errors, `messageChanged`, `disconnected`, `authorized`, `expirePending` | the server by `TgClient`, the models by `dispatch*` |
| `TgTransport`, the connection (libkg/tgtransport.cpp) | socket, three timers, backoff, key, session, ini | `start`, `stop`, `migrateTo`, `resetSession`, key exchange, reconnect | the server; `TgClient` |
| `TgTransport`, the messages | pending, flooded and migrating requests, ids not to replay, ids seen, ids to acknowledge | `sendMTMessage`, `handleRpcError`, `handleBadMsgNotification`, keepalive | the server; renames ids in `TgClient` |
| `TgClient` (libkg/tgclient.cpp, tgc_*.cpp) | connected, initialized, authorized; clients of other data centres; files; the password check | dispatch, requests, files, password | everything |
| `TgSrpWorker` | a thread, a cancel flag | `run`, `cancel` | the password check, by queued signals |
| `TgStore` (libkg/tgstore.cpp) | an SQLite cache, an open batch | put, trim, read, clear | the models |
| `DialogsModel`, `MessagesModel`, `FoldersModel`, `AvatarDownloader` (src/) | rows, offsets, request ids, pending marks | fetch, handle response, apply update | `TgClient`, QML |
| QML | pages | calls `start`, `stop`, `resetSession`, `retryNow` | `TgClient` |

What each of them has to get right:

* Updates: a position stands for a promise that everything before it was shown to
  the models, in memory and in the ini. A gap is either closed or reported by a
  reset. A request id never stays reserved for a reply that cannot come. Polls
  are capped and their slots are given back.
* Connection: a client that has a session and wants to be connected is never left
  without a socket or a timer; a stop is final; a failure is counted once; a
  session that would be resumed has a key the server knows.
* Requests: what is refused for now is held, sent again once, and the reply still
  finds its issuer; a password proof is not replayed.
* Files: what is on disk is a beginning of the file, and all of it when the
  interface is told so; every transfer is reported once; a transfer ends (done or
  cancelled), whatever happens to the connection.
* Password check: a proof uses parameters of its own, is made at most twice per
  submission, and a submission the user left says nothing any more.
* The open chat: its rows are its own, without a hole, also after its sequence
  jumped; nothing is marked read that was not shown; paging ends.
* The store and the other models: rows follow the updates; nothing of one account
  is shown to another.

Hard behaviours: reordering and repetition of pushes and replies; replies that
outlive their connection; ids renamed under way; errors and timers racing
replies; drops between any two handlers; the process killed between a change and
its save. The hazards in `PROJECT.json` list them line by line, with the property
that watches each, or the reason why none does.

## 2. Plan

| Step | Module | State |
|---|---|---|
| 1 | `UpdatesState`, `Updates`, `UpdatesProperties`, `MCUpdates`: the update pipeline | done |
| 2 | `UpdatesProofs`: its types and its safety, proved | done |
| 3 | `Connection`: connection, key exchange, session, reconnects | done |
| 4 | `Requests`: refusals, resends, renaming, the replay ring | done |
| 5 | `Feed`, `FeedProofs`: what the pipeline promises the models, and the proof that it does | done |
| 6 | `Password`: the two requests, the worker thread, the page | done |
| 7 | `Files`: part queues, cancel, migration to a data centre that must be signed in to first | done |
| 8 | `Messages`: the open chat: paging, switching, updates during paging | done, without edits and uploads |
| 9 | `ConnectionProofs`, `PasswordProofs`: their safety, proved | done |
| 10 | `Dialogs`: the list of chats, seeded from the store; `AvatarDownloader`'s pending marks over `Files` | left |
| 11 | `QueueProofs`, `RequestsProofs`, `FilesProofs`, `RetriedOnce` of `Password`, `BackoffCounts` of `Connection`: every safety property the runs check, but those of `Messages`, proved | done |
| 12 | `MessagesProofs`: `RowsBelong`, `NoHole`, `ReadWasShown`, proved | done |

## 3. The modules

### UpdatesState and Updates

`UpdatesState` has the pure part: `Check` and `CheckSeq` are the verdicts of
`TgUpdatesState::check` and `checkSeq`, in the order of the code's tests; the
positions of all sequences are one function, with 0 for "unknown" as in the code.
`date` and `qts` are copied into requests only and are left out.

`Updates` has one action per handler of `TgUpdatesManager`. Three loops inside
handlers (over a container's updates, `drainPending`, `pumpChannelQueue`) are
steps of their own under a program counter; every other action needs `Idle`, so
a handler is still atomic, and only the death of the process can interrupt it.

Server and network are external. The server keeps a position and a log of
updates per sequence. A push reaches the client at any moment after it was
logged, in any order, any number of times, or never. A request that reached the
server is in `calls` until its reply is handled; the reply may have been computed
at any moment since, so the position it brings lies between the server's position
at the request and at the delivery. Replies may outlive the connection
(`MaxStale` bounds how many). `Faults` selects what else happens: errors, flood
waits, rejected positions, unreachable channels, replies that decode to nothing,
renames, too-long differences, disconnects, restarts, changes of this client,
channel updates carried in the common difference.

History variables: `seen` has the positions dispatched, `floor` the position from
which the models are owed every update (the start, or the last reset they were
told about), and `lapse` the position up to which the pipeline knowingly or
unknowingly took the server's word. Three doors raise `lapse`: a state adopted
after a reply that decoded to nothing, a state adopted after a rejected position,
and a channel position carried in a common difference, which `tgupdates.cpp:695`
records without `check()`. `Continuity` is relative to `floor` and `lapse`;
`NothingSkippedSilently` is the same without `lapse`, and holds where these doors
are closed (checked, and proved in `FeedProofs`).

### Feed

`Feed` is the pipeline seen from the models of the user interface: no requests,
queues, timers or verdicts, only what was published, what was shown, the position
claimed, the position stored, and from where the models know they are owed every
update. It has three kinds of step. `Publish` is the server's. `Advance` shows
updates and moves positions, and may change what the models were told of a sequence
only by entering a sequence that had no position, by telling them to reload up to
the new position, or, where `MaySkip`, by a silent jump. After it, nothing owed is
missing. `Crash` starts again from what was stored. `FeedIsImplemented` is
`Feed!Spec` with

| `Feed` | `Updates` |
|---|---|
| `published`, `shown` | the positions in `log`, `seen` |
| `told`, `skipped` | `floor`, `lapse` |
| `at` | `pts`, for the common sequence 0 unless `valid` |
| `stored` | the positions in the ini |
| `MaySkip` | one of the faults that open a door (`Silent`) may happen |

It says more than `Continuity`: `Continuity` accepts any `floor` and `lapse`, the
refinement also says when they may move.

### Connection

The methods of `TgTransport` call each other, so each one is an operator from the
state of the program (one record) to the state it leaves, and an action applies
the composition the code runs: `MigrateTo` is `Stop`, `Save`, `Start`. The socket
follows `QAbstractSocket`: `disconnectFromHost()` while connecting only marks it
(`aborting`), and with unsent bytes leaves it `closing`. The ini has MainDc and
one group per data centre; a crash keeps the ini and loses the record. The server
knows keys (`known`) and sign-ins (`signed`). The calls of the QML pages are
actions of their own.

### Requests

The three hashes (`pending`, `flood`, `migration`) are functions from message ids
to requests; reading an absent key gives the empty packet, which `sendMTMessage`
does not send. A resend takes an entry out, gives it a new id and tells everyone
who listens: the updates manager, the files and the transport's own authorization
check do; the password check and the models do not, and are kept apart (`Proofs`).
The network delivers a message of the server in any order, and again, acknowledged or
not. One that comes alone passes `acceptMessageId()` (`Alone`): it may come again as
long as it is among the last `Ring` delivered that way, which is the promise on which
the ring of 64 ids rests, and the mutant of `HeldUntilSent` shows that one id fewer
would not do. One that comes inside a container or a `msg_copy` goes to its handler
at once (`InContainer`): the ring neither stops nor remembers it, so it may come again
for ever, inside or alone. `inside` and `displaced` are history: the refusals to hold
that came inside a container, and the requests that a repeat of one displaced.

### Password

`authCheckPasswordSRP` fetches parameters, a worker thread derives a proof, the
GUI thread sends it. The worker looks at its cancel flag once, after computing, and
only then posts its signal (`WorkerChecks`, `WorkerReports`), so a cancel can fall
between the two. A posted event is delivered whatever is disconnected after that:
`posted` is a queue, and `heard` says whether an emission still posts. The calls of
the page are actions: submit, the back arrow, what `onRpcError`, `onDisconnected`
and `onInitialized` do to it. A submission is a number, so is a request id, and a
proof remembers the submission whose password it was made with (`pw`) and the one
its parameters were fetched for (`for`).

### Files

Each client, the account's and the one of another data centre, has its
`processedDownloadFiles`, `currentDownloading` and `filePackets`; uploads belong to
the main client. The fields a download handler touches are one record, because every
handler ends in `downloadNextFilePart()`: a handler is an operator from the record
to the set of records it may leave, a set because `QHash` decides which file is
begun next. Lengths are counted in half parts, so a file may end inside a part or at
its end, and a caller may pass 0 for a length it does not know. The other data
centre's client comes up without an account and asks the main one to export the
authorization; whether the export, the import or a migration comes first, and which
of them a drop takes, is up to the run. A request the transport sends again changes
its id in `filePackets`, in the context's queue and in `migrationForDc`, as
`handleMessageChanged()` does it.

### Messages

The open chat: `setPeer()` asks for the page below and the page above the read
mark, answers are matched by request id, updates are taken when the last page was
read. A private chat, a channel and a supergroup with the same message ids make the
rules that look at ids alone visible. `IsChannel` is the code's `isChannel()`, which asks
for the `broadcast` flag: a supergroup has a sequence of its own and no such flag, so it
is reloaded when the common sequence jumps (`UpdatesReset`) and not when its own does
(`ChannelReset`).

What the pipeline hands over is abstract and no better than what `Updates` and `Feed`
promise: each sequence in order, at any later time; a jump the models are told of;
a jump they are not told of, over any number of updates (`Skip`, where `lapse` moves in
`Updates`); and any update a second time (`Repeat`, where a position goes back). What
goes wrong with rows is recorded in `amiss`, and the properties say that nothing else
goes wrong:

* messages a supergroup's sequence jumped over after its last page was read stay
  missing while newer ones are appended (`jumped`), and so do those skipped silently
  (`skipped`);
* an update handed over again is appended again (`late`);
* an update that says the last page is not read yet is dropped, while the answer to
  the last page was computed before the message: the message is in neither
  (`overtaken`);
* `UpdateDeleteMessages` removes a row of a channel that has the same id (`struck`);
* `UpdateShortSentMessage` is appended to the chat that is open when it arrives
  (`strays`), or dropped if the transport changed the id of the request
  (`unclaimed`);
* a request whose answer is lost, refused or renamed leaves its id set, and the chat
  asks nothing more until it is opened again (`severed`).

## 4. The runs

| Run | States | What it asks |
|---|---|---|
| `updates_common` | 755 752 | The common sequence: pushes and numbered containers lost, repeated, reordered; pts_count 0; slices; too long; errors; disconnects; restarts. |
| `updates_channel` | 463 853 | A channel beside it: gaps, polls, unknown access hashes, unreachable channels, undecodable channel differences, this client's own changes, restarts. |
| `updates_polls` | 577 784 | Two channels and one poll slot: cap, single poll per channel, no slot leaked; channel updates carried in the common difference. Channels are symmetric. |
| `updates_faults` | 567 239 | Renames, this client's own changes, flood waits, undecodable replies, rejected positions. |
| `updates_catchup` | 63 000 | Liveness: differences are followed to the end, the parked queue empties. |
| `updates_orphan` | refuted | "their ids must not stay reserved" (tgupdates.cpp:133). |
| `connection` | 14 557 | Safety of the connection and its session, and that it comes back. |
| `requests` | 318 181 | A request, a password proof and authorization checks, two at a time: carried out once, held until sent unless a repeat inside a container displaced it, sent again, found by their issuers; a proof is held for replay only after a rename. |
| `password` | 1 448 782 | Overlapping submissions: fresh parameters, at most two proofs each, what was left is forgotten, the spinner stops. |
| `password_left` | refuted | "The client stopped listening before asking for this." (tgsrpworker.cpp:53). |
| `files` | 451 404 | The file on disk, one report per transfer, when downloads stand still, that transfers end. |
| `messages` | 1 349 416 | A private chat and a supergroup: rows of the open chat, holes, read marks, that it settles. |

`updates_common` checks `TypeOK`, `NothingSkippedSilently`, `SavedIsDelivered`,
`ParkedIsTimed` and `ParkedMeansGap`: it has two places in the parked queue, so that a later
pass of the drain makes an earlier item applicable, and starts from an unknown position too,
so that updates are parked before there is one. None of the doors that raise `lapse` is open
there, so `Continuity` is checked in `updates_polls`, where channel updates are carried, and what
the other two doors do (rejected positions, undecodable replies) is checked by
`FeedIsImplemented` in `updates_faults`, with `NeverAhead`. `FeedIsImplemented` is checked in `updates_channel` and `updates_faults`. A
property that is proved holds in the other runs too, and is not checked again there.
The type invariants of `Connection`, `Requests`, `Password`, `Files` and `Messages` are
the first conjunct of `ClientAgrees`, `HeldUntilSent`, `RetriedOnce`, `ToldOnce` and
`RowsBelong`.

Bounds. Two updates per sequence past the base are enough for a gap, a late
update, a duplicate and a difference in two slices; `MaxPending` 1 or 2 makes the
queue overflow with them; two channels and one slot make the poll queue matter.
`Ids` is a pool from which only unused ids are taken: a large enough pool is the
same as fresh ids. `MaxStale` is the number of replies that outlive their request.
In `connection` two data centres and three keys allow a migration there and back
with a key exchange each; the backoff is capped at its third step, where the delay
of the code is capped at its sixth. In `requests` the ring has 2 places for 64 and
the limit of pending requests is 2 for 40; `MaxFaults` counts refusals and drops
together, and `MaxIds` bounds when new requests and checks are issued: two are under way
at a time, each of which may be refused twice or one of them and a drop.

In `password` two submissions are the fewest that overlap: the second is typed while
the first one's proof, refetch or worker is still under way. In `files` there are one
or two parts per download, one download at home and one abroad, each of which may be
asked of either client first, and one fault anywhere; the invariants were also seen
to hold with two faults (4.4 million states), too many for the liveness check. In
`messages` a page has 2 messages for 40, a chat begins with 2, and 5 events allow a
chat to be opened, left for another and something else to happen between; opening
counts as two. The run has a private chat and a supergroup, the kind that is reloaded for
one sequence and not for its own; a broadcast channel, which is reloaded for its own and
not for the other, is a third value of `Chats`. With it the invariants were seen to hold
in 3.05 million states, too many for the liveness check; the proofs are for all three.

Deadlock is checked where the system never stops by itself; `CHECK_DEADLOCK FALSE`
is set where a bounded environment (ids, refusals, files) may run out.

Fairness. In `updates_catchup`: the event loop goes on (weak), the gap timer fires
and the server answers (strong, as a drop may come between). Nothing is assumed of
pushes or of the connection: the properties allow the link to go down. In
`connection`: running timers fire (weak), and a network that is there again and
again lets a connect and the reply to `initConnection` through (strong). In
`requests`: the socket comes back, the connection is initialized and the 60 s
keepalive fires (weak; drops are bounded). In `password`: the worker thread runs,
posted events are delivered, the server answers (weak); the user does nothing by
duty. In `files` and `messages`: weak fairness of the system as a whole (answers,
keepalive, reconnects; in `messages` updates too), which is enough because no run of
its steps alone is endless; the user need not do anything, not even scroll.

## 5. Disagreements with the code's own words

Two runs refute a statement of the repository; `PROJECT.json` quotes the lines.

* `updates_orphan`: `disconnected()` releases the request ids but leaves the gap
  timer on. It fires without a socket, `requestDifference()` reserves a new id, and
  after the reconnect no difference is asked for.
* `password_left`: the user backs out while the worker's signal is already posted.
  The handler has no guard of its own, and the proof is sent.

Five more were seen, and are not runs of their own: the models do what the code
does, and properties that hold say how far it goes.

* "An explicit stop is a decision. start() sets this back." (tgtransport.cpp:333):
  `start()` returns early (292) while the old socket is closing or connecting, and
  the transport stays stopped. `StartSetsBack` says that this is the only case.
* docs/auth.md:144 wants a proof excluded from the FLOOD_WAIT replay: one resent
  after a bad salt has a new id, the list of ids not to replay has the old one
  (tgtransport.cpp:1507). `ProofHeldOnlyRenamed` says that this is the only case.
* docs/updates.md:70 says a jump tells the models to reload. After
  PERSISTENT_TIMESTAMP (tgupdates.cpp:785) the state is cleared and the server's
  position adopted without that. In `Feed` it is a step of `Skip`, which
  `NothingSkippedHolds` and `MaySkip` restrict to this and the two other doors.
* tests/e2e/runner.cpp:11 says that a request refused with a FLOOD_WAIT is parked and
  sent again by the timer. The messages inside a container are not checked against the
  ring and not acknowledged (tgtransport.cpp:1204-1221): when the refusal comes again in
  one, nothing is left in `pendingMessages`, an empty packet takes the place of the parked
  one (1300), and the request is never sent again. Without its last disjunct
  `HeldUntilSent` is violated in six steps with the code's own 64 and 40.
  `HeldUntilSent` and `RefusedIsRetried` say that this is the only case.
* docs/updates.md:69-72 says that `updatesReset()` reloads what a jump made stale, and
  `channelReset()` "the same for one channel". `channelReset()` returns for a supergroup
  (messagesmodel.cpp:223, `isChannel()` asks for `broadcast`): its last page stays the
  last one, the next message is appended after those jumped over, and `markRead()` marks
  them read. `NoHole`, `ReadWasShown` and `Settles` excuse these messages (`jumped`) and
  no others; without that `NoHole` is violated.

Seen while modelling, and modelled as the code does it:

* Updates: a difference may take the position back, after which pushes repeat;
  `handleAffected()` applies a change although the state is not valid; updates held
  before the first state are dropped as duplicates when it arrives; the channel
  queue is not pumped after a reconnect until the next channel event; channel
  updates that expire are not asked for again; `_affectedChannel` is not renamed
  when the transport resends.
* Password: submissions that overlap can have two workers, of which `_srpWorker`
  knows the later; a stale `failed` or `proved` event clears it, and the newer worker
  can then not be cancelled. `_pendingPassword` is not released when the server
  accepts (tgclient.cpp:535; docs/security.md:172 wants it not kept). After a blip
  `onInitialized` (Main.qml:74-83) leaves the password page, which `onDisconnected`
  (88-90) takes care to keep.
* Files: a part lost with a connection, or refused, makes its client deaf, as
  `downloadNextFilePart()` waits for it (tgc_files.cpp:214); a download whose last
  part is a full one leaves `currentDownloading` behind (218-229), and other files
  wait until another handler resets it; a length of 0 with a full part divides by
  zero (272); an upload is not resumed by `handleAuthorized()`; `cancelDownload()` of
  a file that is not the current one starts another beside it. `NeverIdle` says that
  the first two are the only reasons for downloads to stand still.
* Messages: see `amiss` above; a chat opened from the cache before the first sign-in
  is closed by `authorized()`; one opened without a connection asks nothing when it
  comes back; the first row of the page below may repeat the read mark's.

## 6. The proofs

The theorems of `UpdatesProofs`, `QueueProofs` and `FeedProofs` are
about `Spec` of `Updates`, for every set of channels, ids and counts, every bound and
every subset of the faults, from the assumptions
`CommonIsNoChannel` and `ConstantsAssumption` only (`Counts` are naturals, the
pools do not contain the special values, bounds are naturals).

* `TypeCorrect` (`UpdatesProofs`): `Spec => []TypeOK`, one lemma per group of
  actions.
* `ContinuityHolds`, `SavedIsDeliveredHolds`, `NeverAheadHolds` (`UpdatesProofs`):
  from the inductive invariant

      IInv == Ground /\ MatchedCovered /\ Bounded /\ Continuity /\ SavedIsDelivered

`Continuity` is not inductive. A difference continues from the position it was
asked from, so that position must stay covered as long as its reply can be
matched (`MatchedCovered`). Applying an update moves the position by its count, so
what sits in a container, in the parked queue or in the reply to a change must be
a real update of the log, and updates of a log must not overlap (`ItemsGenuine`,
`ChangesGenuine`, `LogConsistent`). A valid state has a position, or the verdict
"position unknown, apply" would jump (`Seeded`). A position ahead of the server
would be passed by later updates (`Bounded`). `Ground` is the part that needs
nothing else; it is shown first for every action, then `Moves` (what any handler
does to the positions) is shown to keep the rest.

`QueueProofs` has what is parked and what is polled:

    QInv == TypeOK /\ Polls /\ Slots /\ Timed /\ NothingReady

`PollDiscipline` and `ParkedIsTimed` count a set, so they need that the set is finite
(`Polls`, `Timed`); `PollsShape` says what any step may do to the slots and the queue,
and only pumping adds a slot, after it compared their number with the cap.
`SlotsAreAnswerable` is not inductive: a reply releases the slot with its id, so no two
slots may have one id, and no request of another kind may have the id of a slot
(`SlotIds`); and a poll written to a closed socket is lost at once, so a handler that
pumps must run only while the connection is up (`Running`). `ParkedMeansGap` speaks of
the time between handlers; what carries it there is the same at every point of a
handler except inside `drainPending()` (`NothingReady`): every step that moves a
position starts a drain or leaves nothing parked of that sequence, and the drain
ends only when nothing is ready.

`FeedProofs` has the refinement: `FeedHolds`, `Spec => FeedIsImplemented`. The
inductive invariant already says that every position is complete; what is added is

    FInv == IInv /\ ShownIsLogged /\ (MaySkip \/ Known)

`ShownIsLogged`: nothing is shown that the server did not log, or `shown` could hide a
missing update of the same position. `Known`: while none of the silent faults can
happen, the common state is unknown exactly as long as the models have no start, and
only an unknown state is asked for; without it a reply to a state request would be
a silent jump. For every action one lemma (`...Tells`) shows how it may change what
the models were told, and one (`...Steady`) that it keeps `Known`; then each step is
mapped: a push logged to `Publish`, a restart to `Crash`, all else to `Advance` or a
stutter. `NothingSkippedHolds` follows from `Known`: under `Faults \cap Silent = {}`
nothing is ever skipped that the models were not told to reload.

`ConnectionProofs` is about `Spec` of `Connection`, for any data centres, backoff, run
of bad packets and number of keys, from `ConnectionAssumption`. It has one lemma per
method of the transport (what `Save`, `Load`, `Notify`, `Stop`, `ResetDc`, `Start`,
`ResetSession` and `MigrateTo` leave), as the handlers are compositions of them, and
the inductive invariant

    IInv == ConnectionTypeOK /\ Good(app, known) /\ Answering(app, owed, known)

`NeverStranded` is not inductive: a drop schedules a retry only if it was not reported
before and the transport is not stopped, so the latch must be that of a socket that is
gone and a stopped transport may only have a socket on its way out (`Wired`).
`SessionIsUsable` needs that a key is exchanged only without a user and that a group
of the ini with a user has an address, or `resetDc()` would carry a user to another data
centre (`Usable`); and that the replies that initialize the connection come from a
server that knows the key (`Answering`). From it follow `NeverStrandedHolds`,
`StoppedStaysStoppedHolds`, `ClientAgreesHolds` (with the types), `SessionIsUsableHolds`,
`SignedInIsStoredHolds` and `StartSetsBackHolds`.
`BackoffCountsHolds` is about steps. What it needs besides `IInv` is that a
connection which became useful has its counter at zero (`Calm`), so that a second config
sets nothing back; each method is then shown to leave the counter alone, to count
one loss, or to set it back for one of the reasons that are named (`Paced`).

`RequestsProofs` is about `Spec` of `Requests`, for any requests and proofs, any size of
the ring and any bound, from `RequestsAssumption`, which also says that the packets of the
transport's own authorization check are not requests of a caller:

    RInv == /\ Typed /\ Wire /\ Followed /\ RepliesFindTheirIssuer
            /\ Registered /\ ProofHeldOnlyRenamed
            /\ Once /\ AtMostOnce /\ Owed

A request is a token in one place: on the wire, in a refusal the client has not heard,
or in one of the two hashes that hold requests for a retry; once it was carried out it
is in none (`Once`). `AtMostOnce` follows if no handler copies the token. It does not rest
on the ring but on `pendingMessages`: a refusal takes the request out of it, so one that
comes again, alone or in a container, finds nothing to hold or to send, and the hashes of
other handlers hold other ids (`Apart`). `HeldUntilSent` does rest on the ring: nothing to
hold would still displace what is held, and only what was heard alone is remembered for as
long as it may come again (`HeldAnswered`, `Heard`). What came inside a container is not,
and `Owed` is what is left: held, or displaced by a repeat of such a refusal.
`Wire` says that the server says one thing about an id and that what is held was refused
for good reason; `Followed`, that whoever follows changes of id waits for the id the
hash has the request under, which gives `RepliesFindTheirIssuer`; `Registered`, that a
proof pending under its first id is in the register, which gives `ProofHeldOnlyRenamed`.

`PasswordProofs` is about `Spec` of `Password`, for any number of submissions, openings,
drops and renames, from `PasswordAssumption`:

    IInv == PasswordTypeOK /\ Numbered /\ FetchIsPending /\ SpentOnce /\ LeftIsForgotten

`FreshProofs` is about proofs that were sent; what makes it inductive is the same of
whatever may become one, a thread or a posted event: it was made from an answered
fetch whose id is nowhere else and will not be drawn again (`SpentOnce`), because the
one fetch the flow waits for belongs to the pending password (`FetchIsPending`).
`RetriedOnceHolds` counts what may still become a proof of a submission: a thread, a
posted event, the fetch that is waited for, the one retry it has left, and the proofs
that were sent (`Chance`). There are never more than two (`TwoChances`): every step hands
one on to the next form, and only a submission starts with two.

`FilesProofs` is about `Spec` of `Files`, for any files, lengths, split between the data
centres and number of faults, from `FilesAssumption` (ids for a file may even run
out and be used again):

    FInv == /\ Kinds
            /\ InOrder(size, Here, length, disk, stored, begun)
            /\ Turned(size, Here, length, link, {})

The handlers are operators on a state `w` that each step hands to the next, so the
invariant is about `w`, and one lemma per operator says what it keeps. `DiskIsPrefix` is
not inductive: a part is appended without its offset, so the one part in flight must be the
one that comes next, asked for by the client that has the file, and what is left must
be the length less what is on disk (`Fetched`); and no file has two requests under way,
each of them known to `filePackets` of the client it went to (`Asked`). `Sending` is the
same for what the server holds of an upload. `ToldOnce` follows: a file in the works was not
reported, one that was begun and is not in the works was. For `NeverIdle` every
client's current file is its own, none, or one that a full part completed, and while
the client is authorized the current file has a part under way (`Turned`); a handler is
followed to the `downloadNextFilePart()` it ends in, which restores that.

`MessagesProofs` is about `Spec` of `Messages`, for any of the three kinds of chats, pages
of any size above one, any number of messages to begin with and of events, from
`MessagesAssumption`. (`BATCH_SIZE`
is 40. With pages of one message the first page below would begin and end at the same
message, which `handleHistoryResponse()` takes for the last page.)

    MInv == /\ ServerOK /\ WireOK /\ ChatOK /\ QueueOK
            /\ OneEach /\ Asked /\ Told
            /\ Joined /\ Belong /\ ReadWasShown

`NoHole` is not inductive: whether the next page leaves a hole depends on what it was
asked for, and whether the next update does depends on what is still to come. `Joined`
says what is there instead of what is not missing: from the far end of the pages above up
to the mark, and from the mark to the far end of the pages below, everything is shown or
excused; after the last page, everything there is, but for messages whose updates
are still to come and are newer than all rows. `Asked` says that a request that is awaited
begins at the end of what is shown, so ids of requests must be told apart (`OneEach`).
`Told` says that an answer is an unbroken run from there, and that what was sent after a
page below was computed is still to come or was excused as overtaken. `QueueOK` says that
a sequence is handed over in order and that from its first message on none is missing, so
an update that is taken after the last page is the next one; a jump that reloads the chat
starts again from pages, and every other message that leaves a sequence without becoming a
row is excused then and there (`Missed`). An update handed over again is older than what
is still to come, so it changes neither end. `NoHoleHolds` and `ReadWasShownHolds` then follow from one fact: from the
mark to any row nothing is missing (`ReachFact`).

What pages, least elements and orders of rows are computed from is data of any size, and
nothing about it is taken on trust: that a set of naturals has a least element is derived
from `NatLessThanWellFounded` and `WFMin`, and that the rows of a page are its messages,
and what is not in a page older or newer than all of it, from the ranks of an order on
a finite set (`RankFact`, `RankTaken`, `LowestFact`), by counting.

Every invariant and every action property that a passing run checks is proved. Only
model-checked: what must eventually happen (the properties with `~>` or `<>`, all
under fairness, which is out of the prover's reach, as is ENABLED), and
`NoOrphanRequest` and `NoProofAfterLeft`, which the code violates.

## 7. Not modelled

By size the repository is mostly code these models have nothing to say about:
mbedTLS and zlib (vendored), the generated schemas, and a client's formatting and
layout. The components below, and the share of lines a definition stands for, are to
be read with that in mind; the logic of the client itself, `libkg/tg*.cpp` without the
vendored trees, is some ten thousand lines.

* The list of chats (`DialogsModel`), folders and avatars: paging and updates of the
  kind `Messages` has, and marks over the files of `Files`. `AvatarDownloader` never
  releases the mark of a photo whose download could not start (avatardownloader.cpp:99)
  or of an earlier account (68).
* The store: a cache of what the server says, shown until the server answers. No
  position depends on it, so a crash with a batch open loses nothing that is not
  asked for again (tgstore.cpp:220).
* The dispatch of responses: decoding and signals, without state of its own.
* Cryptography, SRP arithmetic, streams, compression, schemas: big numbers and byte
  formats, out of TLC's reach or not the client's own.

In the modelled parts:

* Updates: date and qts; what a dispatched update does to the models; the order
  between parked items of different sequences (it changes no verdict); log out
  and a change of account, over which the positions stay: `resetSession()` tells the
  manager of a disconnect only, and `authorized()` (tgupdates.cpp:105) then asks for the
  difference of the new account from the positions of the old one. That no id is given out twice while
  it is in use is assumed (see `lastMessageId` below).
* Connection: what arrives on a closing socket; failed checks of the key exchange,
  which return and leave the connection waiting; the transports of other data centres.
* Requests: acknowledgements, and the ids of containers (what is inside them is
  modelled); MIGRATE to the data centre the client is on already, where `migrateTo()`
  returns at 244 and the request would be held with the link up: the server does
  not send it, and a second MIGRATE in one container, which the code would hold too, is
  taken for lost; a request issued in plain text while
  a key exchange runs; `lastMessageId` set to 0 by some codes of
  `bad_msg_notification`; log out, and requests held for a flood wait that
  `resetSession()` leaves behind for the next session (tgtransport.cpp:113).
* Password: the arithmetic; the check of the authorization that follows an accepted
  proof, which is part of `ProofAccepted`; the other pages.
* Files: what a location is; CDN data centres; two data centres are enough for a
  migration, more are not tried; uploads of files that change on disk.
* Messages: edits, uploads, media downloads, selections and replies; a read mark of 0,
  of a chat that was never read: the page above is then the newest one and more than a
  page may be marked read without being shown; a basic group, whose id may be that of a
  channel, which `peersEqual()` (tgc_utils.cpp:174) does not tell apart;
  the server is assumed to answer a page with the messages next to the offset,
  and to number a chat's messages without gaps but for deleted ones.

Further hazards met while reading, in parts no module reaches: `handleMsgDetailedInfo()` acknowledges an
answer that did not arrive (1500); `lastMessageId` set to 0 may give two messages of
one second the same id (1368); a request written before a drop stays pending and is
never sent again (1163); a client of another data centre calls `setDc("", 443, 0)`
(tgclient.cpp:211); updates are ignored while the dialog list is paged
(dialogsmodel.cpp:569).
