------------------------------ MODULE Updates ------------------------------
(***************************************************************************)
(* TgUpdatesManager (libkg/tgupdates.cpp): sequence checking, the parked   *)
(* queue and its timer, difference polling, replies, errors, renames,      *)
(* reconnects and restarts, against a server and a network that lose,      *)
(* delay, repeat and reorder.                                              *)
(*                                                                         *)
(* The program is single threaded, so a handler runs to its end before     *)
(* the next starts.  Three loops inside handlers are unrolled into steps   *)
(* of their own: the loop over a container's updates (todo), drainPending  *)
(* and pumpChannelQueue.  pc says which loop is running; every handler     *)
(* needs Idle, so nothing but the loop's own steps (or the death of the    *)
(* process) can come between the first step of a handler and its last.     *)
(*                                                                         *)
(* Server and network are external.  The server keeps, per sequence, a     *)
(* position and the log of its updates.  A pushed update may reach the     *)
(* client any number of times, at any moment after it was logged, in any   *)
(* order, or never.  A request that reached the server is a member of      *)
(* calls until its reply is handled; the reply may have been computed at   *)
(* any moment since the request, so its position is picked between the     *)
(* server's position at the request and the one at delivery.               *)
(***************************************************************************)
EXTENDS UpdatesState, Sequences, FiniteSets

CONSTANTS
  Ids,              \* message ids; fresh ones are always distinct from live ones
  NoReq,            \* the request id 0
  Counts,           \* values of pts_count the server uses
  Stored,           \* positions the ini may hold at the start
  Chats,            \* sets of channels a chats list may bring access hashes of
  MaxPts,           \* bound: the server's last position in each sequence
  MaxSeq,           \* bound: sequenced containers the server builds
  MaxStale,         \* bound: replies outliving the request that asked for them
  MaxPending,       \* TgUpdatesManager::MaxPending
  MaxChannelPolls,  \* TgUpdatesManager::MaxChannelPolls
  Faults            \* what else the environment does, a subset of FaultKinds

FaultKinds ==
  {"rpc", "flood", "timestamp", "private", "decode", "polldecode", "carried",
   "rename", "toolong", "disconnect", "restart", "affected"}

Base == 1   \* every sequence's position before its first update

ASSUME ConstantsAssumption ==
  /\ NoReq \notin Ids
  /\ Counts \subseteq Nat
  /\ Stored \subseteq {0, Base}
  /\ Chats \subseteq SUBSET Channels
  /\ MaxPts \in [Seqs -> Nat]
  /\ MaxSeq \in Nat /\ MaxStale \in Nat
  /\ MaxPending \in Nat \ {0}
  /\ MaxChannelPolls \in Nat \ {0}
  /\ Faults \subseteq FaultKinds

VARIABLES
  \* the server
  srv,        \* position of each sequence
  log,        \* its updates that advance it: records of Event
  box,        \* box[k]: the updates of the container the server numbered k
  \* the connection
  link,       \* "down", "up" (connected) or "auth" (authorized)
  calls,      \* requests the server received and whose reply is not handled
  \* TgUpdatesManager
  valid, pts, seq,     \* _state
  stateReq, diffReq,   \* _stateRequestId, _differenceRequestId
  chanReq, affected,   \* _channelRequestId, _affectedChannel
  queue,               \* _channelQueue
  hash,                \* keys of _channelAccessHash
  pending, timer,      \* _pending, _gapTimer.isActive()
  saved,               \* the ini: group UpdateState with ChannelPts
  pc, todo, after,     \* where the running handler is
  \* history, read by the properties only
  seen,       \* positions of the updates dispatched since the start
  floor,      \* from where the models were told to expect every update
  lapse       \* a position adopted although updates before it were owed

server   == <<srv, log, box>>
position == <<valid, pts, seq>>
requests == <<stateReq, diffReq, calls>>
polls    == <<chanReq, queue>>
parked   == <<pending, timer>>
control  == <<pc, todo, after>>
history  == <<seen, floor, lapse>>
vars == <<server, link, position, requests, polls, affected, hash, parked,
          saved, control, history>>

Event  == [pts : Nat, count : Nat, own : BOOLEAN]
Update == [seq : Seqs, pts : Nat, count : Nat]
Item   == [pts : Nat, count : Nat]
Kinds  == {"state", "diff", "chan", "affect"}
Call   == [id : Ids, kind : Kinds, seq : Seqs,
           from : Nat, lo : Nat, sq : Nat]

Idle == pc = "loop" /\ todo = <<>>

\* The parked items, kept per sequence: the verdict on an item depends on its
\* own sequence only, so the order between sequences changes no verdict.
NothingHeld == [s \in Seqs |-> <<>>]
Held == UNION {{<<s, i>> : i \in DOMAIN pending[s]} : s \in Seqs}

InFlight == {r.ch : r \in chanReq}
Queued   == {queue[i] : i \in DOMAIN queue}

-----------------------------------------------------------------------------
(***************************************************************************)
(* Sending.  A message id is unique.  What is written to a socket that is  *)
(* not connected is lost, and the caller still gets an id for it           *)
(* (TgTransport::sendMTMessage, sendIntermediate).                         *)
(***************************************************************************)
Used(cs) == {c.id : c \in cs} \cup {stateReq, diffReq}
            \cup {r.id : r \in chanReq} \cup {a.id : a \in affected}
CanSend == Ids \ Used(calls) # {}
Fresh(cs) == CHOOSE i \in Ids : i \notin Used(cs)

Send(cs, kind, s, from) ==
  IF link = "down" THEN cs
  ELSE cs \cup {[id |-> Fresh(calls), kind |-> kind, seq |-> s, from |-> from,
                 lo |-> srv[s], sq |-> Len(box)]}

(***************************************************************************)
(* requestState() and requestDifference().  The arguments are the state    *)
(* the handler has reached: v and p for _state, sr and dr for the two      *)
(* ids, cs for the requests outstanding.                                   *)
(***************************************************************************)
RequestState(sr, cs) ==
  /\ stateReq' = IF sr = NoReq THEN Fresh(calls) ELSE sr
  /\ calls' = IF sr = NoReq THEN Send(cs, "state", Common, 0) ELSE cs

RequestDifference(v, p, sr, dr, cs) ==
  \/ /\ ~v
     /\ RequestState(sr, cs)
     /\ diffReq' = dr
  \/ /\ v
     /\ stateReq' = sr
     /\ diffReq' = IF dr = NoReq THEN Fresh(calls) ELSE dr
     /\ calls' = IF dr = NoReq THEN Send(cs, "diff", Common, p) ELSE cs

\* save(): nothing is written while the state is not valid.
SavedAs(v, p, q) == IF v THEN [pts |-> p, seq |-> q] ELSE saved

\* maybeSave(): only when the last write is 30 s old.
MaybeSave(v, p, q) == saved' \in {saved, SavedAs(v, p, q)}

(***************************************************************************)
(* enqueueChannel(c), on a queue that is q: a channel already polled or    *)
(* waiting is left alone, otherwise it waits and the queue is pumped.      *)
(***************************************************************************)
EnqueueChannel(c) ==
  IF c \in InFlight \cup Queued
  THEN queue' = queue /\ pc' = "loop"
  ELSE queue' = Append(queue, c) /\ pc' = "pump"

\* A handler that drains for ever.
EnterDrainForEver(held, cont) ==
  /\ pc' = IF held = NothingHeld THEN cont ELSE "drain"
  /\ after' = IF held = NothingHeld THEN "loop" ELSE "drain"

\* drainPending() returns at once on an empty queue, before it looks at the
\* timer; cont is what the handler does next.
EnterDrain(held, cont) ==
  /\ pc' = IF held = NothingHeld THEN cont ELSE "drain"
  /\ after' = IF held = NothingHeld THEN "loop" ELSE cont

\* dropPending(c): the timer stops with the last item.
DropPending(c) ==
  /\ pending' = [pending EXCEPT ![c] = <<>>]
  /\ timer' = (timer /\ pending' # NothingHeld)

ClearPending == pending' = NothingHeld /\ timer' = FALSE

-----------------------------------------------------------------------------
(***************************************************************************)
(* History.  Delivered is what emitOne() and dispatchUpdate() hand to the  *)
(* models.  A channel without a position adopts the first update it is     *)
(* given: nothing before that update is owed.                              *)
(***************************************************************************)
Delivered(s, us) == [seen EXCEPT ![s] = @ \cup us]

Raise(f, s, p) == [f EXCEPT ![s] = Larger(@, p)]

Adopt(s, p) == Raise(floor, s, p)

EmitOne(s, p, n) ==
  /\ seen' = IF n > 0 THEN Delivered(s, {p}) ELSE seen
  /\ floor' = IF pts[s] = 0 /\ s # Common THEN Adopt(s, p - n) ELSE floor
  /\ UNCHANGED lapse

\* The updates of sequence s a difference from a to b enumerates.
Enumerated(s, a, b) == {e.pts : e \in {x \in log[s] : a < x.pts /\ x.pts <= b}}

-----------------------------------------------------------------------------
(***************************************************************************)
(* The server.  It logs an update, of this account's making or not, and    *)
(* may put it into the next numbered container.                            *)
(***************************************************************************)
Produce(s, n, boxed) ==
  LET p == srv[s] + n IN
  /\ n > 0 /\ p <= MaxPts[s]
  /\ boxed => Len(box) < MaxSeq
  /\ srv' = [srv EXCEPT ![s] = p]
  /\ log' = [log EXCEPT ![s] = @ \cup {[pts |-> p, count |-> n, own |-> FALSE]}]
  /\ box' = IF boxed THEN Append(box, <<[seq |-> s, pts |-> p, count |-> n]>>)
            ELSE box
  /\ UNCHANGED <<link, position, requests, polls, affected, hash, parked,
                 saved, control, history>>

\* What may be pushed in sequence s: the logged updates of others, and
\* updates with pts_count 0, which carry the position they were made at.
Pushable(s) ==
  {[seq |-> s, pts |-> e.pts, count |-> e.count] : e \in {x \in log[s] : ~x.own}}
  \cup IF 0 \in Counts
       THEN {[seq |-> s, pts |-> p, count |-> 0] :
               p \in {Base} \cup {e.pts : e \in log[s]}}
       ELSE {}

-----------------------------------------------------------------------------
(***************************************************************************)
(* Connection and process.  initialized() only acts on an authorized       *)
(* client, and handleDisconnected() has always cleared that flag by the    *)
(* time it is called: recovery starts in authorized().                     *)
(***************************************************************************)
Connected ==
  /\ Idle /\ link = "down"
  /\ link' = "up"
  /\ UNCHANGED <<server, position, requests, polls, affected, hash, parked,
                 saved, control, history>>

Authorized ==
  /\ Idle /\ link = "up" /\ CanSend
  /\ link' = "auth"
  /\ RequestDifference(valid, pts[Common], stateReq, diffReq, calls)
  /\ UNCHANGED <<server, position, polls, affected, hash, parked, saved,
                 control, history>>

\* Replies the server never saw acknowledged come again on the next
\* connection; at most MaxStale of them are kept.
Survivors(cs) == {kept \in SUBSET cs : Cardinality(kept) <= MaxStale}

Disconnected ==
  /\ Idle /\ link # "down" /\ "disconnect" \in Faults
  /\ link' = "down"
  /\ stateReq' = NoReq /\ diffReq' = NoReq /\ chanReq' = {}
  /\ calls' \in Survivors(calls)
  /\ saved' = SavedAs(valid, pts, seq)
  /\ UNCHANGED <<server, position, queue, affected, hash, parked, control,
                 history>>

\* The process ends without notice and a new one loads the ini.
Restart ==
  /\ "restart" \in Faults
  /\ link' = "down"
  /\ calls' \in Survivors(calls)
  /\ pts' = saved.pts /\ seq' = saved.seq /\ valid' = (saved.pts[Common] # 0)
  /\ stateReq' = NoReq /\ diffReq' = NoReq /\ chanReq' = {} /\ affected' = {}
  /\ queue' = <<>> /\ hash' = {} /\ pending' = NothingHeld /\ timer' = FALSE
  /\ pc' = "loop" /\ todo' = <<>> /\ after' = "loop"
  /\ seen' = [s \in Seqs |-> {}] /\ floor' = saved.pts
  /\ lapse' = NoPosition
  /\ UNCHANGED <<server, saved>>

-----------------------------------------------------------------------------
(***************************************************************************)
(* processUpdates().  rememberChats() comes first in every case.           *)
(***************************************************************************)
Receiving == Idle /\ link # "down"

\* updateShort, the three short message forms, and a container without a
\* sequence number: the update goes through applyOne.
ReceiveUpdate(u, chats) ==
  /\ Receiving
  /\ u \in Pushable(u.seq)
  /\ hash' = hash \cup chats
  /\ todo' = <<u>>
  /\ UNCHANGED <<server, link, position, requests, polls, affected, parked,
                 saved, pc, after, history>>

\* updates and updatesCombined with a sequence number: containers i to j.
\* advanceSeq comes before the updates are looked at.
ReceiveContainer(i, j, chats) ==
  LET verdict == CheckSeq(seq, IF i = j THEN 0 ELSE i, j) IN
  /\ Receiving /\ CanSend
  /\ i \in DOMAIN box /\ j \in DOMAIN box /\ i <= j /\ j <= i + 1
  /\ hash' = hash \cup chats
  /\ \/ /\ verdict = "duplicate"
        /\ UNCHANGED <<requests, seq, todo>>
     \/ /\ verdict = "gap"
        /\ RequestDifference(valid, pts[Common], stateReq, diffReq, calls)
        /\ UNCHANGED <<seq, todo>>
     \/ /\ verdict = "apply"
        /\ seq' = Larger(seq, j)
        /\ todo' = IF i = j THEN box[i] ELSE box[i] \o box[j]
        /\ UNCHANGED requests
  /\ UNCHANGED <<server, link, valid, pts, polls, affected, parked, saved, pc,
                 after, history>>

ReceiveTooLong ==
  /\ Receiving /\ CanSend /\ "toolong" \in Faults
  /\ RequestDifference(valid, pts[Common], stateReq, diffReq, calls)
  /\ UNCHANGED <<server, link, position, polls, affected, hash, parked, saved,
                 control, history>>

\* updateChannelTooLong is answered before its pts is looked at.
ReceiveChannelTooLong(c) ==
  /\ Receiving /\ "toolong" \in Faults
  /\ DropPending(c)
  /\ EnqueueChannel(c)
  /\ UNCHANGED <<server, link, position, requests, chanReq, affected, hash,
                 saved, todo, after, history>>

-----------------------------------------------------------------------------
(***************************************************************************)
(* applyOne() on the head of todo, one action per verdict.                 *)
(***************************************************************************)
Verdict(s, u) == Check(pts[s], u.pts, u.count)

Applying(u) == pc = "loop" /\ todo # <<>> /\ u = Head(todo)

\* park(): a full queue is dropped with the update that did not fit.
Full == Cardinality(Held) >= MaxPending

Parked(u) ==
  IF Full THEN NothingHeld
  ELSE [pending EXCEPT ![u.seq] = Append(@, [pts |-> u.pts, count |-> u.count])]

ParkWithoutTimer(u) == pending' = Parked(u) /\ timer' = timer

Park(u) == pending' = Parked(u) /\ timer' = (timer \/ ~Full)

\* No position yet: hold the update and ask for one.
HoldUnseeded(u) ==
  /\ Applying(u) /\ CanSend
  /\ ~valid
  /\ Park(u)
  /\ RequestState(stateReq, calls)
  /\ todo' = Tail(todo)
  /\ UNCHANGED <<server, link, position, diffReq, polls, affected, hash, saved,
                 pc, after, history>>

ApplyNext(u) ==
  /\ Applying(u)
  /\ valid /\ Verdict(u.seq, u) = "apply"
  /\ pts' = AdvanceTo(pts, u.seq, u.pts)
  /\ EmitOne(u.seq, u.pts, u.count)
  /\ MaybeSave(valid, pts', seq)
  /\ todo' = Tail(todo)
  /\ EnterDrain(pending, "loop")
  /\ UNCHANGED <<server, link, valid, seq, requests, polls, affected, hash,
                 parked>>

DropDuplicate(u) ==
  /\ Applying(u)
  /\ valid /\ Verdict(u.seq, u) = "duplicate"
  /\ todo' = Tail(todo)
  /\ UNCHANGED <<server, link, position, requests, polls, affected, hash,
                 parked, saved, pc, after, history>>

\* The update in front of u is missing.  A full queue asks for the common
\* difference, whatever sequence the dropped updates belong to.
ParkGap(u) ==
  /\ Applying(u) /\ CanSend
  /\ valid /\ Verdict(u.seq, u) = "gap"
  /\ Park(u)
  /\ IF Full \/ u.seq = Common
     THEN RequestDifference(valid, pts[Common], stateReq, diffReq, calls)
     ELSE UNCHANGED requests
  /\ IF u.seq = Common
     THEN UNCHANGED <<queue, pc>>
     ELSE EnqueueChannel(u.seq)
  /\ todo' = Tail(todo)
  /\ UNCHANGED <<server, link, position, chanReq, affected, hash, saved, after,
                 history>>

-----------------------------------------------------------------------------
(***************************************************************************)
(* drainPending().  Passes over the queue repeat until one takes nothing;  *)
(* the first item that is no gap is taken.  (The pass goes on behind the   *)
(* taken item before it starts over, where the order differs from this one *)
(* only for updates with pts_count 0, which no position depends on.)       *)
(***************************************************************************)
Ready(s) == {i \in DOMAIN pending[s] : Verdict(s, pending[s][i]) # "gap"}

TakenNext(s, i) == i \in Ready(s) /\ \A k \in Ready(s) : i <= k

Without(q, i) ==
  [k \in 1 .. (Len(q) - 1) |-> IF k < i THEN q[k] ELSE q[k + 1]]

\* A drain that ends with the first update it applies.
DrainApplyOnce(s, i) ==
  LET u == pending[s][i] IN
  /\ pc = "drain" /\ TakenNext(s, i)
  /\ Verdict(s, u) = "apply"
  /\ pts' = AdvanceTo(pts, s, u.pts)
  /\ EmitOne(s, u.pts, u.count)
  /\ pending' = [pending EXCEPT ![s] = Without(@, i)]
  /\ pc' = after /\ after' = "loop"
  /\ UNCHANGED <<server, link, valid, seq, requests, polls, affected, hash,
                 timer, saved, todo>>

DrainApply(s, i) ==
  LET u == pending[s][i] IN
  /\ pc = "drain" /\ TakenNext(s, i)
  /\ Verdict(s, u) = "apply"
  /\ pts' = AdvanceTo(pts, s, u.pts)
  /\ EmitOne(s, u.pts, u.count)
  /\ pending' = [pending EXCEPT ![s] = Without(@, i)]
  /\ UNCHANGED <<server, link, valid, seq, requests, polls, affected, hash,
                 timer, saved, control>>

DrainDrop(s, i) ==
  /\ pc = "drain" /\ TakenNext(s, i)
  /\ Verdict(s, pending[s][i]) = "duplicate"
  /\ pending' = [pending EXCEPT ![s] = Without(@, i)]
  /\ UNCHANGED <<server, link, position, requests, polls, affected, hash,
                 timer, saved, control, history>>

DrainDone ==
  /\ pc = "drain" /\ \A s \in Seqs : Ready(s) = {}
  /\ timer' = (timer /\ pending # NothingHeld)
  /\ pc' = after /\ after' = "loop"
  /\ UNCHANGED <<server, link, position, requests, polls, affected, hash,
                 pending, saved, todo, history>>

(***************************************************************************)
(* pumpChannelQueue(), one requestChannelDifference() a step.  A channel   *)
(* whose access hash is unknown leaves the queue without being polled.     *)
(***************************************************************************)
PumpOverCap ==
  /\ pc = "pump" /\ queue # <<>> /\ Cardinality(chanReq) <= MaxChannelPolls
  /\ Head(queue) \in hash /\ CanSend
  /\ chanReq' = chanReq \cup {[id |-> Fresh(calls), ch |-> Head(queue)]}
  /\ calls' = Send(calls, "chan", Head(queue), pts[Head(queue)])
  /\ queue' = Tail(queue)
  /\ UNCHANGED <<server, link, position, stateReq, diffReq, affected, hash,
                 parked, saved, control, history>>

PumpSend ==
  /\ pc = "pump" /\ queue # <<>> /\ Cardinality(chanReq) < MaxChannelPolls
  /\ Head(queue) \in hash /\ CanSend
  /\ chanReq' = chanReq \cup {[id |-> Fresh(calls), ch |-> Head(queue)]}
  /\ calls' = Send(calls, "chan", Head(queue), pts[Head(queue)])
  /\ queue' = Tail(queue)
  /\ UNCHANGED <<server, link, position, stateReq, diffReq, affected, hash,
                 parked, saved, control, history>>

PumpSkip ==
  /\ pc = "pump" /\ queue # <<>> /\ Cardinality(chanReq) < MaxChannelPolls
  /\ Head(queue) \notin hash
  /\ queue' = Tail(queue)
  /\ UNCHANGED <<server, link, position, requests, chanReq, affected, hash,
                 parked, saved, control, history>>

PumpDone ==
  /\ pc = "pump"
  /\ queue = <<>> \/ Cardinality(chanReq) >= MaxChannelPolls
  /\ pc' = "loop"
  /\ UNCHANGED <<server, link, position, requests, polls, affected, hash,
                 parked, saved, todo, after, history>>

(***************************************************************************)
(* timerEvent() and expirePending().  The tick is counted before the ages  *)
(* are compared, so every parked item is at least one tick old and all of  *)
(* them go, the one parked a moment ago included.  A tick on an empty      *)
(* queue does nothing.                                                     *)
(***************************************************************************)
GapTimer ==
  /\ Idle /\ timer /\ pending # NothingHeld /\ CanSend
  /\ ClearPending
  /\ RequestDifference(valid, pts[Common], stateReq, diffReq, calls)
  /\ UNCHANGED <<server, link, position, polls, affected, hash, saved, control,
                 history>>

-----------------------------------------------------------------------------
(***************************************************************************)
(* Replies.  Boundaries are the positions a state of the server can name.  *)
(***************************************************************************)
Boundaries(s) == {Base} \cup {e.pts : e \in log[s]}
Answers(c) == {p \in Boundaries(c.seq) : p >= c.lo}
SeqAnswers(c) == c.sq .. Len(box)

Reply(c, kind) == Idle /\ link # "down" /\ c \in calls /\ c.kind = kind

\* Which request a reply is matched to.
Expected(c) ==
  \/ c.kind = "state" /\ c.id = stateReq
  \/ c.kind = "diff" /\ c.id = diffReq
  \/ c.kind = "chan" /\ \E r \in chanReq : r.id = c.id
  \/ c.kind = "affect" /\ \E a \in affected : a.id = c.id

\* staleReply(), and handleAffected() on an id it does not know.
StaleReply(c) ==
  /\ Idle /\ link # "down" /\ c \in calls
  /\ ~Expected(c)
  /\ calls' = calls \ {c}
  /\ UNCHANGED <<server, link, position, stateReq, diffReq, polls, affected,
                 hash, parked, saved, control, history>>

\* handleState(): the first position is where the models start from; a later
\* one skips what lies between, and nothing tells the models.
HandleState(c, p, q) ==
  /\ Reply(c, "state") /\ c.id = stateReq
  /\ p \in Answers(c) /\ q \in SeqAnswers(c)
  /\ stateReq' = NoReq /\ calls' = calls \ {c}
  /\ valid' = TRUE /\ pts' = SetTo(pts, Common, p) /\ seq' = q
  /\ saved' = SavedAs(TRUE, pts', seq')
  /\ IF floor[Common] = 0
     THEN floor' = Adopt(Common, p) /\ UNCHANGED lapse
     ELSE lapse' = Raise(lapse, Common, p) /\ UNCHANGED floor
  /\ EnterDrain(pending, "loop")
  /\ UNCHANGED <<server, link, diffReq, polls, affected, hash, parked, todo,
                 seen>>

\* updates.differenceEmpty
DifferenceEmpty(c, q) ==
  /\ Reply(c, "diff") /\ c.id = diffReq
  /\ c.lo <= c.from /\ q \in SeqAnswers(c)
  /\ diffReq' = NoReq /\ calls' = calls \ {c}
  /\ seq' = Larger(seq, q)
  /\ EnterDrain(pending, "loop")
  /\ UNCHANGED <<server, link, valid, pts, stateReq, polls, affected, hash,
                 parked, saved, todo, history>>

\* Among a difference's other_updates may be updates of channels, at most one
\* here; its counter is recorded without check().
NoCarry == [seq |-> Common, pts |-> 0, count |-> 0]

Carriable ==
  {NoCarry} \cup
  IF "carried" \in Faults
  THEN UNION {{[seq |-> c, pts |-> e.pts, count |-> e.count] : e \in log[c]}
                : c \in Channels}
  ELSE {}

CarriedHistory(u, fetched) ==
  /\ seen' = [s \in Seqs |-> seen[s] \cup (IF s = Common THEN fetched ELSE {})
                             \cup (IF s = u.seq THEN {u.pts} \ {0} ELSE {})]
  /\ floor' = IF pts[u.seq] = 0 /\ u.seq # Common
              THEN Adopt(u.seq, u.pts - u.count) ELSE floor
  /\ lapse' = IF pts[u.seq] # 0 /\ u.pts - u.count > pts[u.seq]
              THEN Raise(lapse, u.seq, u.pts - u.count)
              ELSE lapse

\* The position is taken and the body is not dispatched.
DifferenceBodyLost(c, p, q, carry, chats) ==
  /\ Reply(c, "diff") /\ c.id = diffReq
  /\ p \in Boundaries(Common) /\ p > c.from /\ q \in SeqAnswers(c)
  /\ carry = NoCarry
  /\ diffReq' = NoReq /\ calls' = calls \ {c}
  /\ hash' = hash \cup chats
  /\ valid' = TRUE /\ seq' = q
  /\ pts' = SetTo(pts, Common, p)
  /\ saved' = SavedAs(TRUE, pts', seq')
  /\ UNCHANGED <<server, link, stateReq, polls, affected, parked, todo, history>>

\* updates.difference and updates.differenceSlice: applyDifferenceBody
\* dispatches everything enumerated, then reset() takes the new position
\* whatever the local one is by now.
DifferenceBody(c, p, q, carry, chats) ==
  /\ Reply(c, "diff") /\ c.id = diffReq
  /\ p \in Boundaries(Common) /\ p >= c.from /\ q \in SeqAnswers(c)
  /\ carry \in Carriable
  /\ p > c.from \/ carry # NoCarry
  /\ diffReq' = NoReq /\ calls' = calls \ {c}
  /\ hash' = hash \cup chats
  /\ valid' = TRUE /\ seq' = q
  /\ pts' = SetTo(AdvanceTo(pts, carry.seq, carry.pts), Common, p)
  /\ saved' = SavedAs(TRUE, pts', seq')
  /\ CarriedHistory(carry, Enumerated(Common, c.from, p))
  /\ UNCHANGED <<server, link, stateReq, polls, affected, parked, todo>>

\* The last part brings the client to the server's position.
DifferenceFinal(c, p, q, carry, chats) ==
  /\ DifferenceBody(c, p, q, carry, chats)
  /\ p >= c.lo
  /\ EnterDrain(pending, "loop")

DifferenceSliceStop(c, p, q, chats) ==
  /\ DifferenceBody(c, p, q, NoCarry, chats)
  /\ p < srv[Common]
  /\ EnterDrain(pending, "loop")

\* A slice is followed by the next request, once the queue is drained.
DifferenceSlice(c, p, q, chats) ==
  /\ DifferenceBody(c, p, q, NoCarry, chats)
  /\ p < srv[Common]
  /\ EnterDrain(pending, "slice")

NextSlice ==
  /\ pc = "slice" /\ CanSend
  /\ RequestDifference(valid, pts[Common], stateReq, diffReq, calls)
  /\ pc' = "loop"
  /\ UNCHANGED <<server, link, position, polls, affected, hash, parked, saved,
                 todo, after, history>>

\* The position jumps and no updatesReset() is emitted.
DifferenceTooLongSilent(c, p) ==
  /\ Reply(c, "diff") /\ c.id = diffReq /\ "toolong" \in Faults
  /\ p \in Answers(c) /\ p > c.from
  /\ diffReq' = NoReq /\ calls' = calls \ {c}
  /\ ClearPending
  /\ valid' = TRUE /\ pts' = ClearChannels(SetTo(pts, Common, p))
  /\ queue' = <<>>
  /\ saved' = SavedAs(TRUE, pts', seq)
  /\ UNCHANGED <<server, link, seq, stateReq, chanReq, affected, hash, control,
                 history>>

\* updates.differenceTooLong: the models are told to reload.
DifferenceTooLong(c, p) ==
  /\ Reply(c, "diff") /\ c.id = diffReq /\ "toolong" \in Faults
  /\ p \in Answers(c) /\ p > c.from
  /\ diffReq' = NoReq /\ calls' = calls \ {c}
  /\ ClearPending
  /\ valid' = TRUE /\ pts' = ClearChannels(SetTo(pts, Common, p))
  /\ queue' = <<>>
  /\ saved' = SavedAs(TRUE, pts', seq)
  /\ floor' = Adopt(Common, p)
  /\ UNCHANGED <<server, link, seq, stateReq, chanReq, affected, hash, control,
                 seen, lapse>>

\* A difference that decodes to nothing: ask where the sequence is.
DifferenceUndecoded(c) ==
  /\ Reply(c, "diff") /\ c.id = diffReq /\ "decode" \in Faults /\ CanSend
  /\ diffReq' = NoReq
  /\ RequestState(stateReq, calls \ {c})
  /\ UNCHANGED <<server, link, position, polls, affected, hash, parked, saved,
                 control, history>>

\* A state that decodes to nothing is dropped.
StateUndecoded(c) ==
  /\ Reply(c, "state") /\ c.id = stateReq /\ "decode" \in Faults
  /\ stateReq' = NoReq /\ calls' = calls \ {c}
  /\ UNCHANGED <<server, link, position, diffReq, polls, affected, hash,
                 parked, saved, control, history>>

-----------------------------------------------------------------------------
(***************************************************************************)
(* handleChannelDifference(): the slot is released first; save, drain and  *)
(* pump come last whatever the constructor was.                            *)
(***************************************************************************)
ChannelReply(c) ==
  /\ Reply(c, "chan")
  /\ [id |-> c.id, ch |-> c.seq] \in chanReq
  /\ chanReq' = chanReq \ {[id |-> c.id, ch |-> c.seq]}
  /\ calls' = calls \ {c}

ChannelDone ==
  /\ saved' = SavedAs(valid, pts', seq)
  /\ UNCHANGED <<server, link, valid, seq, stateReq, diffReq, affected, todo>>

ChannelEmpty(c) ==
  /\ ChannelReply(c)
  /\ c.lo <= c.from
  /\ pts' = SetTo(pts, c.seq, c.from)
  /\ EnterDrain(pending, "pump")
  /\ ChannelDone
  /\ UNCHANGED <<queue, hash, parked, history>>

\* A part that is not the last ends the catch-up.
ChannelDifferenceStop(c, p, final, chats) ==
  /\ ChannelReply(c)
  /\ p \in Boundaries(c.seq) /\ p > c.from
  /\ IF final THEN p >= c.lo ELSE p < srv[c.seq]
  /\ hash' = hash \cup chats
  /\ pts' = SetTo(pts, c.seq, p)
  /\ seen' = Delivered(c.seq, Enumerated(c.seq, c.from, p))
  /\ queue' = queue
  /\ EnterDrain(pending, "pump")
  /\ ChannelDone
  /\ UNCHANGED <<parked, floor, lapse>>

\* final absent: the channel goes back to the end of the queue.
ChannelDifference(c, p, final, chats) ==
  /\ ChannelReply(c)
  /\ p \in Boundaries(c.seq) /\ p > c.from
  /\ IF final THEN p >= c.lo ELSE p < srv[c.seq]
  /\ hash' = hash \cup chats
  /\ pts' = SetTo(pts, c.seq, p)
  /\ seen' = Delivered(c.seq, Enumerated(c.seq, c.from, p))
  /\ queue' = IF final THEN queue ELSE Append(queue, c.seq)
  /\ EnterDrain(pending, "pump")
  /\ ChannelDone
  /\ UNCHANGED <<parked, floor, lapse>>

\* The position jumps and the model of the channel is not told.
ChannelTooLongSilent(c, p, chats) ==
  /\ ChannelReply(c) /\ "toolong" \in Faults
  /\ p \in Answers(c) /\ p > c.from
  /\ hash' = hash \cup chats
  /\ pts' = SetTo(pts, c.seq, p)
  /\ DropPending(c.seq)
  /\ EnterDrain(pending', "pump")
  /\ ChannelDone
  /\ UNCHANGED <<queue, history>>

\* The window it carries is not replayed; the model of the channel reloads.
ChannelTooLong(c, p, chats) ==
  /\ ChannelReply(c) /\ "toolong" \in Faults
  /\ p \in Answers(c) /\ p > c.from
  /\ hash' = hash \cup chats
  /\ pts' = SetTo(pts, c.seq, p)
  /\ floor' = Adopt(c.seq, p)
  /\ DropPending(c.seq)
  /\ EnterDrain(pending', "pump")
  /\ ChannelDone
  /\ UNCHANGED <<queue, seen, lapse>>

ChannelUndecoded(c) ==
  /\ ChannelReply(c) /\ "polldecode" \in Faults
  /\ pc' = "pump"
  /\ UNCHANGED <<server, link, position, stateReq, diffReq, queue, affected,
                 hash, parked, saved, todo, after, history>>

-----------------------------------------------------------------------------
(***************************************************************************)
(* A change this client makes: the server logs it and answers with its     *)
(* pts; it pushes nothing.  expectAffected() records the sequence.         *)
(***************************************************************************)
RequestChange(s, n) ==
  LET p == srv[s] + n IN
  /\ Idle /\ link = "auth" /\ CanSend /\ "affected" \in Faults
  /\ n > 0 /\ p <= MaxPts[s]
  /\ srv' = [srv EXCEPT ![s] = p]
  /\ log' = [log EXCEPT ![s] = @ \cup {[pts |-> p, count |-> n, own |-> TRUE]}]
  /\ calls' = calls \cup {[id |-> Fresh(calls), kind |-> "affect", seq |-> s,
                           from |-> srv[s], lo |-> p, sq |-> Len(box)]}
  /\ affected' = affected \cup {[id |-> Fresh(calls), seq |-> s]}
  /\ UNCHANGED <<box, link, position, stateReq, diffReq, polls, hash, parked,
                 saved, control, history>>

\* handleAffected(): judged like a push, whether the state is valid or not.
HandleAffected(c) ==
  LET a == CHOOSE x \in affected : x.id = c.id
      verdict == Check(pts[a.seq], c.lo, c.lo - c.from)
  IN
  /\ Reply(c, "affect") /\ CanSend
  /\ \E x \in affected : x.id = c.id
  /\ affected' = affected \ {a}
  /\ \/ /\ verdict = "apply"
        /\ pts' = AdvanceTo(pts, a.seq, c.lo)
        /\ MaybeSave(valid, pts', seq)
        /\ seen' = Delivered(a.seq, {c.lo})
        /\ floor' = IF pts[a.seq] = 0 /\ a.seq # Common
                    THEN Adopt(a.seq, c.from) ELSE floor
        /\ EnterDrain(pending, "loop")
        /\ calls' = calls \ {c}
        /\ UNCHANGED <<stateReq, diffReq, queue>>
     \/ /\ verdict = "duplicate"
        /\ calls' = calls \ {c}
        /\ UNCHANGED <<stateReq, diffReq, queue, pts, saved, pc, after,
                       seen, floor>>
     \/ /\ verdict = "gap"
        /\ IF a.seq = Common
           THEN /\ RequestDifference(valid, pts[Common], stateReq, diffReq,
                                     calls \ {c})
                /\ UNCHANGED <<queue, pc>>
           ELSE /\ EnqueueChannel(a.seq)
                /\ calls' = calls \ {c}
                /\ UNCHANGED <<stateReq, diffReq>>
        /\ UNCHANGED <<pts, saved, after, seen, floor>>
  /\ UNCHANGED <<server, link, valid, seq, chanReq, hash, parked, todo, lapse>>

-----------------------------------------------------------------------------
(***************************************************************************)
(* handleRpcError().  On FLOOD_WAIT the transport reports the error and    *)
(* sends the request again later, so the reply still comes.                *)
(***************************************************************************)
Errored(c) ==
  \/ "rpc" \in Faults /\ calls' = calls \ {c}
  \/ "flood" \in Faults /\ calls' = calls
     /\ Cardinality({x \in calls : ~Expected(x)}) < MaxStale

StateError(c) ==
  /\ Reply(c, "state") /\ c.id = stateReq
  /\ Errored(c)
  /\ stateReq' = NoReq
  /\ UNCHANGED <<server, link, position, diffReq, polls, affected, hash,
                 parked, saved, control, history>>

DifferenceError(c) ==
  /\ Reply(c, "diff") /\ c.id = diffReq
  /\ Errored(c)
  /\ diffReq' = NoReq
  /\ UNCHANGED <<server, link, position, stateReq, polls, affected, hash,
                 parked, saved, control, history>>

\* PERSISTENT_TIMESTAMP_*: the position is thrown away.
DifferenceRejected(c) ==
  /\ Reply(c, "diff") /\ c.id = diffReq /\ "timestamp" \in Faults /\ CanSend
  /\ diffReq' = NoReq
  /\ valid' = FALSE /\ pts' = NoPosition /\ seq' = 0
  /\ ClearPending
  /\ RequestState(stateReq, calls \ {c})
  /\ UNCHANGED <<server, link, polls, affected, hash, saved, control, history>>

ChannelError(c) ==
  /\ Reply(c, "chan") /\ [id |-> c.id, ch |-> c.seq] \in chanReq
  /\ Errored(c)
  /\ chanReq' = chanReq \ {[id |-> c.id, ch |-> c.seq]}
  /\ pc' = "pump"
  /\ UNCHANGED <<server, link, position, stateReq, diffReq, queue, affected,
                 hash, parked, saved, todo, after, history>>

\* CHANNEL_PRIVATE, CHANNEL_INVALID: the channel is forgotten.
ChannelUnreachable(c) ==
  /\ ChannelReply(c) /\ "private" \in Faults
  /\ pts' = SetTo(pts, c.seq, 0)
  /\ hash' = hash \ {c.seq}
  /\ DropPending(c.seq)
  /\ pc' = "pump"
  /\ UNCHANGED <<server, link, valid, seq, stateReq, diffReq, queue, affected,
                 saved, todo, after, history>>

\* A rename that leaves the channel polls out.
MessageChangedPartly(c) ==
  LET new == Fresh(calls) IN
  /\ Idle /\ link # "down" /\ CanSend /\ "rename" \in Faults
  /\ c \in calls /\ Expected(c)
  /\ calls' = (calls \ {c}) \cup {[c EXCEPT !.id = new]}
  /\ stateReq' = IF stateReq = c.id THEN new ELSE stateReq
  /\ diffReq' = IF diffReq = c.id THEN new ELSE diffReq
  /\ UNCHANGED <<server, link, position, polls, affected, hash, parked, saved,
                 control, history>>

\* messageChanged(): the transport sent a request again under a new id.
\* _affectedChannel keeps the old one.
MessageChanged(c) ==
  LET new == Fresh(calls) IN
  /\ Idle /\ link # "down" /\ CanSend /\ "rename" \in Faults
  /\ c \in calls /\ Expected(c)
  /\ calls' = (calls \ {c}) \cup {[c EXCEPT !.id = new]}
  /\ stateReq' = IF stateReq = c.id THEN new ELSE stateReq
  /\ diffReq' = IF diffReq = c.id THEN new ELSE diffReq
  /\ chanReq' = {[id |-> IF r.id = c.id THEN new ELSE r.id, ch |-> r.ch] :
                   r \in chanReq}
  /\ UNCHANGED <<server, link, position, queue, affected, hash, parked, saved,
                 control, history>>

-----------------------------------------------------------------------------
Init ==
  /\ srv = [s \in Seqs |-> Base] /\ log = [s \in Seqs |-> {}] /\ box = <<>>
  /\ link = "down" /\ calls = {}
  /\ \E p, q \in Stored :
       saved = [pts |-> [s \in Seqs |-> IF s = Common THEN p ELSE q], seq |-> 0]
  /\ pts = saved.pts /\ seq = saved.seq /\ valid = (saved.pts[Common] # 0)
  /\ stateReq = NoReq /\ diffReq = NoReq /\ chanReq = {} /\ affected = {}
  /\ queue = <<>> /\ hash = {} /\ pending = NothingHeld /\ timer = FALSE
  /\ pc = "loop" /\ todo = <<>> /\ after = "loop"
  /\ seen = [s \in Seqs |-> {}] /\ floor = saved.pts /\ lapse = NoPosition

Serve ==
  \E s \in Seqs, n \in Counts :
    \/ \E boxed \in BOOLEAN : Produce(s, n, boxed)
    \/ RequestChange(s, n)

Receive ==
  \/ \E s \in Seqs, chats \in Chats : \E u \in Pushable(s) : ReceiveUpdate(u, chats)
  \/ \E i, j \in DOMAIN box, chats \in Chats : ReceiveContainer(i, j, chats)
  \/ ReceiveTooLong
  \/ \E c \in Channels : ReceiveChannelTooLong(c)

Loop ==
  \/ \E u \in {Head(todo) : x \in {1} \cap DOMAIN todo} :
       HoldUnseeded(u) \/ ApplyNext(u) \/ DropDuplicate(u) \/ ParkGap(u)
  \/ \E s \in Seqs : \E i \in DOMAIN pending[s] : DrainApply(s, i) \/ DrainDrop(s, i)
  \/ DrainDone \/ PumpSend \/ PumpSkip \/ PumpDone \/ NextSlice

Handle(c) ==
  \/ StaleReply(c)
  \/ \E p \in Boundaries(Common), q \in 0 .. Len(box) : HandleState(c, p, q)
  \/ \E q \in 0 .. Len(box) : DifferenceEmpty(c, q)
  \/ \E p \in Boundaries(Common), q \in 0 .. Len(box), chats \in Chats :
       \/ \E carry \in Carriable : DifferenceFinal(c, p, q, carry, chats)
       \/ DifferenceSlice(c, p, q, chats)
  \/ \E p \in Boundaries(Common) : DifferenceTooLong(c, p)
  \/ ChannelEmpty(c)
  \/ \E p \in Boundaries(c.seq), chats \in Chats :
       \/ \E final \in BOOLEAN : ChannelDifference(c, p, final, chats)
       \/ ChannelTooLong(c, p, chats)
  \/ HandleAffected(c)

Fail(c) ==
  \/ StateUndecoded(c) \/ DifferenceUndecoded(c) \/ ChannelUndecoded(c)
  \/ StateError(c) \/ DifferenceError(c) \/ DifferenceRejected(c)
  \/ ChannelError(c) \/ ChannelUnreachable(c)

Next ==
  \/ Serve \/ Receive \/ Loop \/ GapTimer
  \/ \E c \in calls : Handle(c) \/ Fail(c) \/ MessageChanged(c)
  \/ Connected \/ Authorized \/ Disconnected \/ Restart

Spec == Init /\ [][Next]_vars

(***************************************************************************)
(* Fairness.  The event loop runs a handler it has begun to its end.  A    *)
(* running QBasicTimer fires and a reply that is in the socket is read,    *)
(* however many pushes the loop serves in between: both are disabled while *)
(* a handler runs, so their fairness is strong.  While the socket is up    *)
(* the server answers.                                                     *)
(***************************************************************************)
Fairness ==
  /\ WF_vars(Loop)
  /\ SF_vars(GapTimer)
  /\ SF_vars(\E c \in calls : c.kind = "diff" /\ Handle(c))
  /\ \A ch \in Channels :
       SF_vars(\E c \in calls : c.kind = "chan" /\ c.seq = ch /\ Handle(c))

FairSpec == Spec /\ Fairness
=============================================================================
