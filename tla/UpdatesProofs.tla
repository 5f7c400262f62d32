--------------------------- MODULE UpdatesProofs ---------------------------
(***************************************************************************)
(* Types and safety of the update pipeline, for every set of channels, ids *)
(* and counts, every bound and every subset of the faults.                 *)
(*                                                                         *)
(* The inductive invariant.  Continuity alone is not inductive.  A         *)
(* difference is added to the position it was asked from, so that position *)
(* must stay covered for as long as its reply can be matched; and an       *)
(* update that is applied covers exactly one position, so what is in the   *)
(* container, in the parked queue or in an affected reply must be an       *)
(* update of the log, and the log's updates must not overlap.              *)
(***************************************************************************)
EXTENDS UpdatesProperties, TLAPS

LogConsistent ==
  \A s \in Seqs :
    /\ srv[s] >= Base
    /\ \A e \in log[s] :
         /\ e.count > 0 /\ e.pts <= srv[s] /\ e.pts - e.count >= Base
         /\ \A f \in log[s] : f.pts - f.count < e.pts /\ e.pts <= f.pts => e = f

\* An update with these counters exists in a log lg, the position being at.
Exists(at, lg, p, n) ==
  IF n = 0 THEN p <= at ELSE \E e \in lg : e.pts = p /\ e.count = n

Genuine(s, p, n) == Exists(srv[s], log[s], p, n)

BoxGenuine ==
  \A k \in DOMAIN box : \A i \in DOMAIN box[k] :
    Genuine(box[k][i].seq, box[k][i].pts, box[k][i].count)

TodoGenuine ==
  \A i \in DOMAIN todo : Genuine(todo[i].seq, todo[i].pts, todo[i].count)

PendingGenuine ==
  \A s \in Seqs : \A i \in DOMAIN pending[s] :
    Genuine(s, pending[s][i].pts, pending[s][i].count)

ItemsGenuine == BoxGenuine /\ TodoGenuine /\ PendingGenuine

\* A valid state has a position, and only a valid one asks for a difference.
Seeded ==
  /\ valid => pts[Common] > 0
  /\ diffReq # NoReq => valid

\* Every position a reply that will be matched continues from is covered, and
\* the reply to a change names an update of the sequence it was asked for.
MatchedCovered ==
  \A c \in calls :
    /\ c.kind \in {"state", "diff"} => c.seq = Common
    /\ c.kind = "diff" /\ c.id = diffReq
         => c.from <= srv[Common] /\ Covered(Common, Owed(Common), c.from)
    /\ c.kind = "chan" /\ [id |-> c.id, ch |-> c.seq] \in chanReq
         => c.from <= srv[c.seq] /\ Covered(c.seq, Owed(c.seq), c.from)

ChangesGenuine ==
  \A c \in calls : c.kind = "affect" =>
    /\ c.from < c.lo /\ Genuine(c.seq, c.lo, c.lo - c.from)
    /\ \A a \in affected : a.id = c.id => a.seq = c.seq

Bounded == NeverAhead /\ saved.seq <= Len(box)

Ground == TypeOK /\ LogConsistent /\ ItemsGenuine /\ ChangesGenuine /\ Seeded

IInv == Ground /\ MatchedCovered /\ Bounded /\ Continuity /\ SavedIsDelivered


-----------------------------------------------------------------------------
(***************************************************************************)
(* What the helpers return.                                                *)
(***************************************************************************)
\* Larger() of a position and any counter is a position, no less than either.
LEMMA LargerFact ==
  ASSUME NEW a \in Nat, NEW b \in Int
  PROVE  Larger(a, b) \in Nat /\ Larger(a, b) >= a /\ Larger(a, b) >= b
BY DEF Larger

\* TgUpdatesState's setters keep a function of positions.
LEMMA SettersType ==
  ASSUME NEW f \in [Seqs -> Nat], NEW s \in Seqs, NEW p \in Nat
  PROVE  /\ AdvanceTo(f, s, p) \in [Seqs -> Nat]
         /\ SetTo(f, s, p) \in [Seqs -> Nat]
         /\ ClearChannels(f) \in [Seqs -> Nat]
         /\ NoPosition \in [Seqs -> Nat]
<1>1. Common \in Seqs
  BY DEF Seqs
<1>2. Larger(f[s], p) \in Nat
  BY SMTT(40), LargerFact
<1>. QED
  BY <1>1, <1>2 DEF AdvanceTo, SetTo, ClearChannels, NoPosition

\* getNewMessageId() returns an id that is nowhere in use.
LEMMA FreshFact ==
  ASSUME CanSend
  PROVE  Fresh(calls) \in Ids /\ Fresh(calls) \notin Used(calls)
BY DEF CanSend, Fresh

\* What Send adds to the requests outstanding is a request.
LEMMA SendType ==
  ASSUME TypeOK, CanSend, NEW cs \in SUBSET Call, NEW kind \in Kinds,
         NEW s \in Seqs, NEW from \in Nat
  PROVE  Send(cs, kind, s, from) \in SUBSET Call
BY FreshFact DEF Send, Call, TypeOK

\* requestState() leaves ids and requests typed.
LEMMA RequestStateType ==
  ASSUME TypeOK, CanSend, NEW sr \in Ids \cup {NoReq}, NEW cs \in SUBSET Call,
         RequestState(sr, cs)
  PROVE  stateReq' \in Ids \cup {NoReq} /\ calls' \in SUBSET Call
BY SendType, FreshFact DEF RequestState, Kinds, Seqs

\* requestDifference() does, on either of its paths.
LEMMA RequestDifferenceType ==
  ASSUME TypeOK, CanSend, NEW v, NEW p \in Nat, NEW sr \in Ids \cup {NoReq},
         NEW dr \in Ids \cup {NoReq}, NEW cs \in SUBSET Call,
         RequestDifference(v, p, sr, dr, cs)
  PROVE  /\ stateReq' \in Ids \cup {NoReq} /\ diffReq' \in Ids \cup {NoReq}
         /\ calls' \in SUBSET Call
BY RequestStateType, SendType, FreshFact DEF RequestDifference, Kinds, Seqs

\* drainPending() leaves for a known continuation.
LEMMA EnterDrainType ==
  ASSUME NEW held, NEW cont \in {"loop", "pump", "slice"}, EnterDrain(held, cont)
  PROVE  pc' \in {"loop", "drain", "pump", "slice"} /\ after' \in {"loop", "pump", "slice"}
BY DEF EnterDrain

\* enqueueChannel() keeps the queue one of channels.
LEMMA EnqueueType ==
  ASSUME TypeOK, NEW c \in Channels, EnqueueChannel(c)
  PROVE  queue' \in Seq(Channels) /\ pc' \in {"loop", "pump"}
<1>1. queue \in Seq(Channels) /\ Append(queue, c) \in Seq(Channels)
  BY DEF TypeOK
<1>. QED
  BY <1>1 DEF EnqueueChannel

\* park() keeps the queue one of items, full or not.
LEMMA ParkType ==
  ASSUME TypeOK, NEW u \in Update, Park(u)
  PROVE  pending' \in [Seqs -> Seq(Item)] /\ timer' \in BOOLEAN
<1>1. [pts |-> u.pts, count |-> u.count] \in Item /\ u.seq \in Seqs
  BY DEF Update, Item
<1>2. NothingHeld \in [Seqs -> Seq(Item)]
  BY DEF NothingHeld
<1>3. Parked(u) \in [Seqs -> Seq(Item)]
  BY <1>1, <1>2 DEF Parked, TypeOK
<1>4. timer' \in BOOLEAN
  BY Zenon DEF Park, TypeOK
<1>. QED
  BY <1>3, <1>4 DEF Park

\* dropPending() keeps the queue typed.
LEMMA DropPendingType ==
  ASSUME TypeOK, NEW c \in Seqs, DropPending(c)
  PROVE  pending' \in [Seqs -> Seq(Item)] /\ timer' \in BOOLEAN
<1>1. timer' \in BOOLEAN
  BY Zenon DEF DropPending, TypeOK
<1>2. [pending EXCEPT ![c] = <<>>] \in [Seqs -> Seq(Item)]
  BY DEF TypeOK
<1>. QED
  BY <1>1, <1>2 DEF DropPending

\* clearPending() does.
LEMMA ClearPendingType ==
  ASSUME ClearPending
  PROVE  pending' \in [Seqs -> Seq(Item)] /\ timer' \in BOOLEAN
<1>1. NothingHeld \in [Seqs -> Seq(Item)]
  BY DEF NothingHeld
<1>. QED
  BY <1>1 DEF ClearPending

\* What save() writes can be loaded.
LEMMA SavedType ==
  ASSUME TypeOK, NEW v, NEW p \in [Seqs -> Nat], NEW q \in Nat
  PROVE  SavedAs(v, p, q) \in [pts : [Seqs -> Nat], seq : Nat]
BY DEF SavedAs, TypeOK

\* emitOne() dispatches a position.
LEMMA EmitOneType ==
  ASSUME TypeOK, NEW s \in Seqs, NEW p \in Nat, NEW n \in Nat, EmitOne(s, p, n)
  PROVE  /\ seen' \in [Seqs -> SUBSET Nat] /\ floor' \in [Seqs -> Nat]
         /\ lapse' \in [Seqs -> Nat]
<1>1. p - n \in Int /\ floor[s] \in Nat
  BY DEF TypeOK
<1>2. Larger(floor[s], p - n) \in Nat
  BY <1>1, LargerFact
<1>. QED
  BY <1>2 DEF EmitOne, Adopt, Raise, Delivered, TypeOK

\* Removing an element of a sequence leaves a sequence.
LEMMA WithoutType ==
  ASSUME NEW S, NEW q \in Seq(S), NEW i \in DOMAIN q
  PROVE  /\ Without(q, i) \in Seq(S) /\ Len(Without(q, i)) = Len(q) - 1
         /\ \A k \in DOMAIN Without(q, i) :
              Without(q, i)[k] = IF k < i THEN q[k] ELSE q[k + 1]
<1>1. Len(q) \in Nat /\ i \in 1 .. Len(q) /\ DOMAIN q = 1 .. Len(q)
  OBVIOUS
<1>2. Len(q) - 1 \in Nat
  BY <1>1
<1>3. \A k \in 1 .. (Len(q) - 1) : (IF k < i THEN q[k] ELSE q[k + 1]) \in S
  BY <1>1
<1>. QED
  BY <1>1, <1>2, <1>3 DEF Without

\* What the server pushes is an update.
LEMMA PushableType ==
  ASSUME TypeOK, NEW s \in Seqs, NEW u \in Pushable(s)
  PROVE  u \in Update /\ u.seq = s
BY SMTT(30) DEF Pushable, TypeOK, Update, Event, Base

\* What the server names is a position.
LEMMA BoundariesType ==
  ASSUME TypeOK, NEW s \in Seqs
  PROVE  Boundaries(s) \in SUBSET Nat
BY DEF Boundaries, TypeOK, Event, Base

-----------------------------------------------------------------------------
(***************************************************************************)
(* Type correctness.                                                       *)
(***************************************************************************)
LEMMA ServerTypes ==
  ASSUME TypeOK, NEW s \in Seqs, NEW n \in Counts
  PROVE  /\ (\E boxed \in BOOLEAN : Produce(s, n, boxed)) => TypeOK'
         /\ RequestChange(s, n) => TypeOK'
<1>0. n \in Nat
  BY ConstantsAssumption
<1>1. ASSUME NEW own \in BOOLEAN,
             srv' = [srv EXCEPT ![s] = srv[s] + n],
             log' = [log EXCEPT ![s] = @ \cup
                       {[pts |-> srv[s] + n, count |-> n, own |-> own]}]
      PROVE  srv' \in [Seqs -> Nat] /\ log' \in [Seqs -> SUBSET Event]
  <2>1. srv[s] + n \in Nat
    BY <1>0 DEF TypeOK
  <2>2. [pts |-> srv[s] + n, count |-> n, own |-> own] \in Event
    BY <1>0, <2>1 DEF Event
  <2>. QED
    BY <1>1, <2>1, <2>2 DEF TypeOK
<1>2. ASSUME NEW boxed \in BOOLEAN, Produce(s, n, boxed)
      PROVE  TypeOK'
  <2>1. srv' \in [Seqs -> Nat] /\ log' \in [Seqs -> SUBSET Event]
    BY <1>1, <1>2 DEF Produce
  <2>2. <<[seq |-> s, pts |-> srv[s] + n, count |-> n]>> \in Seq(Update)
    BY <1>0 DEF TypeOK, Update
  <2>3. box' \in Seq(Seq(Update))
    BY <1>2, <2>2 DEF Produce, TypeOK
  <2>. QED
    BY SMTT(30), <1>2, <2>1, <2>3 DEF TypeOK, Produce, position, requests, polls, parked,
       control, history
<1>3. ASSUME RequestChange(s, n)
      PROVE  TypeOK'
  <2>1. srv' \in [Seqs -> Nat] /\ log' \in [Seqs -> SUBSET Event]
    BY <1>1, <1>3 DEF RequestChange
  <2>2. Fresh(calls) \in Ids
    BY <1>3, FreshFact DEF RequestChange
  <2>3. [id |-> Fresh(calls), kind |-> "affect", seq |-> s, from |-> srv[s],
         lo |-> srv[s] + n, sq |-> Len(box)] \in Call
    BY <1>0, <2>2 DEF Call, Kinds, TypeOK
  <2>4. calls' \in SUBSET Call /\ affected' \in SUBSET [id : Ids, seq : Seqs]
    BY SMTT(30), <1>3, <2>2, <2>3 DEF RequestChange, TypeOK
  <2>. QED
    BY <1>3, <2>1, <2>4 DEF TypeOK, RequestChange, position, polls, parked,
       control, history
<1>. QED
  BY <1>2, <1>3

\* Connecting, authorizing, disconnecting and restarting.
LEMMA ConnectionTypes ==
  ASSUME TypeOK, Connected \/ Authorized \/ Disconnected \/ Restart
  PROVE  TypeOK'
<1>. USE DEF server, position, requests, polls, parked, control, history
<1>0. \A cs \in Survivors(calls) : cs \in SUBSET Call
  BY DEF Survivors, TypeOK
<1>1. CASE Connected
  BY <1>1 DEF Connected, TypeOK
<1>2. CASE Authorized
  <2>1. pts[Common] \in Nat
    BY DEF TypeOK, Seqs
  <2>2. /\ stateReq' \in Ids \cup {NoReq} /\ diffReq' \in Ids \cup {NoReq}
        /\ calls' \in SUBSET Call
    BY <1>2, <2>1, RequestDifferenceType DEF Authorized, TypeOK
  <2>. QED
    BY <1>2, <2>2 DEF Authorized, TypeOK
<1>3. CASE Disconnected
  <2>1. saved' \in [pts : [Seqs -> Nat], seq : Nat]
    BY <1>3, SavedType DEF Disconnected, TypeOK
  <2>2. calls' \in SUBSET Call
    BY <1>0, <1>3 DEF Disconnected
  <2>. QED
    BY <1>3, <2>1, <2>2 DEF Disconnected, TypeOK
<1>4. CASE Restart
  <2>1. calls' \in SUBSET Call
    BY <1>0, <1>4 DEF Restart
  <2>2. NoPosition \in [Seqs -> Nat] /\ NothingHeld \in [Seqs -> Seq(Item)]
    BY DEF NoPosition, NothingHeld
  <2>3. /\ pts' \in [Seqs -> Nat] /\ seq' \in Nat /\ floor' \in [Seqs -> Nat]
        /\ valid' \in BOOLEAN
    BY <1>4 DEF Restart, TypeOK
  <2>4. /\ seen' \in [Seqs -> SUBSET Nat] /\ queue' \in Seq(Channels)
        /\ todo' \in Seq(Update) /\ pending' \in [Seqs -> Seq(Item)]
    BY <1>4, <2>2 DEF Restart
  <2>5. /\ link' \in {"down", "up", "auth"} /\ timer' \in BOOLEAN
        /\ pc' \in {"loop", "drain", "pump", "slice"}
        /\ after' \in {"loop", "pump", "slice"}
        /\ stateReq' \in Ids \cup {NoReq} /\ diffReq' \in Ids \cup {NoReq}
    BY <1>4 DEF Restart
  <2>6. /\ chanReq' \in SUBSET [id : Ids, ch : Channels]
        /\ affected' \in SUBSET [id : Ids, seq : Seqs]
        /\ hash' \in SUBSET Channels /\ lapse' \in [Seqs -> Nat]
    BY <1>4, <2>2 DEF Restart
  <2>. QED
    BY <1>4, <2>1, <2>3, <2>4, <2>5, <2>6 DEF Restart, TypeOK
<1>. QED
  BY <1>1, <1>2, <1>3, <1>4

\* processUpdates().
LEMMA ReceiveTypes ==
  ASSUME TypeOK, Receive
  PROVE  TypeOK'
<1>. USE DEF server, position, requests, polls, parked, control, history
<1>0. pts[Common] \in Nat
  BY DEF TypeOK, Seqs
<1>1. ASSUME NEW s \in Seqs, NEW chats \in Chats, NEW u \in Pushable(s),
             ReceiveUpdate(u, chats)
      PROVE  TypeOK'
  <2>1. u \in Update
    BY PushableType
  <2>2. todo' \in Seq(Update) /\ hash' \in SUBSET Channels
    BY <1>1, <2>1, ConstantsAssumption DEF ReceiveUpdate, TypeOK
  <2>. QED
    BY ZenonT(40), <1>1, <2>2 DEF ReceiveUpdate, TypeOK
<1>2. ASSUME NEW i \in DOMAIN box, NEW j \in DOMAIN box,
             NEW chats \in Chats, ReceiveContainer(i, j, chats)
      PROVE  TypeOK'
  <2>1. /\ stateReq' \in Ids \cup {NoReq} /\ diffReq' \in Ids \cup {NoReq}
        /\ calls' \in SUBSET Call
    BY <1>0, <1>2, RequestDifferenceType DEF ReceiveContainer, TypeOK
  <2>2. j \in Nat /\ box[i] \in Seq(Update) /\ box[j] \in Seq(Update)
    BY DEF TypeOK
  <2>3. seq' \in Nat
    <3>1. seq \in Nat
      BY DEF TypeOK
    <3>2. Larger(seq, j) \in Nat
      BY <2>2, <3>1 DEF Larger
    <3>. QED
      BY <1>2, <3>1, <3>2 DEF ReceiveContainer
  <2>4. box[i] \o box[j] \in Seq(Update)
    BY <2>2
  <2>5. todo' \in Seq(Update)
    BY <1>2, <2>2, <2>4 DEF ReceiveContainer, TypeOK
  <2>6. hash' \in SUBSET Channels
    BY <1>2, ConstantsAssumption DEF ReceiveContainer, TypeOK
  <2>. QED
    BY <1>2, <2>1, <2>3, <2>5, <2>6 DEF ReceiveContainer, TypeOK
<1>3. ASSUME ReceiveTooLong
      PROVE  TypeOK'
  <2>1. /\ stateReq' \in Ids \cup {NoReq} /\ diffReq' \in Ids \cup {NoReq}
        /\ calls' \in SUBSET Call
    BY <1>0, <1>3, RequestDifferenceType DEF ReceiveTooLong, TypeOK
  <2>. QED
    BY <1>3, <2>1 DEF ReceiveTooLong, TypeOK
<1>4. ASSUME NEW c \in Channels, ReceiveChannelTooLong(c)
      PROVE  TypeOK'
  <2>1. c \in Seqs
    BY DEF Seqs
  <2>2. pending' \in [Seqs -> Seq(Item)] /\ timer' \in BOOLEAN
    BY <1>4, <2>1, DropPendingType DEF ReceiveChannelTooLong
  <2>3. queue' \in Seq(Channels) /\ pc' \in {"loop", "pump"}
    BY <1>4, EnqueueType DEF ReceiveChannelTooLong
  <2>. QED
    BY <1>4, <2>2, <2>3 DEF ReceiveChannelTooLong, TypeOK
<1>. QED
  BY <1>1, <1>2, <1>3, <1>4 DEF Receive

\* applyOne().
LEMMA ApplyTypes ==
  ASSUME TypeOK, NEW u, HoldUnseeded(u) \/ ApplyNext(u) \/ DropDuplicate(u) \/ ParkGap(u)
  PROVE  TypeOK'
<1>. USE DEF server, position, requests, polls, parked, control, history
<1>0. Applying(u)
  BY DEF HoldUnseeded, ApplyNext, DropDuplicate, ParkGap
<1>1. u \in Update /\ Tail(todo) \in Seq(Update)
  BY <1>0 DEF Applying, TypeOK
<1>2. u.seq \in Seqs /\ u.pts \in Nat /\ u.count \in Nat /\ pts[Common] \in Nat
  BY <1>1 DEF Update, TypeOK, Seqs
<1>3. CASE HoldUnseeded(u)
  <2>1. pending' \in [Seqs -> Seq(Item)] /\ timer' \in BOOLEAN
    BY <1>1, <1>3, ParkType DEF HoldUnseeded
  <2>2. stateReq' \in Ids \cup {NoReq} /\ calls' \in SUBSET Call
    BY <1>3, RequestStateType DEF HoldUnseeded, TypeOK
  <2>. QED
    BY <1>1, <1>3, <2>1, <2>2 DEF HoldUnseeded, TypeOK
<1>4. CASE ApplyNext(u)
  <2>1. pts' \in [Seqs -> Nat]
    BY <1>2, <1>4, SettersType DEF ApplyNext, TypeOK
  <2>2. /\ seen' \in [Seqs -> SUBSET Nat] /\ floor' \in [Seqs -> Nat]
        /\ lapse' \in [Seqs -> Nat]
    BY <1>2, <1>4, EmitOneType DEF ApplyNext
  <2>3. saved' \in [pts : [Seqs -> Nat], seq : Nat]
    <3>1. seq \in Nat /\ saved \in [pts : [Seqs -> Nat], seq : Nat]
      BY DEF TypeOK
    <3>2. SavedAs(valid, pts', seq) \in [pts : [Seqs -> Nat], seq : Nat]
      BY <2>1, <3>1, SavedType
    <3>. QED
      BY <1>4, <3>1, <3>2 DEF ApplyNext, MaybeSave
  <2>4. /\ pc' \in {"loop", "drain", "pump", "slice"}
        /\ after' \in {"loop", "pump", "slice"}
    BY <1>4, EnterDrainType DEF ApplyNext
  <2>. QED
    BY <1>1, <1>4, <2>1, <2>2, <2>3, <2>4 DEF ApplyNext, TypeOK
<1>5. CASE DropDuplicate(u)
  BY <1>1, <1>5 DEF DropDuplicate, TypeOK
<1>6. CASE ParkGap(u)
  <2>1. pending' \in [Seqs -> Seq(Item)] /\ timer' \in BOOLEAN
    BY <1>1, <1>6, ParkType DEF ParkGap
  <2>2. /\ stateReq' \in Ids \cup {NoReq} /\ diffReq' \in Ids \cup {NoReq}
        /\ calls' \in SUBSET Call
    BY <1>2, <1>6, RequestDifferenceType DEF ParkGap, TypeOK
  <2>3. queue' \in Seq(Channels) /\ pc' \in {"loop", "drain", "pump", "slice"}
    <3>1. u.seq # Common => u.seq \in Channels
      BY <1>2 DEF Seqs
    <3>. QED
      BY <1>6, <3>1, EnqueueType DEF ParkGap, TypeOK
  <2>. QED
    BY <1>1, <1>6, <2>1, <2>2, <2>3 DEF ParkGap, TypeOK
<1>. QED
  BY <1>3, <1>4, <1>5, <1>6

\* drainPending().
LEMMA DrainTypes ==
  ASSUME TypeOK, NEW s \in Seqs, NEW i \in DOMAIN pending[s],
         DrainApply(s, i) \/ DrainDrop(s, i)
  PROVE  TypeOK'
<1>. USE DEF server, position, requests, polls, parked, control, history
<1>1. pending[s] \in Seq(Item) /\ pending[s][i] \in Item
  BY DEF TypeOK
<1>2. pending[s][i].pts \in Nat /\ pending[s][i].count \in Nat
  BY <1>1 DEF Item
<1>3. [pending EXCEPT ![s] = Without(@, i)] \in [Seqs -> Seq(Item)]
  BY <1>1, WithoutType DEF TypeOK
<1>4. CASE DrainApply(s, i)
  <2>1. pts' \in [Seqs -> Nat]
    BY <1>2, <1>4, SettersType DEF DrainApply, TypeOK
  <2>2. /\ seen' \in [Seqs -> SUBSET Nat] /\ floor' \in [Seqs -> Nat]
        /\ lapse' \in [Seqs -> Nat]
    BY <1>2, <1>4, EmitOneType DEF DrainApply
  <2>. QED
    BY <1>3, <1>4, <2>1, <2>2 DEF DrainApply, TypeOK
<1>5. CASE DrainDrop(s, i)
  BY <1>3, <1>5 DEF DrainDrop, TypeOK
<1>. QED
  BY <1>4, <1>5

\* pumpChannelQueue() and the slice that follows a slice.
LEMMA PumpTypes ==
  ASSUME TypeOK,
         DrainDone \/ PumpSend \/ PumpSkip \/ PumpDone \/ NextSlice \/ GapTimer
  PROVE  TypeOK'
<1>. USE DEF server, position, requests, polls, parked, control, history
<1>0. pts[Common] \in Nat
  BY DEF TypeOK, Seqs
<1>1. CASE DrainDone
  <2>1. timer' \in BOOLEAN
    BY <1>1, Zenon DEF DrainDone, TypeOK
  <2>. QED
    BY <1>1, <2>1 DEF DrainDone, TypeOK
<1>2. CASE PumpSend
  <2>1. Head(queue) \in Channels /\ Tail(queue) \in Seq(Channels)
    BY <1>2 DEF PumpSend, TypeOK
  <2>2. Head(queue) \in Seqs /\ pts[Head(queue)] \in Nat
    BY <2>1 DEF Seqs, TypeOK
  <2>3. calls' \in SUBSET Call
    BY <1>2, <2>2, SendType DEF PumpSend, TypeOK, Kinds
  <2>4. chanReq' \in SUBSET [id : Ids, ch : Channels]
    BY <1>2, <2>1, FreshFact DEF PumpSend, TypeOK
  <2>. QED
    BY <1>2, <2>1, <2>3, <2>4 DEF PumpSend, TypeOK
<1>3. CASE PumpSkip
  <2>1. Tail(queue) \in Seq(Channels)
    BY <1>3 DEF PumpSkip, TypeOK
  <2>. QED
    BY <1>3, <2>1 DEF PumpSkip, TypeOK
<1>4. CASE PumpDone
  BY <1>4 DEF PumpDone, TypeOK
<1>5. CASE NextSlice
  <2>1. /\ stateReq' \in Ids \cup {NoReq} /\ diffReq' \in Ids \cup {NoReq}
        /\ calls' \in SUBSET Call
    BY <1>0, <1>5, RequestDifferenceType DEF NextSlice, TypeOK
  <2>. QED
    BY <1>5, <2>1 DEF NextSlice, TypeOK
<1>6. CASE GapTimer
  <2>1. pending' \in [Seqs -> Seq(Item)] /\ timer' \in BOOLEAN
    BY <1>6, ClearPendingType DEF GapTimer
  <2>2. /\ stateReq' \in Ids \cup {NoReq} /\ diffReq' \in Ids \cup {NoReq}
        /\ calls' \in SUBSET Call
    BY <1>0, <1>6, RequestDifferenceType DEF GapTimer, TypeOK
  <2>. QED
    BY <1>6, <2>1, <2>2 DEF GapTimer, TypeOK
<1>. QED
  BY <1>1, <1>2, <1>3, <1>4, <1>5, <1>6

\* handleState() and handleDifference().
LEMMA CommonReplyTypes ==
  ASSUME TypeOK, NEW c \in calls, NEW p \in Boundaries(Common),
         NEW q \in 0 .. Len(box), NEW chats \in SUBSET Channels,
         NEW carry \in Carriable,
         \/ HandleState(c, p, q) \/ DifferenceEmpty(c, q)
         \/ DifferenceFinal(c, p, q, carry, chats)
         \/ DifferenceSlice(c, p, q, chats) \/ DifferenceTooLong(c, p)
  PROVE  TypeOK'
<1>. USE DEF server, position, requests, polls, parked, control, history
<1>0. Common \in Seqs /\ NoCarry \in Carriable
  BY DEF Seqs, Carriable
<1>1. /\ p \in Nat /\ q \in Nat /\ calls \ {c} \in SUBSET Call
      /\ chats \in SUBSET Channels
  <2>1. p \in Nat
    BY <1>0, BoundariesType
  <2>2. q \in Nat /\ calls \ {c} \in SUBSET Call
    BY DEF TypeOK
  <2>. QED
    BY <2>1, <2>2
<1>2. SetTo(pts, Common, p) \in [Seqs -> Nat]
  BY <1>0, <1>1, SettersType DEF TypeOK
<1>3. Larger(floor[Common], p) \in Nat /\ Larger(lapse[Common], p) \in Nat
      /\ Larger(seq, q) \in Nat
  <2>1. floor[Common] \in Nat /\ lapse[Common] \in Nat /\ seq \in Nat
    BY <1>0 DEF TypeOK
  <2>. QED
    BY <1>1, <2>1 DEF Larger
<1>4. CASE HandleState(c, p, q)
  <2>1. pts' \in [Seqs -> Nat] /\ seq' \in Nat
    BY <1>1, <1>2, <1>4 DEF HandleState
  <2>2. saved' \in [pts : [Seqs -> Nat], seq : Nat]
    BY <1>4, <2>1, SavedType DEF HandleState
  <2>3. floor' \in [Seqs -> Nat] /\ lapse' \in [Seqs -> Nat]
    BY ZenonT(40), <1>3, <1>4 DEF HandleState, Adopt, Raise, TypeOK
  <2>4. /\ pc' \in {"loop", "drain", "pump", "slice"}
        /\ after' \in {"loop", "pump", "slice"}
    BY <1>4, EnterDrainType DEF HandleState
  <2>. QED
    BY <1>1, <1>4, <2>1, <2>2, <2>3, <2>4 DEF HandleState, TypeOK
<1>5. CASE DifferenceEmpty(c, q)
  <2>1. /\ pc' \in {"loop", "drain", "pump", "slice"}
        /\ after' \in {"loop", "pump", "slice"}
    BY <1>5, EnterDrainType DEF DifferenceEmpty
  <2>. QED
    BY <1>1, <1>3, <1>5, <2>1 DEF DifferenceEmpty, TypeOK
<1>6. ASSUME NEW u \in Carriable, DifferenceBody(c, p, q, u, chats),
             EnterDrain(pending, "loop") \/ EnterDrain(pending, "slice")
      PROVE  TypeOK'
  <2>1. u.seq \in Seqs /\ u.pts \in Nat /\ u.count \in Nat
    BY <1>0 DEF Carriable, NoCarry, TypeOK, Event, Seqs
  <2>2. pts' \in [Seqs -> Nat]
    <3>1. AdvanceTo(pts, u.seq, u.pts) \in [Seqs -> Nat]
      BY <2>1, SettersType DEF TypeOK
    <3>. QED
      BY <1>0, <1>1, <1>6, <3>1, SettersType DEF DifferenceBody
  <2>3. seq' \in Nat /\ saved' \in [pts : [Seqs -> Nat], seq : Nat]
    BY <1>1, <1>6, <2>2, SavedType DEF DifferenceBody
  <2>4. floor' \in [Seqs -> Nat] /\ lapse' \in [Seqs -> Nat]
    <3>1. u.pts - u.count \in Int /\ floor[u.seq] \in Nat /\ lapse[u.seq] \in Nat
      BY SMTT(30), <2>1 DEF TypeOK
    <3>2. /\ Larger(floor[u.seq], u.pts - u.count) \in Nat
          /\ Larger(lapse[u.seq], u.pts - u.count) \in Nat
      BY <3>1, LargerFact
    <3>. QED
      BY <1>6, <2>1, <3>2 DEF DifferenceBody, CarriedHistory, Adopt,
         Raise, TypeOK
  <2>5. seen' \in [Seqs -> SUBSET Nat]
    <3>1. Enumerated(Common, c.from, p) \in SUBSET Nat
      BY <1>0 DEF Enumerated, TypeOK, Event
    <3>. QED
      BY <1>6, <2>1, <3>1 DEF DifferenceBody, CarriedHistory, TypeOK
  <2>6. /\ pc' \in {"loop", "drain", "pump", "slice"}
        /\ after' \in {"loop", "pump", "slice"}
    BY <1>6, EnterDrainType
  <2>. QED
    BY <1>1, <1>6, <2>2, <2>3, <2>4, <2>5, <2>6 DEF DifferenceBody, TypeOK
<1>7. CASE DifferenceFinal(c, p, q, carry, chats)
  BY <1>6, <1>7 DEF DifferenceFinal
<1>8. CASE DifferenceSlice(c, p, q, chats)
  BY <1>0, <1>6, <1>8 DEF DifferenceSlice
<1>9. CASE DifferenceTooLong(c, p)
  <2>1. pts' \in [Seqs -> Nat]
    BY <1>0, <1>2, <1>9, SettersType DEF DifferenceTooLong
  <2>2. saved' \in [pts : [Seqs -> Nat], seq : Nat]
    BY <1>9, <2>1, SavedType DEF DifferenceTooLong, TypeOK
  <2>3. floor' \in [Seqs -> Nat]
    BY <1>0, <1>3, <1>9 DEF DifferenceTooLong, Adopt, Raise, TypeOK
  <2>4. pending' \in [Seqs -> Seq(Item)] /\ timer' \in BOOLEAN
    BY <1>9, ClearPendingType DEF DifferenceTooLong
  <2>5. queue' \in Seq(Channels) /\ valid' \in BOOLEAN
        /\ diffReq' \in Ids \cup {NoReq} /\ calls' \in SUBSET Call
    BY <1>1, <1>9 DEF DifferenceTooLong
  <2>. QED
    BY <1>9, <2>1, <2>2, <2>3, <2>4, <2>5 DEF DifferenceTooLong, TypeOK
<1>. QED
  BY <1>4, <1>5, <1>7, <1>8, <1>9

\* handleChannelDifference().
LEMMA ChannelReplyTypes ==
  ASSUME TypeOK, NEW c \in calls, NEW p \in Boundaries(c.seq),
         NEW chats \in SUBSET Channels,
         \/ ChannelEmpty(c) \/ ChannelTooLong(c, p, chats)
         \/ \E final \in BOOLEAN : ChannelDifference(c, p, final, chats)
  PROVE  TypeOK'
<1>. USE DEF server, position, requests, polls, parked, control, history
<1>1. c \in Call /\ calls \ {c} \in SUBSET Call
  BY DEF TypeOK
<1>2. ChannelReply(c)
  BY DEF ChannelEmpty, ChannelTooLong, ChannelDifference
<1>3. c.seq \in Channels /\ c.seq \in Seqs /\ c.from \in Nat
  BY <1>1, <1>2 DEF ChannelReply, TypeOK, Call
<1>4. p \in Nat
  BY <1>3, BoundariesType
<1>5. /\ SetTo(pts, c.seq, p) \in [Seqs -> Nat]
      /\ SetTo(pts, c.seq, c.from) \in [Seqs -> Nat]
  BY <1>3, <1>4, SettersType DEF TypeOK
<1>6. pts' \in [Seqs -> Nat]
  BY <1>5 DEF ChannelEmpty, ChannelTooLong, ChannelDifference
<1>7. ChannelDone
  BY DEF ChannelEmpty, ChannelTooLong, ChannelDifference
<1>8. saved' \in [pts : [Seqs -> Nat], seq : Nat]
  BY <1>6, <1>7, SavedType DEF ChannelDone, TypeOK
<1>9. /\ pc' \in {"loop", "drain", "pump", "slice"}
      /\ after' \in {"loop", "pump", "slice"}
  BY EnterDrainType DEF ChannelEmpty, ChannelTooLong, ChannelDifference
<1>10. /\ calls' \in SUBSET Call
       /\ chanReq' \in SUBSET [id : Ids, ch : Channels]
  BY <1>1, <1>2 DEF ChannelReply, TypeOK
<1>11. CASE ChannelEmpty(c)
  BY <1>6, <1>7, <1>8, <1>9, <1>10, <1>11 DEF ChannelEmpty, ChannelDone, TypeOK
<1>12. CASE ChannelTooLong(c, p, chats)
  <2>1. pending' \in [Seqs -> Seq(Item)] /\ timer' \in BOOLEAN
    BY <1>3, <1>12, DropPendingType DEF ChannelTooLong
  <2>2. Larger(floor[c.seq], p) \in Nat
    BY <1>3, <1>4 DEF TypeOK, Larger
  <2>3. floor' \in [Seqs -> Nat] /\ hash' \in SUBSET Channels
    BY <1>1, <1>12, <2>2 DEF ChannelTooLong, Adopt, Raise, TypeOK
  <2>. QED
    BY <1>6, <1>7, <1>8, <1>9, <1>10, <1>12, <2>1, <2>3
    DEF ChannelTooLong, ChannelDone, TypeOK
<1>13. ASSUME NEW final \in BOOLEAN, ChannelDifference(c, p, final, chats)
       PROVE  TypeOK'
  <2>1. Enumerated(c.seq, c.from, p) \in SUBSET Nat
    BY <1>3 DEF Enumerated, TypeOK, Event
  <2>2. seen' \in [Seqs -> SUBSET Nat] /\ hash' \in SUBSET Channels
    BY <1>1, <1>3, <1>13, <2>1 DEF ChannelDifference, Delivered, TypeOK
  <2>3. queue' \in Seq(Channels)
    <3>1. queue \in Seq(Channels) /\ Append(queue, c.seq) \in Seq(Channels)
      BY <1>3 DEF TypeOK
    <3>. QED
      BY <1>13, <3>1 DEF ChannelDifference
  <2>. QED
    BY <1>6, <1>7, <1>8, <1>9, <1>10, <1>13, <2>2, <2>3
    DEF ChannelDifference, ChannelDone, TypeOK
<1>. QED
  BY <1>11, <1>12, <1>13

\* handleAffected().
LEMMA AffectedTypes ==
  ASSUME TypeOK, NEW c \in calls, HandleAffected(c)
  PROVE  TypeOK'
<1>. USE DEF server, position, requests, polls, parked, control, history
<1>1. PICK a : a = CHOOSE x \in affected : x.id = c.id
  OBVIOUS
<1>2. a \in affected
  BY <1>1 DEF HandleAffected
<1>3. /\ a.seq \in Seqs /\ c.lo \in Nat /\ c.from \in Nat
      /\ calls \ {c} \in SUBSET Call /\ pts[Common] \in Nat
  BY <1>2 DEF TypeOK, Call, Seqs
<1>4. affected' \in SUBSET [id : Ids, seq : Seqs]
  BY <1>1 DEF HandleAffected, TypeOK
<1>5. CASE Check(pts[a.seq], c.lo, c.lo - c.from) = "apply"
  <2>1. /\ pts' = AdvanceTo(pts, a.seq, c.lo) /\ MaybeSave(valid, pts', seq)
        /\ seen' = Delivered(a.seq, {c.lo})
        /\ floor' = (IF pts[a.seq] = 0 /\ a.seq # Common
                     THEN Adopt(a.seq, c.from) ELSE floor)
        /\ EnterDrain(pending, "loop")
        /\ calls' = calls \ {c}
        /\ UNCHANGED <<stateReq, diffReq, queue>>
    BY <1>1, <1>5 DEF HandleAffected
  <2>2. pts' \in [Seqs -> Nat]
    BY <1>3, <2>1, SettersType DEF TypeOK
  <2>3. saved' \in [pts : [Seqs -> Nat], seq : Nat]
    <3>1. SavedAs(valid, pts', seq) \in [pts : [Seqs -> Nat], seq : Nat]
      BY <2>2, SavedType DEF TypeOK
    <3>. QED
      BY <2>1, <3>1 DEF MaybeSave, TypeOK
  <2>4. Larger(floor[a.seq], c.from) \in Nat
    BY <1>3 DEF Larger, TypeOK
  <2>5. seen' \in [Seqs -> SUBSET Nat] /\ floor' \in [Seqs -> Nat]
    BY <1>3, <2>1, <2>4 DEF Delivered, Adopt, Raise, TypeOK
  <2>6. /\ pc' \in {"loop", "drain", "pump", "slice"}
        /\ after' \in {"loop", "pump", "slice"}
    BY <2>1, EnterDrainType
  <2>. QED
    BY <1>3, <1>4, <2>1, <2>2, <2>3, <2>5, <2>6 DEF HandleAffected, TypeOK
<1>6. CASE Check(pts[a.seq], c.lo, c.lo - c.from) = "duplicate"
  BY <1>1, <1>3, <1>4, <1>6 DEF HandleAffected, TypeOK
<1>7. CASE Check(pts[a.seq], c.lo, c.lo - c.from) = "gap"
  <2>1. /\ IF a.seq = Common
           THEN /\ RequestDifference(valid, pts[Common], stateReq, diffReq,
                                     calls \ {c})
                /\ UNCHANGED <<queue, pc>>
           ELSE /\ EnqueueChannel(a.seq)
                /\ calls' = calls \ {c}
                /\ UNCHANGED <<stateReq, diffReq>>
        /\ UNCHANGED <<pts, saved, after, seen, floor>>
    BY <1>1, <1>7 DEF HandleAffected
  <2>2. /\ stateReq' \in Ids \cup {NoReq} /\ diffReq' \in Ids \cup {NoReq}
        /\ calls' \in SUBSET Call
    BY <1>3, <2>1, RequestDifferenceType DEF HandleAffected, TypeOK
  <2>3. queue' \in Seq(Channels) /\ pc' \in {"loop", "drain", "pump", "slice"}
    <3>1. a.seq # Common => a.seq \in Channels
      BY <1>3 DEF Seqs
    <3>. QED
      BY <2>1, <3>1, EnqueueType DEF TypeOK
  <2>. QED
    BY <1>4, <2>1, <2>2, <2>3 DEF HandleAffected, TypeOK
<1>. QED
  BY <1>1, <1>5, <1>6, <1>7 DEF HandleAffected

\* Errors, replies that do not decode, and renamed requests.
LEMMA FailTypes ==
  ASSUME TypeOK, NEW c \in calls, Fail(c) \/ StaleReply(c) \/ MessageChanged(c)
  PROVE  TypeOK'
<1>. USE DEF server, position, requests, polls, parked, control, history
<1>0. c \in Call /\ calls \ {c} \in SUBSET Call
  BY DEF TypeOK
<1>1. Errored(c) => calls' \in SUBSET Call
  BY <1>0 DEF Errored, TypeOK
<1>2. \A r \in chanReq : chanReq \ {r} \in SUBSET [id : Ids, ch : Channels]
  BY DEF TypeOK
<1>3. CASE StateUndecoded(c)
  BY <1>0, <1>3 DEF StateUndecoded, TypeOK
<1>4. CASE DifferenceUndecoded(c)
  <2>1. stateReq' \in Ids \cup {NoReq} /\ calls' \in SUBSET Call
    BY <1>0, <1>4, RequestStateType DEF DifferenceUndecoded, TypeOK
  <2>. QED
    BY <1>4, <2>1 DEF DifferenceUndecoded, TypeOK
<1>5. CASE ChannelUndecoded(c)
  BY <1>0, <1>2, <1>5 DEF ChannelUndecoded, ChannelReply, TypeOK
<1>6. CASE StateError(c)
  BY <1>1, <1>6 DEF StateError, TypeOK
<1>7. CASE DifferenceError(c)
  BY <1>1, <1>7 DEF DifferenceError, TypeOK
<1>8. CASE DifferenceRejected(c)
  <2>1. stateReq' \in Ids \cup {NoReq} /\ calls' \in SUBSET Call
    BY <1>0, <1>8, RequestStateType DEF DifferenceRejected, TypeOK
  <2>2. pending' \in [Seqs -> Seq(Item)] /\ timer' \in BOOLEAN
    BY <1>8, ClearPendingType DEF DifferenceRejected
  <2>3. pts' \in [Seqs -> Nat] /\ valid' \in BOOLEAN /\ seq' \in Nat
        /\ diffReq' \in Ids \cup {NoReq}
    BY <1>8 DEF DifferenceRejected, NoPosition
  <2>. QED
    BY <1>8, <2>1, <2>2, <2>3 DEF DifferenceRejected, TypeOK
<1>9. CASE ChannelError(c)
  BY <1>1, <1>2, <1>9 DEF ChannelError, TypeOK
<1>10. CASE ChannelUnreachable(c)
  <2>1. c.seq \in Seqs
    BY <1>0 DEF Call
  <2>2. pending' \in [Seqs -> Seq(Item)] /\ timer' \in BOOLEAN
    BY <1>10, <2>1, DropPendingType DEF ChannelUnreachable
  <2>3. pts' \in [Seqs -> Nat]
    BY <1>10, <2>1, SettersType DEF ChannelUnreachable, TypeOK
  <2>. QED
    BY <1>0, <1>2, <1>10, <2>2, <2>3 DEF ChannelUnreachable, ChannelReply, TypeOK
<1>11. CASE StaleReply(c)
  BY <1>0, <1>11 DEF StaleReply, TypeOK
<1>12. CASE MessageChanged(c)
  <2>1. Fresh(calls) \in Ids
    BY <1>12, FreshFact DEF MessageChanged
  <2>2. [c EXCEPT !.id = Fresh(calls)] \in Call
    BY <1>0, <2>1 DEF Call
  <2>3. calls' \in SUBSET Call
    BY <1>0, <1>12, <2>2 DEF MessageChanged
  <2>4. chanReq' \in SUBSET [id : Ids, ch : Channels]
    BY <1>12, <2>1 DEF MessageChanged, TypeOK
  <2>. QED
    BY <1>12, <2>1, <2>3, <2>4 DEF MessageChanged, TypeOK
<1>. QED
  BY <1>3, <1>4, <1>5, <1>6, <1>7, <1>8, <1>9, <1>10, <1>11, <1>12 DEF Fail

\* A process that has just loaded its ini is typed.
LEMMA TypeInit ==
  ASSUME Init
  PROVE  TypeOK
<1>1. \A p, q \in Stored :
        [s \in Seqs |-> IF s = Common THEN p ELSE q] \in [Seqs -> Nat]
  BY ConstantsAssumption DEF Base
<1>2. saved \in [pts : [Seqs -> Nat], seq : Nat]
  BY <1>1 DEF Init
<1>3. /\ pts \in [Seqs -> Nat] /\ seq \in Nat /\ floor \in [Seqs -> Nat]
      /\ valid \in BOOLEAN
  BY <1>2 DEF Init
<1>4. /\ srv \in [Seqs -> Nat] /\ log \in [Seqs -> SUBSET Event]
      /\ box \in Seq(Seq(Update)) /\ lapse \in [Seqs -> Nat]
      /\ pending \in [Seqs -> Seq(Item)] /\ seen \in [Seqs -> SUBSET Nat]
  BY DEF Init, Base, NoPosition, NothingHeld
<1>5. queue \in Seq(Channels) /\ todo \in Seq(Update)
  BY DEF Init
<1>6. /\ link \in {"down", "up", "auth"} /\ timer \in BOOLEAN
      /\ stateReq \in Ids \cup {NoReq} /\ diffReq \in Ids \cup {NoReq}
      /\ pc \in {"loop", "drain", "pump", "slice"}
      /\ after \in {"loop", "pump", "slice"}
  BY DEF Init
<1>7. /\ calls \in SUBSET Call /\ hash \in SUBSET Channels
      /\ chanReq \in SUBSET [id : Ids, ch : Channels]
      /\ affected \in SUBSET [id : Ids, seq : Seqs]
  BY DEF Init
<1>. QED
  BY <1>2, <1>3, <1>4, <1>5, <1>6, <1>7 DEF TypeOK

\* Every step keeps the types.
LEMMA TypeStep ==
  ASSUME TypeOK, [Next]_vars
  PROVE  TypeOK'
<1>1. ASSUME Serve
      PROVE  TypeOK'
  BY <1>1, ServerTypes DEF Serve
<1>2. ASSUME Loop
      PROVE  TypeOK'
  BY <1>2, ApplyTypes, DrainTypes, PumpTypes DEF Loop
<1>3. ASSUME NEW c \in calls, Handle(c)
      PROVE  TypeOK'
  <2>1. /\ NoCarry \in Carriable /\ Base \in Boundaries(Common)
        /\ Base \in Boundaries(c.seq) /\ 0 \in 0 .. Len(box)
        /\ {} \in SUBSET Channels
    BY DEF Carriable, Boundaries, TypeOK
  <2>2. ASSUME NEW p \in Boundaries(Common), NEW q \in 0 .. Len(box),
               HandleState(c, p, q) \/ DifferenceEmpty(c, q) \/ DifferenceTooLong(c, p)
        PROVE  TypeOK'
    BY <2>1, <2>2, CommonReplyTypes
  <2>3. ASSUME NEW p \in Boundaries(Common), NEW q \in 0 .. Len(box),
               NEW chats \in Chats,
               \/ \E carry \in Carriable : DifferenceFinal(c, p, q, carry, chats)
               \/ DifferenceSlice(c, p, q, chats)
        PROVE  TypeOK'
    <3>1. chats \in SUBSET Channels
      BY ConstantsAssumption
    <3>. QED
      BY <2>1, <2>3, <3>1, CommonReplyTypes
  <2>4. CASE ChannelEmpty(c)
    BY <2>1, <2>4, ChannelReplyTypes
  <2>5. ASSUME NEW p \in Boundaries(c.seq), NEW chats \in Chats,
               \/ \E final \in BOOLEAN : ChannelDifference(c, p, final, chats)
               \/ ChannelTooLong(c, p, chats)
        PROVE  TypeOK'
    <3>1. chats \in SUBSET Channels
      BY ConstantsAssumption
    <3>. QED
      BY <2>5, <3>1, ChannelReplyTypes
  <2>. QED
    BY <1>3, <2>1, <2>2, <2>3, <2>4, <2>5, AffectedTypes, FailTypes DEF Handle
<1>4. ASSUME NEW c \in calls, Fail(c) \/ MessageChanged(c)
      PROVE  TypeOK'
  BY <1>4, FailTypes
<1>5. CASE UNCHANGED vars
  BY SMTT(30), <1>5 DEF vars, server, position, requests, polls, parked, control, history,
     TypeOK
<1>. QED
  BY <1>1, <1>2, <1>3, <1>4, <1>5, ReceiveTypes, PumpTypes, ConnectionTypes
  DEF Next

(***************************************************************************)
(* Type correctness: whatever arrives, the counters, the queues and the    *)
(* request maps of TgUpdatesManager keep their types; in particular every  *)
(* handler that continues in a loop names a continuation that exists.      *)
(***************************************************************************)
THEOREM TypeCorrect == Spec => []TypeOK
BY TypeInit, TypeStep, PTL DEF Spec

-----------------------------------------------------------------------------
(***************************************************************************)
(* The server's log.                                                       *)
(***************************************************************************)
\* The log only grows, and only beyond the position it had.
LogGrows ==
  /\ \A s \in Seqs :
       /\ srv[s] <= srv'[s] /\ log[s] \in SUBSET log'[s]
       /\ \A e \in log'[s] \ log[s] : e.pts > srv[s]
  /\ Len(box) <= Len(box')

\* A step that leaves the server alone.
LEMMA ServerAlone ==
  ASSUME TypeOK, UNCHANGED server
  PROVE  LogGrows
BY DEF server, LogGrows, TypeOK

\* Logging an update keeps the log free of overlaps.
LEMMA LogExtended ==
  ASSUME TypeOK, LogConsistent, NEW s \in Seqs, NEW n \in Nat \ {0},
         NEW own \in BOOLEAN,
         srv' = [srv EXCEPT ![s] = srv[s] + n],
         log' = [log EXCEPT ![s] = @ \cup
                   {[pts |-> srv[s] + n, count |-> n, own |-> own]}],
         Len(box) <= Len(box')
  PROVE  LogConsistent' /\ LogGrows
<1>1. srv[s] \in Nat /\ srv[s] + n > srv[s] /\ srv[s] >= Base
  BY DEF TypeOK, LogConsistent
<1>2. \A t \in Seqs : log[t] \in SUBSET Event /\ srv[t] \in Nat
  BY DEF TypeOK
<1>3. srv'[s] = srv[s] + n /\ \A t \in Seqs \ {s} : srv'[t] = srv[t]
  BY DEF TypeOK
<1>4. /\ log'[s] = log[s] \cup {[pts |-> srv[s] + n, count |-> n, own |-> own]}
      /\ \A t \in Seqs \ {s} : log'[t] = log[t]
  BY DEF TypeOK
<1>5. LogGrows
  BY <1>1, <1>2, <1>3, <1>4 DEF LogGrows
<1>6. ASSUME NEW t \in Seqs \ {s}
      PROVE  /\ srv'[t] >= Base
             /\ \A e \in log'[t] :
                  /\ e.count > 0 /\ e.pts <= srv'[t] /\ e.pts - e.count >= Base
                  /\ \A f \in log'[t] : f.pts - f.count < e.pts /\ e.pts <= f.pts
                                          => e = f
  BY <1>3, <1>4 DEF LogConsistent
<1>7. srv'[s] >= Base
  BY <1>1, <1>3 DEF Base
<1>8. ASSUME NEW e \in log'[s]
      PROVE  /\ e.count > 0 /\ e.pts <= srv'[s] /\ e.pts - e.count >= Base
             /\ \A f \in log'[s] : f.pts - f.count < e.pts /\ e.pts <= f.pts
                                     => e = f
  <2>1. CASE e \in log[s]
    <3>1. /\ e.count > 0 /\ e.pts <= srv[s] /\ e.pts - e.count >= Base
          /\ \A f \in log[s] : f.pts - f.count < e.pts /\ e.pts <= f.pts => e = f
      BY <2>1 DEF LogConsistent
    <3>2. e.pts \in Nat
      BY <1>2, <2>1 DEF Event
    <3>. QED
      BY <1>1, <1>3, <1>4, <3>1, <3>2
  <2>2. CASE e = [pts |-> srv[s] + n, count |-> n, own |-> own]
    <3>1. \A f \in log[s] : f.pts \in Nat /\ f.pts <= srv[s]
      BY <1>2 DEF LogConsistent, Event
    <3>. QED
      BY <1>1, <1>3, <1>4, <2>2, <3>1
  <2>. QED
    BY <1>4, <2>1, <2>2
<1>. QED
  BY <1>5, <1>6, <1>7, <1>8 DEF LogConsistent

\* What exists goes on existing.
LEMMA GenuineKept ==
  ASSUME TypeOK, TypeOK', LogGrows, NEW s \in Seqs, NEW p \in Nat, NEW n \in Nat,
         Exists(srv[s], log[s], p, n)
  PROVE  Exists(srv'[s], log'[s], p, n)
<1>1. srv[s] \in Nat /\ srv'[s] \in Nat
  BY DEF TypeOK
<1>2. srv[s] <= srv'[s] /\ log[s] \in SUBSET log'[s]
  BY DEF LogGrows
<1>. QED
  BY <1>1, <1>2 DEF Exists

\* A genuine update is not beyond the server's position.
LEMMA GenuineBound ==
  ASSUME TypeOK, LogConsistent, NEW s \in Seqs, NEW p \in Nat, NEW n \in Nat,
         Exists(srv[s], log[s], p, n)
  PROVE  p <= srv[s]
BY DEF Exists, LogConsistent, TypeOK

\* A position a reply may name.
LEMMA BoundaryBound ==
  ASSUME TypeOK, LogConsistent, NEW s \in Seqs, NEW p \in Boundaries(s)
  PROVE  p \in Nat /\ p > 0 /\ p <= srv[s]
<1>1. CASE p = Base
  BY <1>1 DEF LogConsistent, Base
<1>2. ASSUME NEW e \in log[s], p = e.pts
      PROVE  p \in Nat /\ p > 0 /\ p <= srv[s]
  <2>1. e.pts \in Nat /\ e.count \in Nat
    BY DEF TypeOK, Event
  <2>2. e.count > 0 /\ e.pts <= srv[s] /\ e.pts - e.count >= Base
    BY DEF LogConsistent
  <2>. QED
    BY <1>2, <2>1, <2>2 DEF Base
<1>. QED
  BY <1>1, <1>2 DEF Boundaries

-----------------------------------------------------------------------------
(***************************************************************************)
(* What a step can do to each part of the state.                           *)
(***************************************************************************)
\* Only the server's own steps, and the changes it carries out, touch the log.
LEMMA ServerShape ==
  ASSUME [Next]_vars
  PROVE  \/ \E s \in Seqs, n \in Counts, boxed \in BOOLEAN : Produce(s, n, boxed)
         \/ \E s \in Seqs, n \in Counts : RequestChange(s, n)
         \/ UNCHANGED server
<1>1. Receive => UNCHANGED server
  BY DEF Receive, ReceiveUpdate, ReceiveContainer, ReceiveTooLong,
     ReceiveChannelTooLong
<1>2. Loop => UNCHANGED server
  BY DEF Loop, HoldUnseeded, ApplyNext, DropDuplicate, ParkGap, DrainApply,
     DrainDrop, DrainDone, PumpSend, PumpSkip, PumpDone, NextSlice
<1>3. ASSUME NEW c \in calls, Handle(c)
      PROVE  UNCHANGED server
  BY ZenonT(40), <1>3 DEF Handle, StaleReply, HandleState, DifferenceEmpty, DifferenceFinal,
     DifferenceSlice, DifferenceBody, DifferenceTooLong, ChannelEmpty,
     ChannelDifference, ChannelTooLong, ChannelDone, HandleAffected
<1>4. ASSUME NEW c \in calls, Fail(c) \/ MessageChanged(c)
      PROVE  UNCHANGED server
  BY <1>4 DEF Fail, StateUndecoded, DifferenceUndecoded, ChannelUndecoded,
     StateError, DifferenceError, DifferenceRejected, ChannelError,
     ChannelUnreachable, MessageChanged
<1>5. GapTimer \/ Connected \/ Authorized \/ Disconnected \/ Restart
        => UNCHANGED server
  BY DEF GapTimer, Connected, Authorized, Disconnected, Restart
<1>6. UNCHANGED vars => UNCHANGED server
  BY DEF vars
<1>. QED
  BY <1>1, <1>2, <1>3, <1>4, <1>5, <1>6 DEF Next, Serve

\* The server's log stays consistent and grows, whatever the client does.
LEMMA LogStep ==
  ASSUME TypeOK, LogConsistent, [Next]_vars
  PROVE  LogConsistent' /\ LogGrows
<1>1. ASSUME NEW s \in Seqs, NEW n \in Counts, NEW boxed \in BOOLEAN,
             Produce(s, n, boxed)
      PROVE  LogConsistent' /\ LogGrows
  <2>1. n \in Nat \ {0}
    BY <1>1, ConstantsAssumption DEF Produce
  <2>2. Len(box) <= Len(box')
    BY <1>1 DEF Produce, TypeOK
  <2>. QED
    BY <1>1, <2>1, <2>2, LogExtended DEF Produce
<1>2. ASSUME NEW s \in Seqs, NEW n \in Counts, RequestChange(s, n)
      PROVE  LogConsistent' /\ LogGrows
  <2>1. n \in Nat \ {0}
    BY <1>2, ConstantsAssumption DEF RequestChange
  <2>2. Len(box) <= Len(box')
    BY <1>2 DEF RequestChange, TypeOK
  <2>. QED
    BY <1>2, <2>1, <2>2, LogExtended DEF RequestChange
<1>3. ASSUME UNCHANGED server
      PROVE  LogConsistent' /\ LogGrows
  BY <1>3, ServerAlone DEF server, LogConsistent
<1>. QED
  BY <1>1, <1>2, <1>3, ServerShape

\* processUpdates() fills todo, applyOne() takes its head.
LEMMA TodoShape ==
  ASSUME [Next]_vars
  PROVE  \/ todo' = todo \/ todo' = <<>>
         \/ todo # <<>> /\ todo' = Tail(todo)
         \/ \E s \in Seqs : \E u \in Pushable(s) : todo' = <<u>>
         \/ \E i, j \in DOMAIN box : todo' = box[i] \/ todo' = box[i] \o box[j]
<1>. USE DEF control
<1>1. Serve => todo' = todo
  BY DEF Serve, Produce, RequestChange
<1>2. ASSUME Receive
      PROVE  \/ todo' = todo
             \/ \E s \in Seqs : \E u \in Pushable(s) : todo' = <<u>>
             \/ \E i, j \in DOMAIN box : todo' = box[i] \/ todo' = box[i] \o box[j]
  <2>1. ASSUME NEW i \in DOMAIN box, NEW j \in DOMAIN box, NEW chats,
               ReceiveContainer(i, j, chats)
        PROVE  todo' \in {todo, box[i], box[i] \o box[j]}
    BY <2>1 DEF ReceiveContainer
  <2>. QED
    BY <1>2, <2>1 DEF Receive, ReceiveUpdate, ReceiveTooLong, ReceiveChannelTooLong
<1>3. Loop => todo' = todo \/ (todo # <<>> /\ todo' = Tail(todo))
  BY DEF Loop, HoldUnseeded, ApplyNext, DropDuplicate, ParkGap, DrainApply,
     DrainDrop, DrainDone, PumpSend, PumpSkip, PumpDone, NextSlice, Applying
<1>4. ASSUME NEW c \in calls, Handle(c)
      PROVE  todo' = todo
  BY ZenonT(40), <1>4 DEF Handle, StaleReply, HandleState, DifferenceEmpty, DifferenceFinal,
     DifferenceSlice, DifferenceBody, DifferenceTooLong, ChannelEmpty,
     ChannelDifference, ChannelTooLong, ChannelDone, HandleAffected
<1>5. ASSUME NEW c \in calls, Fail(c) \/ MessageChanged(c)
      PROVE  todo' = todo
  BY <1>5 DEF Fail, StateUndecoded, DifferenceUndecoded, ChannelUndecoded,
     StateError, DifferenceError, DifferenceRejected, ChannelError,
     ChannelUnreachable, MessageChanged
<1>6. GapTimer \/ Connected \/ Authorized \/ Disconnected => todo' = todo
  BY DEF GapTimer, Connected, Authorized, Disconnected
<1>7. Restart => todo' = <<>>
  BY DEF Restart
<1>8. UNCHANGED vars => todo' = todo
  BY DEF vars
<1>. QED
  BY <1>1, <1>2, <1>3, <1>4, <1>5, <1>6, <1>7, <1>8 DEF Next

\* The parked queue is left alone, dropped, dropped for one channel, given the
\* update at hand (or dropped because it is full), or drained of one item.
LEMMA PendingShape ==
  ASSUME TypeOK, [Next]_vars
  PROVE  \/ pending' = pending \/ pending' = NothingHeld
         \/ \E c \in Seqs : pending' = [pending EXCEPT ![c] = <<>>]
         \/ todo # <<>> /\ pending' = Parked(Head(todo))
         \/ \E s \in Seqs : \E i \in DOMAIN pending[s] :
              pending' = [pending EXCEPT ![s] = Without(@, i)]
<1>. USE DEF parked
<1>1. Serve => pending' = pending
  BY DEF Serve, Produce, RequestChange
<1>2. Receive => \/ pending' = pending
                 \/ \E c \in Seqs : pending' = [pending EXCEPT ![c] = <<>>]
  BY DEF Receive, ReceiveUpdate, ReceiveContainer, ReceiveTooLong,
     ReceiveChannelTooLong, DropPending, Seqs
<1>3. ASSUME Loop
      PROVE  \/ pending' = pending
             \/ todo # <<>> /\ pending' = Parked(Head(todo))
             \/ \E s \in Seqs : \E i \in DOMAIN pending[s] :
                  pending' = [pending EXCEPT ![s] = Without(@, i)]
  <2>1. ASSUME NEW u, HoldUnseeded(u) \/ ApplyNext(u) \/ DropDuplicate(u) \/ ParkGap(u)
        PROVE  pending' = pending \/ (todo # <<>> /\ pending' = Parked(Head(todo)))
    BY <2>1 DEF HoldUnseeded, ApplyNext, DropDuplicate, ParkGap, Park, Applying
  <2>2. ASSUME NEW s \in Seqs, NEW i \in DOMAIN pending[s],
               DrainApply(s, i) \/ DrainDrop(s, i)
        PROVE  pending' = [pending EXCEPT ![s] = Without(@, i)]
    BY <2>2 DEF DrainApply, DrainDrop
  <2>3. DrainDone \/ PumpSend \/ PumpSkip \/ PumpDone \/ NextSlice
          => pending' = pending
    BY DEF DrainDone, PumpSend, PumpSkip, PumpDone, NextSlice
  <2>. QED
    BY <1>3, <2>1, <2>2, <2>3 DEF Loop
<1>4. ASSUME NEW c \in calls, Handle(c)
      PROVE  \/ pending' = pending \/ pending' = NothingHeld
             \/ pending' = [pending EXCEPT ![c.seq] = <<>>]
  BY ZenonT(40), <1>4 DEF Handle, StaleReply, HandleState, DifferenceEmpty, DifferenceFinal,
     DifferenceSlice, DifferenceBody, DifferenceTooLong, ChannelEmpty,
     ChannelDifference, ChannelTooLong, HandleAffected, DropPending, ClearPending
<1>5. ASSUME NEW c \in calls, Fail(c) \/ MessageChanged(c)
      PROVE  \/ pending' = pending \/ pending' = NothingHeld
             \/ pending' = [pending EXCEPT ![c.seq] = <<>>]
  BY <1>5 DEF Fail, StateUndecoded, DifferenceUndecoded, ChannelUndecoded,
     StateError, DifferenceError, DifferenceRejected, ChannelError,
     ChannelUnreachable, MessageChanged, DropPending, ClearPending
<1>6. \A c \in calls : c.seq \in Seqs
  BY DEF TypeOK, Call
<1>7. GapTimer \/ Connected \/ Authorized \/ Disconnected \/ Restart
        => pending' = pending \/ pending' = NothingHeld
  BY DEF GapTimer, Connected, Authorized, Disconnected, Restart, ClearPending
<1>8. UNCHANGED vars => pending' = pending
  BY DEF vars
<1>. QED
  BY <1>1, <1>2, <1>3, <1>4, <1>5, <1>6, <1>7, <1>8 DEF Next

-----------------------------------------------------------------------------
(***************************************************************************)
(* What waits in a container, in todo and in the parked queue exists.      *)
(***************************************************************************)
\* Where the elements of Append(q, x) and q \o r come from.
LEMMA AppendElements ==
  ASSUME NEW S, NEW q \in Seq(S), NEW x \in S, NEW i \in DOMAIN Append(q, x)
  PROVE  \/ i \in DOMAIN q /\ Append(q, x)[i] = q[i]
         \/ Append(q, x)[i] = x
OBVIOUS

\* An element of two sequences joined is an element of one of them.
LEMMA ConcatElements ==
  ASSUME NEW S, NEW q \in Seq(S), NEW r \in Seq(S), NEW i \in DOMAIN (q \o r)
  PROVE  \/ \E k \in DOMAIN q : (q \o r)[i] = q[k]
         \/ \E k \in DOMAIN r : (q \o r)[i] = r[k]
<1>1. CASE i <= Len(q)
  <2>1. i \in DOMAIN q /\ (q \o r)[i] = q[i]
    BY <1>1
  <2>. QED
    BY <2>1
<1>2. CASE i > Len(q)
  <2>1. i - Len(q) \in DOMAIN r /\ (q \o r)[i] = r[i - Len(q)]
    BY <1>2
  <2>. QED
    BY <2>1
<1>. QED
  BY <1>1, <1>2

\* A pushed update exists.
LEMMA PushableGenuine ==
  ASSUME TypeOK, LogConsistent, NEW s \in Seqs, NEW u \in Pushable(s)
  PROVE  Exists(srv[u.seq], log[u.seq], u.pts, u.count)
<1>1. CASE u \in {[seq |-> s, pts |-> e.pts, count |-> e.count] :
                    e \in {x \in log[s] : ~x.own}}
  <2>1. PICK e \in log[s] : u = [seq |-> s, pts |-> e.pts, count |-> e.count]
    BY <1>1
  <2>2. e.count > 0
    BY DEF LogConsistent
  <2>. QED
    BY <2>1, <2>2 DEF Exists
<1>2. CASE u \in {[seq |-> s, pts |-> p, count |-> 0] : p \in Boundaries(s)}
  BY <1>2, BoundaryBound DEF Exists
<1>. QED
  BY <1>1, <1>2 DEF Pushable, Boundaries

\* The containers of the server hold updates of the log.
LEMMA BoxStep ==
  ASSUME TypeOK, TypeOK', LogConsistent, LogGrows, BoxGenuine, [Next]_vars
  PROVE  BoxGenuine'
<1>1. \A k \in DOMAIN box : \A i \in DOMAIN box[k] :
        Exists(srv'[box[k][i].seq], log'[box[k][i].seq], box[k][i].pts,
               box[k][i].count)
  <2>1. TAKE k \in DOMAIN box
  <2>. TAKE i \in DOMAIN box[k]
  <2>2. box[k][i] \in Update
    BY DEF TypeOK
  <2>3. /\ box[k][i].seq \in Seqs /\ box[k][i].pts \in Nat /\ box[k][i].count \in Nat
    BY <2>2 DEF Update
  <2>. QED
    BY <2>3, GenuineKept DEF BoxGenuine, Genuine
<1>2. CASE box' = box
  BY <1>1, <1>2 DEF BoxGenuine, Genuine
<1>3. ASSUME NEW s \in Seqs, NEW n \in Counts, NEW boxed \in BOOLEAN,
             Produce(s, n, boxed), box' # box
      PROVE  BoxGenuine'
  <2>1. n > 0 /\ n \in Nat /\ srv[s] \in Nat
    BY <1>3, ConstantsAssumption DEF Produce, TypeOK
  <2>2. [pts |-> srv[s] + n, count |-> n, own |-> FALSE] \in log'[s]
    BY <1>3 DEF Produce, TypeOK
  <2>3. Exists(srv'[s], log'[s], srv[s] + n, n)
    BY <2>1, <2>2 DEF Exists
  <2>4. box' = Append(box, <<[seq |-> s, pts |-> srv[s] + n, count |-> n]>>)
    BY <1>3 DEF Produce
  <2>5. ASSUME NEW k \in DOMAIN box', NEW i \in DOMAIN box'[k]
        PROVE  Exists(srv'[box'[k][i].seq], log'[box'[k][i].seq], box'[k][i].pts,
                      box'[k][i].count)
    <3>1. <<[seq |-> s, pts |-> srv[s] + n, count |-> n]>> \in Seq(Update)
      BY <2>1 DEF Update
    <3>2. box \in Seq(Seq(Update))
      BY DEF TypeOK
    <3>3. \/ k \in DOMAIN box /\ box'[k] = box[k]
          \/ box'[k] = <<[seq |-> s, pts |-> srv[s] + n, count |-> n]>>
      BY <2>4, <3>1, <3>2, AppendElements
    <3>4. CASE box'[k] = <<[seq |-> s, pts |-> srv[s] + n, count |-> n]>>
      <4>1. box'[k][i] = [seq |-> s, pts |-> srv[s] + n, count |-> n]
        BY <3>4
      <4>. QED
        BY <2>3, <4>1
    <3>. QED
      BY <1>1, <3>3, <3>4
  <2>. QED
    BY <2>5 DEF BoxGenuine, Genuine
<1>. QED
  BY <1>2, <1>3, ServerShape DEF server, RequestChange

\* So does what is left of the container being applied,
LEMMA TodoStep ==
  ASSUME TypeOK, TypeOK', LogConsistent, LogGrows, BoxGenuine, TodoGenuine,
         [Next]_vars
  PROVE  TodoGenuine'
<1>1. SUFFICES \A i \in DOMAIN todo' :
                 Exists(srv[todo'[i].seq], log[todo'[i].seq], todo'[i].pts,
                        todo'[i].count)
  <2>1. \A i \in DOMAIN todo' : todo'[i] \in Update
    BY DEF TypeOK
  <2>2. \A i \in DOMAIN todo' : /\ todo'[i].seq \in Seqs /\ todo'[i].pts \in Nat
                                /\ todo'[i].count \in Nat
    BY <2>1 DEF Update
  <2>. QED
    BY <1>1, <2>2, GenuineKept DEF TodoGenuine, Genuine
<1>2. CASE todo' = todo \/ todo' = <<>>
  BY <1>2 DEF TodoGenuine, Genuine
<1>3. CASE todo # <<>> /\ todo' = Tail(todo)
  <2>1. \A i \in DOMAIN todo' : i + 1 \in DOMAIN todo /\ todo'[i] = todo[i + 1]
    BY <1>3 DEF TypeOK
  <2>. QED
    BY <2>1 DEF TodoGenuine, Genuine
<1>4. ASSUME NEW s \in Seqs, NEW u \in Pushable(s), todo' = <<u>>
      PROVE  \A i \in DOMAIN todo' : todo'[i] = u
  BY <1>4
<1>5. ASSUME NEW i \in DOMAIN box, NEW j \in DOMAIN box,
             todo' = box[i] \/ todo' = box[i] \o box[j]
      PROVE  \A k \in DOMAIN todo' :
               \/ \E x \in DOMAIN box[i] : todo'[k] = box[i][x]
               \/ \E x \in DOMAIN box[j] : todo'[k] = box[j][x]
  <2>1. box[i] \in Seq(Update) /\ box[j] \in Seq(Update)
    BY DEF TypeOK
  <2>2. CASE todo' = box[i]
    BY <2>2
  <2>3. CASE todo' = box[i] \o box[j]
    <3>1. \A k \in DOMAIN (box[i] \o box[j]) :
            \/ \E x \in DOMAIN box[i] : (box[i] \o box[j])[k] = box[i][x]
            \/ \E x \in DOMAIN box[j] : (box[i] \o box[j])[k] = box[j][x]
      BY <2>1, ConcatElements
    <3>. QED
      BY <2>3, <3>1
  <2>. QED
    BY <1>5, <2>2, <2>3
<1>6. ASSUME NEW i \in DOMAIN box, NEW j \in DOMAIN box,
             todo' = box[i] \/ todo' = box[i] \o box[j]
      PROVE  \A k \in DOMAIN todo' :
                 Exists(srv[todo'[k].seq], log[todo'[k].seq], todo'[k].pts,
                        todo'[k].count)
  BY <1>5, <1>6 DEF BoxGenuine, Genuine
<1>. QED
  BY <1>2, <1>3, <1>4, <1>6, PushableGenuine, TodoShape

\* and so does the parked queue.
LEMMA PendingStep ==
  ASSUME TypeOK, TypeOK', LogConsistent, LogGrows, TodoGenuine, PendingGenuine,
         [Next]_vars
  PROVE  PendingGenuine'
<1>1. SUFFICES \A s \in Seqs : \A i \in DOMAIN pending'[s] :
                 Exists(srv[s], log[s], pending'[s][i].pts, pending'[s][i].count)
  <2>1. \A s \in Seqs : \A i \in DOMAIN pending'[s] : pending'[s][i] \in Item
    <3>1. \A s \in Seqs : pending'[s] \in Seq(Item)
      BY DEF TypeOK
    <3>. QED
      BY <3>1
  <2>2. \A s \in Seqs : \A i \in DOMAIN pending'[s] :
          pending'[s][i].pts \in Nat /\ pending'[s][i].count \in Nat
    BY <2>1 DEF Item
  <2>. QED
    BY <1>1, <2>2, GenuineKept DEF PendingGenuine, Genuine
<1>2. CASE pending' = pending \/ pending' = NothingHeld
  BY <1>2 DEF PendingGenuine, Genuine, NothingHeld
<1>3. ASSUME NEW c \in Seqs, pending' = [pending EXCEPT ![c] = <<>>],
             NEW s \in Seqs, NEW i \in DOMAIN pending'[s]
      PROVE  i \in DOMAIN pending[s] /\ pending'[s][i] = pending[s][i]
  BY <1>3 DEF TypeOK
<1>4. ASSUME todo # <<>>, pending' = Parked(Head(todo)),
             NEW s \in Seqs, NEW i \in DOMAIN pending'[s]
      PROVE  Exists(srv[s], log[s], pending'[s][i].pts, pending'[s][i].count)
  <2>1. Head(todo) = todo[1] /\ 1 \in DOMAIN todo /\ todo[1] \in Update
    <3>1. todo \in Seq(Update)
      BY DEF TypeOK
    <3>. QED
      BY <1>4, <3>1
  <2>2. todo[1].seq \in Seqs
    BY <2>1 DEF Update
  <2>3. CASE Full
    BY <1>4, <2>3 DEF Parked, NothingHeld
  <2>4. CASE ~Full /\ s # todo[1].seq
    BY <1>4, <2>1, <2>2, <2>4 DEF Parked, PendingGenuine, Genuine, TypeOK
  <2>5. CASE ~Full /\ s = todo[1].seq
    <3>1. pending'[s] = Append(pending[s],
                               [pts |-> todo[1].pts, count |-> todo[1].count])
      BY <1>4, <2>1, <2>2, <2>5 DEF Parked, TypeOK
    <3>2. pending[s] \in Seq(Item) /\ [pts |-> todo[1].pts, count |-> todo[1].count] \in Item
      BY <2>1 DEF TypeOK, Update, Item
    <3>3. \/ i \in DOMAIN pending[s] /\ pending'[s][i] = pending[s][i]
          \/ pending'[s][i] = [pts |-> todo[1].pts, count |-> todo[1].count]
      BY <3>1, <3>2, AppendElements
    <3>4. CASE pending'[s][i] = [pts |-> todo[1].pts, count |-> todo[1].count]
      BY <2>1, <2>5, <3>4 DEF TodoGenuine, Genuine
    <3>. QED
      BY <3>3, <3>4 DEF PendingGenuine, Genuine
  <2>. QED
    BY <2>3, <2>4, <2>5
<1>5. ASSUME NEW t \in Seqs, NEW k \in DOMAIN pending[t],
             pending' = [pending EXCEPT ![t] = Without(@, k)],
             NEW s \in Seqs, NEW i \in DOMAIN pending'[s]
      PROVE  \E x \in DOMAIN pending[s] : pending'[s][i] = pending[s][x]
  <2>1. pending[t] \in Seq(Item)
    BY DEF TypeOK
  <2>2. /\ Without(pending[t], k) \in Seq(Item)
        /\ Len(Without(pending[t], k)) = Len(pending[t]) - 1
        /\ \A x \in DOMAIN Without(pending[t], k) :
             Without(pending[t], k)[x]
               = IF x < k THEN pending[t][x] ELSE pending[t][x + 1]
    BY <2>1, WithoutType
  <2>3. CASE s = t
    <3>1. pending'[s] = Without(pending[t], k)
      BY <1>5, <2>3 DEF TypeOK
    <3>2. i \in 1 .. (Len(pending[t]) - 1)
      BY <1>5, <2>2, <3>1
    <3>3. i \in DOMAIN pending[t] /\ i + 1 \in DOMAIN pending[t]
      BY <2>1, <3>2
    <3>. QED
      BY <1>5, <2>2, <2>3, <3>1, <3>3
  <2>4. CASE s # t
    BY <1>5, <2>4 DEF TypeOK
  <2>. QED
    BY <2>3, <2>4
<1>6. ASSUME NEW t \in Seqs, NEW k \in DOMAIN pending[t],
             pending' = [pending EXCEPT ![t] = Without(@, k)]
      PROVE  \A s \in Seqs : \A i \in DOMAIN pending'[s] :
               Exists(srv[s], log[s], pending'[s][i].pts, pending'[s][i].count)
  BY <1>5, <1>6 DEF PendingGenuine, Genuine
<1>7. ASSUME NEW c \in Seqs, pending' = [pending EXCEPT ![c] = <<>>]
      PROVE  \A s \in Seqs : \A i \in DOMAIN pending'[s] :
               Exists(srv[s], log[s], pending'[s][i].pts, pending'[s][i].count)
  BY <1>3, <1>7 DEF PendingGenuine, Genuine
<1>. QED
  BY <1>2, <1>4, <1>6, <1>7, PendingShape

-----------------------------------------------------------------------------
(***************************************************************************)
(* Requests.  Apart from a change and from a rename, a step only asks from *)
(* the position it leaves behind, under an id that nothing else has.       *)
(***************************************************************************)
AskedNow(c) ==
  /\ CanSend /\ c.id = Fresh(calls)
  /\ \/ c.kind = "state" /\ c.seq = Common
     \/ c.kind = "diff" /\ c.seq = Common /\ valid' /\ c.from = pts'[Common]
     \/ c.kind = "chan" /\ c.seq \in Channels /\ c.from = pts'[c.seq]

Asks ==
  /\ \A c \in calls' : c \in calls \/ AskedNow(c)
  /\ diffReq' \in {diffReq, NoReq} \/ (CanSend /\ valid' /\ diffReq' = Fresh(calls))
  /\ \A r \in chanReq' : r \in chanReq \/ (CanSend /\ r.id = Fresh(calls))
  /\ affected' \in SUBSET affected

\* requestState() asks nothing that continues a position.
LEMMA StateAsked ==
  ASSUME CanSend, NEW sr, NEW cs \in SUBSET calls, RequestState(sr, cs)
  PROVE  \A c \in calls' : c \in calls \/ AskedNow(c)
BY DEF RequestState, Send, AskedNow

\* requestDifference() asks from the position the client is at.
LEMMA DifferenceAsked ==
  ASSUME CanSend, NEW cs \in SUBSET calls, valid' = valid, pts' = pts,
         RequestDifference(valid, pts[Common], stateReq, diffReq, cs)
  PROVE  /\ \A c \in calls' : c \in calls \/ AskedNow(c)
         /\ \/ diffReq' \in {diffReq, NoReq}
            \/ CanSend /\ valid' /\ diffReq' = Fresh(calls)
<1>1. CASE ~valid
  BY <1>1, StateAsked DEF RequestDifference
<1>2. CASE valid
  <2>1. diffReq' = (IF diffReq = NoReq THEN Fresh(calls) ELSE diffReq)
        /\ calls' = (IF diffReq = NoReq THEN Send(cs, "diff", Common, pts[Common])
                     ELSE cs)
    BY <1>2 DEF RequestDifference
  <2>. QED
    BY <1>2, <2>1 DEF Send, AskedNow
<1>. QED
  BY <1>1, <1>2

\* What every step does to the requests and their ids.
LEMMA CallsShape ==
  ASSUME TypeOK, [Next]_vars
  PROVE  \/ Asks
         \/ \E c \in calls : MessageChanged(c)
         \/ \E s \in Seqs, n \in Counts : RequestChange(s, n)
<1>. USE DEF position, requests, polls
<1>0. \A c \in calls : calls \ {c} \in SUBSET calls
  OBVIOUS
<1>1. ASSUME NEW s \in Seqs, NEW n \in Counts, NEW boxed \in BOOLEAN,
             Produce(s, n, boxed)
      PROVE  Asks
  BY <1>1 DEF Produce, Asks
<1>2. ASSUME Receive
      PROVE  Asks
  <2>1. ASSUME NEW u, NEW chats, ReceiveUpdate(u, chats)
        PROVE  Asks
    BY <2>1 DEF ReceiveUpdate, Asks
  <2>2. ASSUME NEW i, NEW j, NEW chats, ReceiveContainer(i, j, chats)
        PROVE  Asks
    <3>1. CASE UNCHANGED requests
      BY <2>2, <3>1 DEF ReceiveContainer, Asks
    <3>2. CASE RequestDifference(valid, pts[Common], stateReq, diffReq, calls)
      BY <2>2, <3>2, DifferenceAsked DEF ReceiveContainer, Asks
    <3>. QED
      BY <2>2, <3>1, <3>2 DEF ReceiveContainer
  <2>3. ASSUME ReceiveTooLong
        PROVE  Asks
    BY <2>3, DifferenceAsked DEF ReceiveTooLong, Asks
  <2>4. ASSUME NEW c, ReceiveChannelTooLong(c)
        PROVE  Asks
    BY <2>4 DEF ReceiveChannelTooLong, Asks
  <2>. QED
    BY <1>2, <2>1, <2>2, <2>3, <2>4 DEF Receive
<1>3. ASSUME Loop
      PROVE  Asks
  <2>1. ASSUME NEW u, HoldUnseeded(u)
        PROVE  Asks
    BY <2>1, StateAsked DEF HoldUnseeded, Asks
  <2>2. ASSUME NEW u, ApplyNext(u) \/ DropDuplicate(u)
        PROVE  Asks
    BY <2>2 DEF ApplyNext, DropDuplicate, Asks
  <2>3. ASSUME NEW u, ParkGap(u)
        PROVE  Asks
    <3>1. CASE UNCHANGED requests
      BY <2>3, <3>1 DEF ParkGap, Asks
    <3>2. CASE RequestDifference(valid, pts[Common], stateReq, diffReq, calls)
      BY <2>3, <3>2, DifferenceAsked DEF ParkGap, Asks
    <3>. QED
      BY <2>3, <3>1, <3>2 DEF ParkGap
  <2>4. ASSUME NEW s, NEW i, DrainApply(s, i) \/ DrainDrop(s, i)
        PROVE  Asks
    BY <2>4 DEF DrainApply, DrainDrop, Asks
  <2>5. ASSUME DrainDone \/ PumpSkip \/ PumpDone
        PROVE  Asks
    BY <2>5 DEF DrainDone, PumpSkip, PumpDone, Asks
  <2>6. ASSUME PumpSend
        PROVE  Asks
    <3>1. Head(queue) \in Channels
      BY <2>6 DEF PumpSend, TypeOK
    <3>2. /\ chanReq' = chanReq \cup {[id |-> Fresh(calls), ch |-> Head(queue)]}
          /\ calls' = Send(calls, "chan", Head(queue), pts[Head(queue)])
          /\ CanSend /\ pts' = pts /\ diffReq' = diffReq /\ affected' = affected
      BY <2>6 DEF PumpSend
    <3>. QED
      BY <3>1, <3>2 DEF Send, Asks, AskedNow
  <2>7. ASSUME NextSlice
        PROVE  Asks
    BY <2>7, DifferenceAsked DEF NextSlice, Asks
  <2>. QED
    BY <1>3, <2>1, <2>2, <2>3, <2>4, <2>5, <2>6, <2>7 DEF Loop
<1>4. ASSUME NEW c \in calls, Handle(c)
      PROVE  Asks
  <2>1. CASE HandleAffected(c)
    <3>1. CASE calls' = calls \ {c} /\ diffReq' = diffReq
      BY <2>1, <3>1 DEF HandleAffected, Asks
    <3>2. CASE /\ RequestDifference(valid, pts[Common], stateReq, diffReq,
                                    calls \ {c})
               /\ pts' = pts
      BY <1>0, <2>1, <3>2, DifferenceAsked DEF HandleAffected, Asks
    <3>. QED
      BY <2>1, <3>1, <3>2 DEF HandleAffected
  <2>2. CASE ~HandleAffected(c)
    BY ZenonT(40), <1>4, <2>2 DEF Handle, StaleReply, HandleState, DifferenceEmpty,
       DifferenceFinal, DifferenceSlice, DifferenceBody, DifferenceTooLong,
       ChannelEmpty, ChannelDifference, ChannelTooLong, ChannelReply,
       ChannelDone, Asks
  <2>. QED
    BY <2>1, <2>2
<1>5. ASSUME NEW c \in calls, Fail(c)
      PROVE  Asks
  <2>1. CASE DifferenceUndecoded(c)
    BY <1>0, <2>1, StateAsked DEF DifferenceUndecoded, Asks
  <2>2. CASE DifferenceRejected(c)
    BY <1>0, <2>2, StateAsked DEF DifferenceRejected, Asks
  <2>3. CASE ~DifferenceUndecoded(c) /\ ~DifferenceRejected(c)
    BY <1>5, <2>3 DEF Fail, StateUndecoded, ChannelUndecoded, StateError,
       DifferenceError, ChannelError, ChannelUnreachable, ChannelReply, Errored,
       Asks
  <2>. QED
    BY <2>1, <2>2, <2>3
<1>6. ASSUME GapTimer \/ Authorized
      PROVE  Asks
  BY <1>6, DifferenceAsked DEF GapTimer, Authorized, Asks
<1>7. ASSUME Connected \/ Disconnected \/ Restart
      PROVE  Asks
  BY <1>7 DEF Connected, Disconnected, Restart, Survivors, Asks
<1>8. UNCHANGED vars => Asks
  BY DEF vars, Asks
<1>. QED
  BY <1>1, <1>2, <1>3, <1>4, <1>5, <1>6, <1>7, <1>8 DEF Next, Serve

\* A fresh id is none of the ids the invariants speak of.
LEMMA FreshIsNew ==
  ASSUME CanSend
  PROVE  /\ \A c \in calls : c.id # Fresh(calls)
         /\ \A r \in chanReq : r.id # Fresh(calls)
         /\ \A a \in affected : a.id # Fresh(calls)
         /\ diffReq # Fresh(calls) /\ Fresh(calls) \in Ids
BY FreshFact DEF Used

\* The reply to a change of ours names an update of the log.
LEMMA ChangesStep ==
  ASSUME TypeOK, TypeOK', LogGrows, ChangesGenuine, [Next]_vars
  PROVE  ChangesGenuine'
<1>1. ASSUME NEW c \in calls, c.kind = "affect"
      PROVE  /\ c.from < c.lo
             /\ Exists(srv'[c.seq], log'[c.seq], c.lo, c.lo - c.from)
             /\ \A a \in affected : a.id = c.id => a.seq = c.seq
  <2>1. c.seq \in Seqs /\ c.from \in Nat /\ c.lo \in Nat
    BY DEF TypeOK, Call
  <2>2. /\ c.from < c.lo /\ Exists(srv[c.seq], log[c.seq], c.lo, c.lo - c.from)
        /\ \A a \in affected : a.id = c.id => a.seq = c.seq
    BY <1>1 DEF ChangesGenuine, Genuine
  <2>3. c.lo - c.from \in Nat
    BY <2>1, <2>2
  <2>. QED
    BY <2>1, <2>2, <2>3, GenuineKept
<1>2. CASE Asks
  BY <1>1, <1>2 DEF Asks, AskedNow, ChangesGenuine, Genuine
<1>3. ASSUME NEW d \in calls, MessageChanged(d)
      PROVE  ChangesGenuine'
  <2>1. /\ calls' = (calls \ {d}) \cup {[d EXCEPT !.id = Fresh(calls)]}
        /\ affected' = affected /\ CanSend
    BY <1>3 DEF MessageChanged
  <2>2. d \in Call
    BY DEF TypeOK
  <2>3. PICK e : e = [d EXCEPT !.id = Fresh(calls)]
    OBVIOUS
  <2>4. /\ e.kind = d.kind /\ e.from = d.from /\ e.lo = d.lo /\ e.seq = d.seq
        /\ e.id = Fresh(calls)
    BY <2>2, <2>3 DEF Call
  <2>5. ASSUME NEW c \in calls', c.kind = "affect"
        PROVE  /\ c.from < c.lo
               /\ Exists(srv'[c.seq], log'[c.seq], c.lo, c.lo - c.from)
               /\ \A a \in affected' : a.id = c.id => a.seq = c.seq
    <3>1. CASE c \in calls
      BY <1>1, <2>1, <2>5, <3>1
    <3>2. CASE c = e
      <4>1. \A a \in affected' : a.id # c.id
        BY <2>1, <2>4, <3>2, FreshIsNew
      <4>. QED
        BY <1>1, <2>4, <2>5, <3>2, <4>1
    <3>. QED
      BY <2>1, <2>3, <3>1, <3>2
  <2>. QED
    BY <2>5 DEF ChangesGenuine, Genuine
<1>4. ASSUME NEW s \in Seqs, NEW n \in Counts, RequestChange(s, n)
      PROVE  ChangesGenuine'
  <2>1. /\ calls' = calls \cup {[id |-> Fresh(calls), kind |-> "affect", seq |-> s,
                                 from |-> srv[s], lo |-> srv[s] + n, sq |-> Len(box)]}
        /\ affected' = affected \cup {[id |-> Fresh(calls), seq |-> s]} /\ CanSend
        /\ n > 0
        /\ log' = [log EXCEPT ![s] = @ \cup
                     {[pts |-> srv[s] + n, count |-> n, own |-> TRUE]}]
    BY <1>4 DEF RequestChange
  <2>2. n \in Nat /\ srv[s] \in Nat
    BY ConstantsAssumption DEF TypeOK
  <2>3. [pts |-> srv[s] + n, count |-> n, own |-> TRUE] \in log'[s]
    BY <2>1 DEF TypeOK
  <2>4. srv[s] < srv[s] + n /\ (srv[s] + n) - srv[s] = n
    BY <2>1, <2>2
  <2>5. Exists(srv'[s], log'[s], srv[s] + n, (srv[s] + n) - srv[s])
    BY <2>1, <2>3, <2>4 DEF Exists
  <2>6. ASSUME NEW c \in calls', c.kind = "affect"
        PROVE  /\ c.from < c.lo
               /\ Exists(srv'[c.seq], log'[c.seq], c.lo, c.lo - c.from)
               /\ \A a \in affected' : a.id = c.id => a.seq = c.seq
    <3>1. CASE c \in calls
      <4>1. \A a \in affected' : a \in affected \/ a.id = Fresh(calls)
        BY <2>1
      <4>2. c.id # Fresh(calls)
        BY <2>1, <3>1, FreshIsNew
      <4>. QED
        BY <1>1, <2>6, <3>1, <4>1, <4>2
    <3>2. CASE c = [id |-> Fresh(calls), kind |-> "affect", seq |-> s,
                    from |-> srv[s], lo |-> srv[s] + n, sq |-> Len(box)]
      <4>1. /\ c.from = srv[s] /\ c.lo = srv[s] + n /\ c.seq = s
            /\ c.id = Fresh(calls)
        BY <3>2
      <4>2. \A a \in affected' : a.id = c.id => a.seq = c.seq
        BY <2>1, <4>1, FreshIsNew
      <4>. QED
        BY <2>4, <2>5, <4>1, <4>2
    <3>. QED
      BY <2>1, <3>1, <3>2
  <2>. QED
    BY <2>6 DEF ChangesGenuine, Genuine
<1>. QED
  BY <1>2, <1>3, <1>4, CallsShape

-----------------------------------------------------------------------------
(***************************************************************************)
(* Positions.  HistoryGrows is what every step but a restart does to what  *)
(* the models were given; a position that changes is dropped or covered.   *)
(***************************************************************************)
HistoryGrows ==
  \A s \in Seqs : /\ seen[s] \in SUBSET seen'[s]
                  /\ floor[s] <= floor'[s] /\ lapse[s] <= lapse'[s]

\* Covered and Owed in the state after the step.
CoveredNext(s, p) ==
  \A e \in log'[s] : Larger(floor'[s], lapse'[s]) < e.pts /\ e.pts <= p
                       => e.pts \in seen'[s]

\* What happened to the position of s: kept, dropped, or moved to where
\* everything is covered.
Moved(s) ==
  \/ pts'[s] = pts[s] /\ (s = Common => valid' = valid \/ ~valid')
  \/ s # Common /\ pts'[s] = 0
  \/ s = Common /\ ~valid' /\ pts'[s] <= srv'[s]
  \/ pts'[s] <= srv'[s] /\ CoveredNext(s, pts'[s])

Moves ==
  /\ HistoryGrows
  /\ \A s \in Seqs : Moved(s)
  /\ seq' = seq \/ seq' <= Len(box)
  /\ saved' = saved \/ (valid' /\ saved' = [pts |-> pts', seq |-> seq'])

\* A step that touches neither the positions nor what was dispatched.
LEMMA Stays ==
  ASSUME TypeOK, UNCHANGED position, UNCHANGED history,
         saved' = saved \/ saved' = SavedAs(valid, pts, seq)
  PROVE  Moves
BY DEF position, history, Moves, HistoryGrows, Moved, TypeOK, SavedAs

\* What is covered stays covered while the log and the history grow.
LEMMA CoveredKept ==
  ASSUME TypeOK, TypeOK', LogGrows, HistoryGrows, NEW s \in Seqs, NEW p \in Nat,
         p <= srv[s], Covered(s, Owed(s), p)
  PROVE  CoveredNext(s, p)
<1>1. ASSUME NEW e \in log'[s], Larger(floor'[s], lapse'[s]) < e.pts, e.pts <= p
      PROVE  e.pts \in seen'[s]
  <2>1. e.pts \in Nat /\ srv[s] \in Nat
    <3>1. e \in Event /\ srv[s] \in Nat
      BY DEF TypeOK
    <3>. QED
      BY <3>1 DEF Event
  <2>2. e \in log[s]
    <3>1. \A x \in log'[s] \ log[s] : x.pts > srv[s]
      BY DEF LogGrows
    <3>. QED
      BY <1>1, <2>1, <3>1
  <2>3. /\ floor[s] \in Nat /\ floor'[s] \in Nat /\ lapse[s] \in Nat
        /\ lapse'[s] \in Nat
    BY DEF TypeOK
  <2>4. floor[s] <= floor'[s] /\ lapse[s] <= lapse'[s] /\ seen[s] \in SUBSET seen'[s]
    BY DEF HistoryGrows
  <2>5. Larger(floor[s], lapse[s]) < e.pts
    BY <1>1, <2>1, <2>3, <2>4 DEF Larger
  <2>. QED
    BY <1>1, <2>2, <2>4, <2>5 DEF Covered, Owed
<1>. QED
  BY <1>1 DEF CoveredNext

(***************************************************************************)
(* The heart of the matter: an update that check() lets through starts     *)
(* exactly where the position is, or where a channel was entered, so       *)
(* nothing lies unseen below the position it leaves.                       *)
(***************************************************************************)
LEMMA ApplyCovers ==
  ASSUME TypeOK, TypeOK', LogConsistent, UNCHANGED server, HistoryGrows,
         NEW s \in Seqs, NEW p \in Nat, NEW n \in Nat,
         Exists(srv[s], log[s], p, n), Check(pts[s], p, n) = "apply",
         Covered(s, Owed(s), pts[s]),
         n > 0 => p \in seen'[s], pts[s] = 0 => floor'[s] >= p - n
  PROVE  CoveredNext(s, p)
<1>1. ASSUME NEW e \in log'[s], Larger(floor'[s], lapse'[s]) < e.pts, e.pts <= p
      PROVE  e.pts \in seen'[s]
  <2>1. e \in log[s]
    BY DEF server
  <2>2. e.pts \in Nat /\ pts[s] \in Nat
    <3>1. e \in Event /\ pts[s] \in Nat
      BY <2>1 DEF TypeOK
    <3>. QED
      BY <3>1 DEF Event
  <2>3. /\ floor[s] \in Nat /\ floor'[s] \in Nat /\ lapse[s] \in Nat
        /\ lapse'[s] \in Nat
    BY DEF TypeOK
  <2>4. floor[s] <= floor'[s] /\ lapse[s] <= lapse'[s] /\ seen[s] \in SUBSET seen'[s]
    BY DEF HistoryGrows
  <2>5. CASE e.pts <= pts[s]
    <3>1. Larger(floor[s], lapse[s]) < e.pts
      BY <1>1, <2>2, <2>3, <2>4 DEF Larger
    <3>. QED
      BY <2>1, <2>4, <2>5, <3>1 DEF Covered, Owed
  <2>6. CASE e.pts > pts[s]
    <3>1. p - n < e.pts
      <4>1. CASE pts[s] = 0
        BY <1>1, <2>2, <2>3, <4>1 DEF Larger
      <4>2. CASE pts[s] # 0
        <5>1. pts[s] + n = p
          BY <2>2, <4>2 DEF Check
        <5>. QED
          BY <2>2, <2>6, <5>1
      <4>. QED
        BY <4>1, <4>2
    <3>2. n # 0
      BY <1>1, <2>2, <3>1
    <3>3. PICK f \in log[s] : f.pts = p /\ f.count = n
      BY <3>2 DEF Exists
    <3>4. e = f
      BY <1>1, <2>1, <3>1, <3>3 DEF LogConsistent
    <3>. QED
      BY <3>2, <3>3, <3>4
  <2>. QED
    BY <2>2, <2>5, <2>6
<1>. QED
  BY <1>1 DEF CoveredNext

\* A difference is appended to the position it was asked from.
LEMMA EnumeratedCovers ==
  ASSUME TypeOK, TypeOK', UNCHANGED server, HistoryGrows,
         NEW s \in Seqs, NEW a \in Nat, NEW p \in Nat,
         Covered(s, Owed(s), a), Enumerated(s, a, p) \in SUBSET seen'[s]
  PROVE  CoveredNext(s, p)
<1>1. ASSUME NEW e \in log'[s], Larger(floor'[s], lapse'[s]) < e.pts, e.pts <= p
      PROVE  e.pts \in seen'[s]
  <2>1. e \in log[s]
    BY DEF server
  <2>2. e.pts \in Nat
    <3>1. e \in Event
      BY <2>1 DEF TypeOK
    <3>. QED
      BY <3>1 DEF Event
  <2>3. /\ floor[s] \in Nat /\ floor'[s] \in Nat /\ lapse[s] \in Nat
        /\ lapse'[s] \in Nat
    BY DEF TypeOK
  <2>4. floor[s] <= floor'[s] /\ lapse[s] <= lapse'[s] /\ seen[s] \in SUBSET seen'[s]
    BY DEF HistoryGrows
  <2>5. CASE e.pts <= a
    <3>1. Larger(floor[s], lapse[s]) < e.pts
      BY <1>1, <2>2, <2>3, <2>4 DEF Larger
    <3>. QED
      BY <2>1, <2>4, <2>5, <3>1 DEF Covered, Owed
  <2>6. CASE a < e.pts
    BY <1>1, <2>1, <2>6 DEF Enumerated
  <2>. QED
    BY <2>2, <2>5, <2>6
<1>. QED
  BY <1>1 DEF CoveredNext

\* Where the models were told to start over, nothing is owed.
LEMMA FloorCovers ==
  ASSUME TypeOK', NEW s \in Seqs, NEW p \in Nat,
         floor'[s] >= p \/ lapse'[s] >= p
  PROVE  CoveredNext(s, p)
<1>1. ASSUME NEW e \in log'[s], Larger(floor'[s], lapse'[s]) < e.pts, e.pts <= p
      PROVE  FALSE
  <2>1. e \in Event
    BY DEF TypeOK
  <2>2. e.pts \in Nat /\ floor'[s] \in Nat /\ lapse'[s] \in Nat
    BY <2>1 DEF TypeOK, Event
  <2>. QED
    BY <1>1, <2>2 DEF Larger
<1>. QED
  BY <1>1 DEF CoveredNext

\* Raising one entry of a function of positions, and leaving it alone.
LEMMA Raised ==
  ASSUME NEW f \in [Seqs -> Nat], NEW s \in Seqs, NEW b \in Int
  PROVE  /\ Raise(f, s, b)[s] >= b
         /\ \A t \in Seqs : f[t] <= Raise(f, s, b)[t]
<1>1. /\ f[s] \in Nat /\ Raise(f, s, b)[s] = Larger(f[s], b)
      /\ \A t \in Seqs \ {s} : Raise(f, s, b)[t] = f[t]
  BY DEF Raise
<1>2. Larger(f[s], b) >= b /\ Larger(f[s], b) >= f[s]
  BY <1>1, LargerFact
<1>3. \A t \in Seqs : f[t] \in Nat
  OBVIOUS
<1>. QED
  BY <1>1, <1>2, <1>3

\* Nothing is given back by a step that leaves the history alone.
LEMMA Same ==
  ASSUME NEW f \in [Seqs -> Nat]
  PROVE  \A t \in Seqs : f[t] <= f[t]
OBVIOUS

\* emitOne() adds to what was dispatched and takes nothing away.
LEMMA EmitOneHistory ==
  ASSUME TypeOK, NEW s \in Seqs, NEW p \in Nat, NEW n \in Nat, EmitOne(s, p, n)
  PROVE  /\ HistoryGrows
         /\ n > 0 => p \in seen'[s]
         /\ pts[s] = 0 /\ s # Common => floor'[s] >= p - n
<1>1. floor \in [Seqs -> Nat] /\ lapse \in [Seqs -> Nat] /\ p - n \in Int
  BY DEF TypeOK
<1>2. \A t \in Seqs : seen[t] \in SUBSET seen'[t]
  BY DEF EmitOne, Delivered, TypeOK
<1>3. n > 0 => p \in seen'[s]
  BY DEF EmitOne, Delivered, TypeOK
<1>4. /\ lapse' = lapse
      /\ floor' = IF pts[s] = 0 /\ s # Common THEN Raise(floor, s, p - n) ELSE floor
  BY DEF EmitOne, Adopt
<1>5. /\ \A t \in Seqs : floor[t] <= floor'[t] /\ lapse[t] <= lapse'[t]
      /\ pts[s] = 0 /\ s # Common => floor'[s] >= p - n
  BY <1>1, <1>4, Raised, Same
<1>. QED
  BY <1>2, <1>3, <1>5 DEF HistoryGrows

\* The position after an update of s was applied: advance() and emitOne().
LEMMA AppliedMoves ==
  ASSUME TypeOK, TypeOK', LogConsistent, Seeded, Continuity, UNCHANGED server,
         UNCHANGED <<valid, seq>>, NEW s \in Seqs, NEW p \in Nat, NEW n \in Nat,
         Exists(srv[s], log[s], p, n), Check(pts[s], p, n) = "apply",
         pts' = AdvanceTo(pts, s, p), HistoryGrows,
         n > 0 => p \in seen'[s], pts[s] = 0 /\ s # Common => floor'[s] >= p - n,
         saved' = saved \/ saved' = SavedAs(valid, pts', seq)
  PROVE  Moves
<1>1. pts[s] \in Nat /\ srv[s] \in Nat /\ srv' = srv
  BY DEF TypeOK, server
<1>2. p <= srv[s]
  BY GenuineBound
<1>3. pts[s] <= p
  BY <1>1 DEF Check
<1>4. pts'[s] = p /\ \A t \in Seqs \ {s} : pts'[t] = pts[t]
  <2>1. Larger(pts[s], p) = p
    BY <1>1, <1>3 DEF Larger
  <2>. QED
    BY <2>1 DEF AdvanceTo, TypeOK
<1>5. Moved(s)
  <2>1. CASE s = Common /\ ~valid
    BY <1>1, <1>2, <1>4, <2>1 DEF Moved
  <2>2. CASE s # Common \/ valid
    <3>1. Covered(s, Owed(s), pts[s])
      BY <2>2 DEF Continuity, Seqs
    <3>2. pts[s] = 0 => floor'[s] >= p - n
      BY <1>1, <2>2 DEF Seeded
    <3>3. CoveredNext(s, p)
      BY <3>1, <3>2, ApplyCovers
    <3>. QED
      BY <1>1, <1>2, <1>4, <3>3 DEF Moved
  <2>. QED
    BY <2>1, <2>2
<1>6. \A t \in Seqs : Moved(t)
  BY <1>4, <1>5 DEF Moved
<1>. QED
  BY <1>6 DEF Moves, SavedAs

\* The loops of applyOne and drainPending move positions soundly.
LEMMA LoopMoves ==
  ASSUME TypeOK, TypeOK', LogConsistent, ItemsGenuine, Seeded, Continuity, Loop
  PROVE  Moves
<1>1. ASSUME NEW u, HoldUnseeded(u) \/ DropDuplicate(u) \/ ParkGap(u)
      PROVE  Moves
  BY <1>1, Stays DEF HoldUnseeded, DropDuplicate, ParkGap
<1>2. ASSUME NEW u, ApplyNext(u)
      PROVE  Moves
  <2>1. u = todo[1] /\ 1 \in DOMAIN todo /\ todo[1] \in Update
    <3>1. todo \in Seq(Update) /\ todo # <<>> /\ u = Head(todo)
      BY <1>2 DEF ApplyNext, Applying, TypeOK
    <3>. QED
      BY <3>1
  <2>2. u.seq \in Seqs /\ u.pts \in Nat /\ u.count \in Nat
    BY <2>1 DEF Update
  <2>3. Exists(srv[u.seq], log[u.seq], u.pts, u.count)
    BY <2>1 DEF ItemsGenuine, TodoGenuine, Genuine
  <2>4. /\ EmitOne(u.seq, u.pts, u.count) /\ pts' = AdvanceTo(pts, u.seq, u.pts)
        /\ Check(pts[u.seq], u.pts, u.count) = "apply"
        /\ saved' = saved \/ saved' = SavedAs(valid, pts', seq)
        /\ UNCHANGED server /\ UNCHANGED <<valid, seq>>
    BY <1>2 DEF ApplyNext, Verdict, MaybeSave
  <2>5. /\ HistoryGrows
        /\ u.count > 0 => u.pts \in seen'[u.seq]
        /\ pts[u.seq] = 0 /\ u.seq # Common => floor'[u.seq] >= u.pts - u.count
    BY <2>2, <2>4, EmitOneHistory
  <2>. QED
    BY <2>2, <2>3, <2>4, <2>5, AppliedMoves
<1>3. ASSUME NEW s \in Seqs, NEW i \in DOMAIN pending[s], DrainApply(s, i)
      PROVE  Moves
  <2>1. pending[s][i] \in Item
    <3>1. pending[s] \in Seq(Item)
      BY DEF TypeOK
    <3>. QED
      BY <3>1
  <2>2. pending[s][i].pts \in Nat /\ pending[s][i].count \in Nat
    BY <2>1 DEF Item
  <2>3. Exists(srv[s], log[s], pending[s][i].pts, pending[s][i].count)
    BY DEF ItemsGenuine, PendingGenuine, Genuine
  <2>4. /\ EmitOne(s, pending[s][i].pts, pending[s][i].count)
        /\ pts' = AdvanceTo(pts, s, pending[s][i].pts)
        /\ Check(pts[s], pending[s][i].pts, pending[s][i].count) = "apply"
        /\ saved' = saved /\ UNCHANGED server /\ UNCHANGED <<valid, seq>>
    BY <1>3 DEF DrainApply, Verdict
  <2>5. /\ HistoryGrows
        /\ pending[s][i].count > 0 => pending[s][i].pts \in seen'[s]
        /\ pts[s] = 0 /\ s # Common
             => floor'[s] >= pending[s][i].pts - pending[s][i].count
    BY <2>2, <2>4, EmitOneHistory
  <2>. QED
    BY <2>2, <2>3, <2>4, <2>5, AppliedMoves
<1>4. ASSUME NEW s, NEW i, DrainDrop(s, i)
      PROVE  Moves
  BY <1>4, Stays DEF DrainDrop
<1>5. ASSUME DrainDone \/ PumpSend \/ PumpSkip \/ PumpDone \/ NextSlice
      PROVE  Moves
  BY <1>5, Stays DEF DrainDone, PumpSend, PumpSkip, PumpDone, NextSlice
<1>. QED
  BY <1>1, <1>2, <1>3, <1>4, <1>5 DEF Loop

\* So does handleAffected().
LEMMA AffectedMoves ==
  ASSUME TypeOK, TypeOK', LogConsistent, ChangesGenuine, Seeded, Continuity,
         NEW c \in calls, HandleAffected(c)
  PROVE  Moves
<1>1. PICK a : a = CHOOSE x \in affected : x.id = c.id
  OBVIOUS
<1>2. a \in affected /\ a.id = c.id /\ c.kind = "affect"
  BY <1>1 DEF HandleAffected, Reply
<1>3. c.seq \in Seqs /\ c.lo \in Nat /\ c.from \in Nat
  BY DEF TypeOK, Call
<1>4. /\ a.seq = c.seq /\ c.from < c.lo
      /\ Exists(srv[c.seq], log[c.seq], c.lo, c.lo - c.from)
  BY <1>2 DEF ChangesGenuine, Genuine
<1>5. CASE Check(pts[a.seq], c.lo, c.lo - c.from) = "apply"
  <2>1. /\ pts' = AdvanceTo(pts, a.seq, c.lo) /\ MaybeSave(valid, pts', seq)
        /\ seen' = Delivered(a.seq, {c.lo})
        /\ floor' = (IF pts[a.seq] = 0 /\ a.seq # Common
                     THEN Adopt(a.seq, c.from) ELSE floor)
        /\ UNCHANGED server /\ UNCHANGED <<valid, seq>> /\ lapse' = lapse
    BY <1>1, <1>5 DEF HandleAffected
  <2>2. c.lo - c.from \in Nat /\ c.lo - (c.lo - c.from) = c.from
    BY <1>3, <1>4
  <2>3. floor \in [Seqs -> Nat] /\ lapse \in [Seqs -> Nat]
    BY DEF TypeOK
  <2>4. floor' = IF pts[c.seq] = 0 /\ c.seq # Common THEN Raise(floor, c.seq, c.from)
                 ELSE floor
    BY <1>4, <2>1 DEF Adopt
  <2>5. /\ \A t \in Seqs : floor[t] <= floor'[t] /\ lapse[t] <= lapse'[t]
        /\ pts[c.seq] = 0 /\ c.seq # Common => floor'[c.seq] >= c.from
    BY <1>3, <2>1, <2>3, <2>4, Raised, Same
  <2>8. /\ \A t \in Seqs : seen[t] \in SUBSET seen'[t]
        /\ c.lo \in seen'[c.seq]
    BY <1>3, <1>4, <2>1 DEF Delivered, TypeOK
  <2>10. HistoryGrows
    BY <2>5, <2>8 DEF HistoryGrows
  <2>11. saved' = saved \/ saved' = SavedAs(valid, pts', seq)
    BY <2>1 DEF MaybeSave
  <2>12. /\ c.lo - c.from > 0 => c.lo \in seen'[c.seq]
         /\ pts[c.seq] = 0 /\ c.seq # Common => floor'[c.seq] >= c.lo - (c.lo - c.from)
    BY <2>2, <2>5, <2>8
  <2>. QED
    BY <1>3, <1>4, <1>5, <2>1, <2>2, <2>10, <2>11, <2>12, AppliedMoves
<1>6. CASE Check(pts[a.seq], c.lo, c.lo - c.from) # "apply"
  <2>1. UNCHANGED <<valid, seq, pts, saved, seen, floor, lapse>>
    BY <1>1, <1>6 DEF HandleAffected
  <2>. QED
    BY <2>1, Stays DEF position, history
<1>. QED
  BY <1>5, <1>6

\* handleState() and handleDifference().
LEMMA CommonReplyMoves ==
  ASSUME TypeOK, TypeOK', LogConsistent, MatchedCovered, Seeded, Bounded,
         Continuity, NEW c \in calls,
         NEW p \in Boundaries(Common), NEW q \in 0 .. Len(box),
         \/ HandleState(c, p, q) \/ DifferenceTooLong(c, p)
         \/ \E u \in Carriable, chats \in SUBSET Channels :
              DifferenceBody(c, p, q, u, chats)
  PROVE  Moves
<1>1. Common \in Seqs /\ Common \notin Channels
  BY CommonIsNoChannel DEF Seqs
<1>2. p \in Nat /\ p <= srv[Common]
  BY <1>1, BoundaryBound
<1>3. floor \in [Seqs -> Nat] /\ lapse \in [Seqs -> Nat] /\ pts \in [Seqs -> Nat]
  BY DEF TypeOK
<1>4. q <= Len(box)
  BY DEF TypeOK
<1>8. /\ Raise(floor, Common, p)[Common] >= p
      /\ \A t \in Seqs : floor[t] <= Raise(floor, Common, p)[t]
  BY SMTT(30), <1>1, <1>2, <1>3, Raised
<1>5. CASE HandleState(c, p, q)
  <2>1. /\ UNCHANGED server /\ valid' /\ pts' = SetTo(pts, Common, p) /\ seq' = q
        /\ saved' = SavedAs(TRUE, pts', seq') /\ seen' = seen
        /\ IF floor[Common] = 0
           THEN floor' = Raise(floor, Common, p) /\ lapse' = lapse
           ELSE lapse' = Raise(lapse, Common, p) /\ floor' = floor
    BY <1>5 DEF HandleState, Adopt
  <2>2. /\ \A t \in Seqs : floor[t] <= floor'[t] /\ lapse[t] <= lapse'[t]
        /\ floor'[Common] >= p \/ lapse'[Common] >= p
    <3>1. CASE floor[Common] = 0
      BY <1>1, <1>2, <1>3, <2>1, <3>1, Raised, Same
    <3>2. CASE floor[Common] # 0
      BY <1>1, <1>2, <1>3, <2>1, <3>2, Raised, Same
    <3>. QED
      BY <3>1, <3>2
  <2>3. floor'[Common] >= p \/ lapse'[Common] >= p
    BY <2>2
  <2>4. CoveredNext(Common, p)
    BY <1>1, <1>2, <2>3, FloorCovers
  <2>5. pts'[Common] = p /\ \A t \in Channels : pts'[t] = pts[t]
    BY <1>1, <2>1 DEF SetTo, TypeOK, Seqs
  <2>6. HistoryGrows
    BY <2>1, <2>2 DEF HistoryGrows
  <2>7. \A t \in Seqs : Moved(t)
    BY <1>1, <1>2, <2>1, <2>4, <2>5 DEF Moved, server, Seqs
  <2>. QED
    BY <1>4, <2>1, <2>6, <2>7 DEF Moves, SavedAs
<1>6. CASE DifferenceTooLong(c, p)
  <2>1. /\ UNCHANGED server /\ valid' /\ pts' = ClearChannels(SetTo(pts, Common, p))
        /\ seq' = seq /\ saved' = SavedAs(TRUE, pts', seq) /\ seen' = seen
        /\ lapse' = lapse /\ floor' = Raise(floor, Common, p)
    BY <1>6 DEF DifferenceTooLong, Adopt
  <2>2. \A t \in Seqs : floor[t] <= floor'[t] /\ lapse[t] <= lapse'[t]
    <3>1. \A t \in Seqs : lapse[t] <= lapse[t]
      BY <1>3, Same
    <3>2. \A t \in Seqs : floor[t] <= Raise(floor, Common, p)[t]
      BY <1>8
    <3>. QED
      BY <2>1, <3>1, <3>2
  <2>3. floor'[Common] >= p
    BY <1>8, <2>1
  <2>4. CoveredNext(Common, p)
    BY <1>1, <1>2, <2>3, FloorCovers
  <2>5. pts'[Common] = p /\ \A t \in Channels : pts'[t] = 0
    BY <1>1, <2>1 DEF SetTo, ClearChannels, TypeOK, Seqs
  <2>6. HistoryGrows
    BY <2>1, <2>2 DEF HistoryGrows
  <2>7. \A t \in Seqs : Moved(t)
    BY <1>1, <1>2, <2>1, <2>4, <2>5 DEF Moved, server, Seqs
  <2>. QED
    BY <2>1, <2>6, <2>7 DEF Moves, SavedAs
<1>7. ASSUME NEW u \in Carriable, NEW chats \in SUBSET Channels,
             DifferenceBody(c, p, q, u, chats)
      PROVE  Moves
  <2>1. /\ UNCHANGED server /\ valid' /\ seq' = q
        /\ pts' = SetTo(AdvanceTo(pts, u.seq, u.pts), Common, p)
        /\ saved' = SavedAs(TRUE, pts', seq')
        /\ CarriedHistory(u, Enumerated(Common, c.from, p))
        /\ c.kind = "diff" /\ c.id = diffReq
    BY <1>7 DEF DifferenceBody, Reply
  <2>2. /\ c.from \in Nat /\ Covered(Common, Owed(Common), c.from)
    BY <2>1 DEF MatchedCovered, TypeOK, Call
  <2>3. /\ u.seq \in Seqs /\ u.pts \in Nat /\ u.count \in Nat
        /\ u.seq = Common => u.pts = 0 /\ u.count = 0
        /\ u.seq # Common => \E e \in log[u.seq] : e.pts = u.pts /\ e.count = u.count
    <3>1. CASE u = NoCarry
      BY <1>1, <3>1 DEF NoCarry
    <3>2. ASSUME NEW d \in Channels, NEW e \in log[d],
                 u = [seq |-> d, pts |-> e.pts, count |-> e.count]
          PROVE  /\ u.seq \in Seqs /\ u.pts \in Nat /\ u.count \in Nat
                 /\ u.seq # Common /\ e \in log[u.seq]
                 /\ e.pts = u.pts /\ e.count = u.count
      <4>1. d \in Seqs /\ e \in Event
        BY DEF Seqs, TypeOK
      <4>. QED
        BY <1>1, <3>2, <4>1 DEF Event
    <3>. QED
      BY <3>1, <3>2 DEF Carriable
  <2>4. /\ u.pts - u.count \in Int /\ floor[u.seq] \in Nat /\ lapse[u.seq] \in Nat
        /\ pts[u.seq] \in Nat
    BY <1>3, <2>3
  <2>6. /\ \A t \in Seqs : floor[t] <= floor'[t] /\ lapse[t] <= lapse'[t]
        /\ u.seq # Common =>
             \/ pts[u.seq] = 0 /\ floor'[u.seq] >= u.pts - u.count
             \/ pts[u.seq] # 0 /\ lapse'[u.seq] >= u.pts - u.count
             \/ pts[u.seq] # 0 /\ pts[u.seq] >= u.pts - u.count
    <3>1. floor' = (IF pts[u.seq] = 0 /\ u.seq # Common
                    THEN Raise(floor, u.seq, u.pts - u.count)
                    ELSE floor)
      BY <2>1 DEF CarriedHistory, Adopt
    <3>2. lapse' = (IF pts[u.seq] # 0 /\ u.pts - u.count > pts[u.seq]
                    THEN Raise(lapse, u.seq, u.pts - u.count)
                    ELSE lapse)
      BY <2>1 DEF CarriedHistory
    <3>3. /\ \A t \in Seqs : floor[t] <= floor'[t]
          /\ u.seq # Common /\ pts[u.seq] = 0 => floor'[u.seq] >= u.pts - u.count
      <4>1. CASE pts[u.seq] = 0 /\ u.seq # Common
        BY <1>3, <2>3, <2>4, <3>1, <4>1, Raised
      <4>2. CASE ~(pts[u.seq] = 0 /\ u.seq # Common)
        BY <1>3, <3>1, <4>2, Same
      <4>. QED
        BY <4>1, <4>2
    <3>4. /\ \A t \in Seqs : lapse[t] <= lapse'[t]
          /\ pts[u.seq] # 0 /\ u.pts - u.count > pts[u.seq]
               => lapse'[u.seq] >= u.pts - u.count
      <4>1. CASE pts[u.seq] # 0 /\ u.pts - u.count > pts[u.seq]
        BY <1>3, <2>3, <2>4, <3>2, <4>1, Raised
      <4>2. CASE ~(pts[u.seq] # 0 /\ u.pts - u.count > pts[u.seq])
        BY <1>3, <3>2, <4>2, Same
      <4>. QED
        BY <4>1, <4>2
    <3>. QED
      BY <2>4, <3>3, <3>4
  <2>7. /\ \A t \in Seqs : seen[t] \in SUBSET seen'[t]
        /\ Enumerated(Common, c.from, p) \in SUBSET seen'[Common]
        /\ u.pts # 0 => u.pts \in seen'[u.seq]
    BY <1>1, <2>1, <2>3 DEF CarriedHistory
  <2>8. HistoryGrows
    BY <2>6, <2>7 DEF HistoryGrows
  <2>9. CoveredNext(Common, p)
    BY <1>1, <1>2, <2>1, <2>2, <2>7, <2>8, EnumeratedCovers
  <2>10. pts'[Common] = p
    BY <1>1, <2>1 DEF SetTo, AdvanceTo, TypeOK
  <2>11. ASSUME NEW t \in Channels
         PROVE  Moved(t)
    <3>1. t \in Seqs /\ t # Common
      BY <1>1 DEF Seqs
    <3>2. CASE t # u.seq
      BY <2>1, <3>1, <3>2 DEF SetTo, AdvanceTo, TypeOK, Moved
    <3>3. CASE t = u.seq
      <4>1. pts'[t] = Larger(pts[t], u.pts)
        BY <2>1, <3>1, <3>3 DEF SetTo, AdvanceTo, TypeOK
      <4>2. CASE u.pts <= pts[t]
        <5>1. pts'[t] = pts[t]
          BY <2>3, <2>4, <3>3, <4>1, <4>2 DEF Larger
        <5>. QED
          BY <3>1, <5>1 DEF Moved
      <4>3. CASE u.pts > pts[t]
        <5>1. pts'[t] = u.pts
          BY <2>3, <2>4, <3>3, <4>1, <4>3 DEF Larger
        <5>2. PICK f \in log[t] : f.pts = u.pts /\ f.count = u.count
          BY <2>3, <3>1, <3>3
        <5>3. u.pts <= srv[t] /\ u.count > 0
          BY <3>1, <5>2 DEF LogConsistent
        <5>4. Covered(t, Owed(t), pts[t])
          BY DEF Continuity
        <5>5. ASSUME NEW e \in log'[t], Larger(floor'[t], lapse'[t]) < e.pts,
                     e.pts <= u.pts
              PROVE  e.pts \in seen'[t]
          <6>1. e \in log[t] /\ e \in Event
            BY <2>1, <3>1 DEF server, TypeOK
          <6>2. e.pts \in Nat /\ pts[t] \in Nat /\ floor[t] \in Nat /\ lapse[t] \in Nat
                /\ floor'[t] \in Nat /\ lapse'[t] \in Nat
            BY <3>1, <6>1 DEF TypeOK, Event
          <6>3. CASE e.pts <= pts[t]
            <7>1. floor[t] <= floor'[t] /\ lapse[t] <= lapse'[t]
              BY <2>8, <3>1 DEF HistoryGrows
            <7>2. Larger(floor[t], lapse[t]) < e.pts
              BY <5>5, <6>2, <7>1 DEF Larger
            <7>. QED
              BY <2>7, <3>1, <5>4, <6>1, <6>3, <7>2 DEF Covered, Owed
          <6>4. CASE pts[t] < e.pts
            <7>1. u.pts - u.count < e.pts
              <8>1. floor'[t] < e.pts /\ lapse'[t] < e.pts
                BY <5>5, <6>2 DEF Larger
              <8>2. u.pts \in Nat /\ u.count \in Nat
                BY <2>3
              <8>3. \/ floor'[t] >= u.pts - u.count
                    \/ lapse'[t] >= u.pts - u.count
                    \/ u.pts - u.count <= pts[t]
                BY <2>6, <3>1, <3>3, <6>2, <8>2
              <8>. QED
                BY SMTT(30), <6>2, <6>4, <8>1, <8>2, <8>3
            <7>2. e = f
              BY <3>1, <5>2, <5>5, <6>1, <7>1 DEF LogConsistent
            <7>. QED
              BY <2>3, <2>7, <3>3, <4>3, <5>2, <6>2, <7>2
          <6>. QED
            BY <6>2, <6>3, <6>4
        <5>. QED
          BY <2>1, <5>1, <5>3, <5>5 DEF Moved, CoveredNext, server
      <4>. QED
        BY <2>3, <2>4, <3>3, <4>2, <4>3
    <3>. QED
      BY <3>2, <3>3
  <2>12. Moved(Common)
    BY <1>2, <2>1, <2>9, <2>10 DEF Moved, server
  <2>13. \A t \in Seqs : Moved(t)
    BY <2>11, <2>12 DEF Seqs
  <2>. QED
    BY <1>4, <2>1, <2>8, <2>13 DEF Moves, SavedAs
<1>. QED
  BY <1>5, <1>6, <1>7

\* handleChannelDifference().
LEMMA ChannelReplyMoves ==
  ASSUME TypeOK, TypeOK', LogConsistent, MatchedCovered, NEW c \in calls,
         NEW p \in Boundaries(c.seq), NEW chats,
         \/ ChannelEmpty(c) \/ ChannelTooLong(c, p, chats)
         \/ \E final \in BOOLEAN : ChannelDifference(c, p, final, chats)
  PROVE  Moves
<1>1. ChannelReply(c) /\ ChannelDone
  BY DEF ChannelEmpty, ChannelTooLong, ChannelDifference
<1>2. c.seq \in Channels /\ c.seq \in Seqs /\ c.seq # Common /\ c.from \in Nat
  BY <1>1, CommonIsNoChannel DEF ChannelReply, TypeOK, Call, Seqs
<1>3. c.from <= srv[c.seq] /\ Covered(c.seq, Owed(c.seq), c.from)
  BY <1>1 DEF ChannelReply, Reply, MatchedCovered
<1>4. p \in Nat /\ p <= srv[c.seq]
  BY <1>2, BoundaryBound
<1>5. /\ UNCHANGED server /\ UNCHANGED <<valid, seq>>
      /\ saved' = SavedAs(valid, pts', seq)
  BY <1>1 DEF ChannelDone
<1>6. floor \in [Seqs -> Nat] /\ lapse \in [Seqs -> Nat]
  BY DEF TypeOK
<1>7. ASSUME NEW x \in Nat, x <= srv[c.seq], pts' = SetTo(pts, c.seq, x),
             HistoryGrows, CoveredNext(c.seq, x)
      PROVE  Moves
  <2>1. pts'[c.seq] = x /\ \A t \in Seqs \ {c.seq} : pts'[t] = pts[t]
    BY <1>2, <1>7 DEF SetTo, TypeOK
  <2>2. \A t \in Seqs : Moved(t)
    BY <1>5, <1>7, <2>1 DEF Moved, server
  <2>. QED
    BY <1>5, <1>7, <2>2 DEF Moves, SavedAs
<1>8. CASE ChannelEmpty(c)
  <2>1. pts' = SetTo(pts, c.seq, c.from) /\ UNCHANGED <<seen, floor, lapse>>
    BY <1>8 DEF ChannelEmpty, history
  <2>2. HistoryGrows
    BY <1>6, <2>1, Same DEF HistoryGrows
  <2>3. LogGrows
    BY <1>5, ServerAlone
  <2>4. CoveredNext(c.seq, c.from)
    BY <1>2, <1>3, <2>2, <2>3, CoveredKept
  <2>. QED
    BY <1>2, <1>3, <1>7, <2>1, <2>2, <2>4
<1>9. CASE ChannelTooLong(c, p, chats)
  <2>1. /\ pts' = SetTo(pts, c.seq, p) /\ UNCHANGED <<seen, lapse>>
        /\ floor' = Raise(floor, c.seq, p)
    BY <1>9 DEF ChannelTooLong, Adopt
  <2>2. /\ \A t \in Seqs : floor[t] <= Raise(floor, c.seq, p)[t]
        /\ Raise(floor, c.seq, p)[c.seq] >= p
    BY <1>2, <1>4, <1>6, Raised
  <2>3. \A t \in Seqs : lapse[t] <= lapse[t]
    BY <1>6, Same
  <2>4. HistoryGrows
    BY <2>1, <2>2, <2>3 DEF HistoryGrows
  <2>5. CoveredNext(c.seq, p)
    BY <1>2, <1>4, <2>1, <2>2, FloorCovers
  <2>. QED
    BY <1>4, <1>7, <2>1, <2>4, <2>5
<1>10. ASSUME NEW final \in BOOLEAN, ChannelDifference(c, p, final, chats)
       PROVE  Moves
  <2>1. /\ pts' = SetTo(pts, c.seq, p) /\ UNCHANGED <<floor, lapse>>
        /\ seen' = Delivered(c.seq, Enumerated(c.seq, c.from, p))
    BY <1>10 DEF ChannelDifference
  <2>2. /\ \A t \in Seqs : seen[t] \in SUBSET seen'[t]
        /\ Enumerated(c.seq, c.from, p) \in SUBSET seen'[c.seq]
    BY <1>2, <2>1 DEF Delivered, TypeOK
  <2>3. HistoryGrows
    BY <1>6, <2>1, <2>2, Same DEF HistoryGrows
  <2>4. CoveredNext(c.seq, p)
    BY <1>2, <1>3, <1>4, <1>5, <2>2, <2>3, EnumeratedCovers
  <2>. QED
    BY <1>4, <1>7, <2>1, <2>3, <2>4
<1>. QED
  BY <1>8, <1>9, <1>10

\* StaleReply, the failures and the rename.
LEMMA FailMoves ==
  ASSUME TypeOK, TypeOK', NEW c \in calls,
         Fail(c) \/ StaleReply(c) \/ MessageChanged(c)
  PROVE  Moves
<1>1. floor \in [Seqs -> Nat] /\ lapse \in [Seqs -> Nat]
      /\ \A t \in Seqs : srv[t] \in Nat
  BY DEF TypeOK
<1>2. UNCHANGED history => HistoryGrows
  BY <1>1, Same DEF history, HistoryGrows
<1>3. CASE DifferenceRejected(c)
  <2>1. /\ ~valid' /\ pts' = NoPosition /\ UNCHANGED server
        /\ saved' = saved /\ seq' = 0 /\ HistoryGrows
    BY <1>2, <1>3 DEF DifferenceRejected
  <2>2. \A t \in Seqs : Moved(t)
    BY <1>1, <2>1 DEF Moved, NoPosition, server
  <2>3. 0 <= Len(box)
    BY DEF TypeOK
  <2>. QED
    BY <2>1, <2>2, <2>3 DEF Moves
<1>4. CASE ChannelUnreachable(c)
  <2>1. c.seq \in Channels /\ c.seq \in Seqs /\ c.seq # Common
    BY <1>4, CommonIsNoChannel DEF ChannelUnreachable, ChannelReply, TypeOK, Seqs
  <2>2. /\ pts' = SetTo(pts, c.seq, 0) /\ UNCHANGED <<valid, seq>>
        /\ saved' = saved /\ HistoryGrows
    BY <1>2, <1>4 DEF ChannelUnreachable
  <2>3. pts'[c.seq] = 0 /\ \A t \in Seqs \ {c.seq} : pts'[t] = pts[t]
    BY <2>1, <2>2 DEF SetTo, TypeOK
  <2>4. \A t \in Seqs : Moved(t)
    BY <2>1, <2>2, <2>3 DEF Moved
  <2>. QED
    BY <2>2, <2>4 DEF Moves
<1>5. CASE ~DifferenceRejected(c) /\ ~ChannelUnreachable(c)
  BY <1>5, Stays DEF Fail, StateUndecoded, DifferenceUndecoded, ChannelUndecoded,
     StateError, DifferenceError, ChannelError, StaleReply, MessageChanged
<1>. QED
  BY <1>3, <1>4, <1>5

\* So does every step that is not a restart.
LEMMA MovesShape ==
  ASSUME IInv, TypeOK', [Next]_vars
  PROVE  Moves \/ Restart
<1>. USE DEF IInv, Ground
<1>1. Serve => Moves
  BY Stays DEF Serve, Produce, RequestChange
<1>2. ASSUME Receive
      PROVE  Moves
  <2>1. ASSUME NEW i \in DOMAIN box, NEW j \in DOMAIN box, NEW chats,
               ReceiveContainer(i, j, chats)
        PROVE  Moves
    <3>1. /\ UNCHANGED <<valid, pts, saved, seen, floor, lapse>>
          /\ seq' = seq \/ seq' = Larger(seq, j)
      BY <2>1 DEF ReceiveContainer, history
    <3>2. j \in Nat /\ j <= Len(box) /\ seq \in Nat /\ seq <= Len(box)
          /\ Len(box) \in Nat
      BY SMTT(30) DEF TypeOK, Bounded, NeverAhead
    <3>3. seq' = seq \/ seq' <= Len(box)
      BY <3>1, <3>2 DEF Larger
    <3>4. HistoryGrows
      BY <3>1, Same DEF HistoryGrows, TypeOK
    <3>. QED
      BY <3>1, <3>3, <3>4 DEF Moves, Moved
  <2>. QED
    BY <1>2, <2>1, Stays DEF Receive, ReceiveUpdate, ReceiveTooLong,
       ReceiveChannelTooLong
<1>3. Loop => Moves
  BY LoopMoves
<1>4. ASSUME NEW c \in calls, Handle(c)
      PROVE  Moves
  <2>1. /\ Base \in Boundaries(Common) /\ Base \in Boundaries(c.seq)
        /\ NoCarry \in Carriable
    BY DEF Boundaries, Carriable
  <2>2. StaleReply(c) => Moves
    BY FailMoves
  <2>3. ASSUME NEW p \in Boundaries(Common), NEW q \in 0 .. Len(box),
               HandleState(c, p, q)
        PROVE  Moves
    BY <2>3, CommonReplyMoves
  <2>4. ASSUME NEW q \in 0 .. Len(box), DifferenceEmpty(c, q)
        PROVE  Moves
    <3>1. UNCHANGED <<valid, pts, saved, seen, floor, lapse>> /\ seq' = Larger(seq, q)
      BY <2>4 DEF DifferenceEmpty, history
    <3>2. q \in Nat /\ q <= Len(box) /\ seq \in Nat /\ seq <= Len(box)
          /\ Len(box) \in Nat
      BY DEF TypeOK, Bounded, NeverAhead
    <3>3. seq' <= Len(box)
      BY <3>1, <3>2 DEF Larger
    <3>4. HistoryGrows
      BY <3>1, Same DEF HistoryGrows, TypeOK
    <3>. QED
      BY <3>1, <3>3, <3>4 DEF Moves, Moved
  <2>5. ASSUME NEW p \in Boundaries(Common), NEW q \in 0 .. Len(box),
               NEW chats \in Chats,
               \/ \E carry \in Carriable : DifferenceFinal(c, p, q, carry, chats)
               \/ DifferenceSlice(c, p, q, chats)
        PROVE  Moves
    <3>1. chats \in SUBSET Channels
      BY ConstantsAssumption
    <3>2. \E u \in Carriable : DifferenceBody(c, p, q, u, chats)
      BY <2>1, <2>5 DEF DifferenceFinal, DifferenceSlice
    <3>. QED
      BY <3>1, <3>2, CommonReplyMoves
  <2>6. ASSUME NEW p \in Boundaries(Common), DifferenceTooLong(c, p)
        PROVE  Moves
    <3>1. 0 \in 0 .. Len(box)
      BY DEF TypeOK
    <3>. QED
      BY <2>6, <3>1, CommonReplyMoves
  <2>7. ChannelEmpty(c) => Moves
    BY <2>1, ChannelReplyMoves
  <2>8. ASSUME NEW p \in Boundaries(c.seq), NEW chats \in Chats,
               \/ \E final \in BOOLEAN : ChannelDifference(c, p, final, chats)
               \/ ChannelTooLong(c, p, chats)
        PROVE  Moves
    BY <2>8, ChannelReplyMoves
  <2>9. HandleAffected(c) => Moves
    BY AffectedMoves
  <2>. QED
    BY <1>4, <2>2, <2>3, <2>4, <2>5, <2>6, <2>7, <2>8, <2>9 DEF Handle
<1>5. ASSUME NEW c \in calls, Fail(c) \/ MessageChanged(c)
      PROVE  Moves
  BY <1>5, FailMoves
<1>6. GapTimer \/ Connected \/ Authorized \/ Disconnected => Moves
  BY Stays DEF GapTimer, Connected, Authorized, Disconnected
<1>7. UNCHANGED vars => Moves
  BY Stays DEF vars
<1>. QED
  BY <1>1, <1>2, <1>3, <1>4, <1>5, <1>6, <1>7 DEF Next

\* How the common position and the valid flag move.
LEMMA SeedShape ==
  ASSUME TypeOK, TypeOK', LogConsistent, [Next]_vars
  PROVE  \/ valid' = valid /\ pts'[Common] >= pts[Common]
         \/ valid' /\ pts'[Common] > 0
         \/ ~valid' /\ diffReq' = NoReq
         \/ Restart
<1>. DEFINE Kept == valid' = valid /\ pts'[Common] >= pts[Common]
<1>1. Common \in Seqs /\ Common \notin Channels /\ pts[Common] \in Nat
      /\ pts \in [Seqs -> Nat]
  BY CommonIsNoChannel DEF Seqs, TypeOK
<1>2. UNCHANGED position => Kept
  BY <1>1 DEF position
<1>3. UNCHANGED <<valid, pts>> => Kept
  BY <1>1
<1>4. \A s \in Seqs, p \in Nat : pts' = AdvanceTo(pts, s, p) /\ valid' = valid => Kept
  <2>1. \A s \in Seqs, p \in Nat : AdvanceTo(pts, s, p) = Raise(pts, s, p)
    BY DEF AdvanceTo, Raise
  <2>2. \A s \in Seqs, p \in Nat : pts[Common] <= Raise(pts, s, p)[Common]
    BY <1>1, Raised
  <2>3. pts'[Common] \in Nat
    BY <1>1 DEF TypeOK
  <2>. QED
    BY <1>1, <2>1, <2>2, <2>3
<1>5. Serve => Kept
  BY <1>2 DEF Serve, Produce, RequestChange
<1>6. Receive => Kept
  BY <1>2, <1>3 DEF Receive, ReceiveUpdate, ReceiveContainer, ReceiveTooLong,
     ReceiveChannelTooLong
<1>7. ASSUME Loop
      PROVE  Kept
  <2>1. ASSUME NEW u, ApplyNext(u)
        PROVE  Kept
    <3>1. todo \in Seq(Update) /\ todo # <<>> /\ u = Head(todo)
      BY <2>1 DEF ApplyNext, Applying, TypeOK
    <3>2. u \in Update
      BY <3>1
    <3>3. u.seq \in Seqs /\ u.pts \in Nat
      BY <3>2 DEF Update
    <3>. QED
      BY <1>4, <2>1, <3>3 DEF ApplyNext
  <2>2. ASSUME NEW s \in Seqs, NEW i \in DOMAIN pending[s], DrainApply(s, i)
        PROVE  Kept
    <3>1. pending[s] \in Seq(Item)
      BY DEF TypeOK
    <3>2. pending[s][i] \in Item
      BY <3>1
    <3>3. pending[s][i].pts \in Nat
      BY <3>2 DEF Item
    <3>. QED
      BY <1>4, <2>2, <3>3 DEF DrainApply
  <2>3. ASSUME NEW u, HoldUnseeded(u) \/ DropDuplicate(u) \/ ParkGap(u)
        PROVE  Kept
    BY <1>2, <2>3 DEF HoldUnseeded, DropDuplicate, ParkGap
  <2>4. ASSUME NEW s, NEW i, DrainDrop(s, i)
        PROVE  Kept
    BY <1>2, <2>4 DEF DrainDrop
  <2>5. DrainDone \/ PumpSend \/ PumpSkip \/ PumpDone \/ NextSlice => Kept
    BY <1>2 DEF DrainDone, PumpSend, PumpSkip, PumpDone, NextSlice
  <2>. QED
    BY <1>7, <2>1, <2>2, <2>3, <2>4, <2>5 DEF Loop
<1>8. ASSUME NEW c \in calls, Handle(c)
      PROVE  Kept \/ (valid' /\ pts'[Common] > 0)
  <2>1. c.seq \in Seqs /\ c.lo \in Nat
    BY DEF TypeOK, Call
  <2>2. ASSUME NEW p \in Boundaries(Common), NEW q,
               \/ HandleState(c, p, q) \/ DifferenceTooLong(c, p)
               \/ \E u, chats : DifferenceBody(c, p, q, u, chats)
        PROVE  valid' /\ pts'[Common] > 0
    <3>1. p > 0
      BY <1>1, BoundaryBound
    <3>2. valid' /\ pts'[Common] = p
      BY <1>1, <2>2 DEF HandleState, DifferenceTooLong, DifferenceBody, SetTo,
         AdvanceTo, ClearChannels
    <3>. QED
      BY <3>1, <3>2
  <2>3. ASSUME ChannelReply(c), NEW x, pts' = SetTo(pts, c.seq, x), valid' = valid
        PROVE  Kept
    <3>1. c.seq \in Channels
      BY <2>3 DEF ChannelReply, TypeOK
    <3>2. pts'[Common] = pts[Common]
      BY <1>1, <2>3, <3>1 DEF SetTo
    <3>. QED
      BY <1>1, <2>3, <3>2
  <2>4. ASSUME NEW p, NEW chats,
               \/ ChannelEmpty(c) \/ ChannelTooLong(c, p, chats)
               \/ \E final \in BOOLEAN : ChannelDifference(c, p, final, chats)
        PROVE  Kept
    BY <2>3, <2>4 DEF ChannelEmpty, ChannelTooLong, ChannelDifference, ChannelDone
  <2>5. ASSUME HandleAffected(c)
        PROVE  Kept
    <3>1. PICK a : a = CHOOSE x \in affected : x.id = c.id
      OBVIOUS
    <3>2. a \in affected
      BY <2>5, <3>1 DEF HandleAffected
    <3>3. a.seq \in Seqs
      BY <3>2 DEF TypeOK
    <3>4. valid' = valid /\ (pts' = pts \/ pts' = AdvanceTo(pts, a.seq, c.lo))
      BY <2>5, <3>1 DEF HandleAffected
    <3>. QED
      BY <1>3, <1>4, <2>1, <3>3, <3>4
  <2>6. ASSUME NEW q, DifferenceEmpty(c, q) \/ StaleReply(c)
        PROVE  Kept
    BY <1>2, <1>3, <2>6 DEF DifferenceEmpty, StaleReply
  <2>. QED
    BY <1>8, <2>2, <2>4, <2>5, <2>6 DEF Handle, DifferenceFinal, DifferenceSlice
<1>9. ASSUME NEW c \in calls, Fail(c) \/ MessageChanged(c)
      PROVE  Kept \/ (~valid' /\ diffReq' = NoReq)
  <2>1. CASE ChannelUnreachable(c)
    <3>1. c.seq \in Channels /\ pts' = SetTo(pts, c.seq, 0) /\ valid' = valid
      BY <2>1 DEF ChannelUnreachable, ChannelReply, TypeOK
    <3>2. pts'[Common] = pts[Common]
      BY <1>1, <3>1 DEF SetTo
    <3>. QED
      BY <1>1, <3>1, <3>2
  <2>2. CASE ~ChannelUnreachable(c)
    BY <1>2, <1>9, <2>2 DEF Fail, StateUndecoded, DifferenceUndecoded,
       ChannelUndecoded, StateError, DifferenceError, DifferenceRejected,
       ChannelError, MessageChanged
  <2>. QED
    BY <2>1, <2>2
<1>10. GapTimer \/ Connected \/ Authorized \/ Disconnected => Kept
  BY <1>2 DEF GapTimer, Connected, Authorized, Disconnected
<1>11. UNCHANGED vars => Kept
  BY <1>2 DEF vars
<1>. QED
  BY <1>5, <1>6, <1>7, <1>8, <1>9, <1>10, <1>11 DEF Next

\* The flag, the common position and the difference request stay in step.
LEMMA SeededStep ==
  ASSUME TypeOK, TypeOK', LogConsistent, Seeded, [Next]_vars
  PROVE  Seeded'
<1>1. CASE Restart
  <2>1. pts' = saved.pts /\ diffReq' = NoReq
    BY <1>1 DEF Restart
  <2>2. valid' => saved.pts[Common] # 0
    BY <1>1 DEF Restart
  <2>3. saved.pts[Common] \in Nat
    BY DEF TypeOK, Seqs
  <2>. QED
    BY <2>1, <2>2, <2>3 DEF Seeded
<1>2. CASE ~Restart
  <2>1. \/ valid' = valid /\ pts'[Common] >= pts[Common]
        \/ valid' /\ pts'[Common] > 0
        \/ ~valid' /\ diffReq' = NoReq
    BY <1>2, SeedShape
  <2>2. pts[Common] \in Nat /\ pts'[Common] \in Nat
    BY DEF TypeOK, Seqs
  <2>3. diffReq' \in {diffReq, NoReq} \/ valid' \/ diffReq # NoReq
    <3>1. CASE Asks
      BY <3>1 DEF Asks
    <3>2. ASSUME NEW c \in calls, MessageChanged(c)
          PROVE  diffReq' = diffReq \/ diffReq # NoReq
      <4>1. c.id \in Ids
        BY DEF TypeOK, Call
      <4>. QED
        BY <3>2, <4>1, ConstantsAssumption DEF MessageChanged
    <3>3. ASSUME NEW s \in Seqs, NEW n \in Counts, RequestChange(s, n)
          PROVE  diffReq' = diffReq
      BY <3>3 DEF RequestChange
    <3>. QED
      BY <3>1, <3>2, <3>3, CallsShape
  <2>. QED
    BY <2>1, <2>2, <2>3 DEF Seeded
<1>. QED
  BY <1>1, <1>2

-----------------------------------------------------------------------------
(***************************************************************************)
(* The step.                                                               *)
(***************************************************************************)
\* After every step but a restart the positions are covered and not ahead.
LEMMA PositionsStep ==
  ASSUME IInv, TypeOK', LogGrows, Moves
  PROVE  /\ Continuity' /\ SavedIsDelivered' /\ Bounded'
<1>1. TypeOK /\ HistoryGrows
  BY DEF IInv, Ground, Moves
<1>2. ASSUME NEW s \in Seqs
      PROVE  /\ pts[s] \in Nat /\ pts'[s] \in Nat /\ saved.pts[s] \in Nat
             /\ srv[s] \in Nat /\ srv'[s] \in Nat /\ srv[s] <= srv'[s]
             /\ pts[s] <= srv[s] /\ saved.pts[s] <= srv[s]
             /\ floor'[s] >= 0
  BY <1>1 DEF TypeOK, LogGrows, IInv, Bounded, NeverAhead
<1>3. ASSUME NEW s \in Seqs
      PROVE  pts'[s] <= srv'[s]
  <2>1. Moved(s)
    BY DEF Moves
  <2>. QED
    BY <1>2, <2>1 DEF Moved
<1>4. ASSUME NEW s \in Seqs, s = Common => valid'
      PROVE  CoveredNext(s, pts'[s])
  <2>1. Moved(s)
    BY DEF Moves
  <2>2. CASE pts'[s] = pts[s] /\ (s = Common => valid' = valid \/ ~valid')
    <3>1. Covered(s, Owed(s), pts[s])
      BY <1>4, <2>2, CommonIsNoChannel DEF IInv, Continuity, Seqs
    <3>. QED
      BY <1>1, <1>2, <2>2, <3>1, CoveredKept
  <2>3. CASE s # Common /\ pts'[s] = 0
    BY <1>2, <2>3, FloorCovers
  <2>. QED
    BY <1>4, <2>1, <2>2, <2>3 DEF Moved
<1>5. Continuity'
  <2>1. ASSUME NEW s \in Channels
        PROVE  CoveredNext(s, pts'[s])
    BY <1>4, CommonIsNoChannel DEF Seqs
  <2>2. valid' => CoveredNext(Common, pts'[Common])
    BY <1>4 DEF Seqs
  <2>. QED
    BY <2>1, <2>2 DEF Continuity, Covered, Owed, CoveredNext
<1>6. \/ saved' = saved
      \/ valid' /\ saved' = [pts |-> pts', seq |-> seq']
  BY DEF Moves
<1>7. ASSUME NEW s \in Seqs
      PROVE  CoveredNext(s, saved'.pts[s]) /\ saved'.pts[s] <= srv'[s]
  <2>1. CASE saved' = saved
    <3>1. Covered(s, Owed(s), saved.pts[s])
      BY DEF IInv, SavedIsDelivered
    <3>. QED
      BY <1>1, <1>2, <2>1, <3>1, CoveredKept
  <2>2. CASE valid' /\ saved' = [pts |-> pts', seq |-> seq']
    <3>1. saved'.pts = pts'
      BY <2>2
    <3>. QED
      BY <1>3, <1>4, <2>2, <3>1
  <2>. QED
    BY <1>6, <2>1, <2>2
<1>8. SavedIsDelivered'
  BY <1>7 DEF SavedIsDelivered, Covered, Owed, CoveredNext
<1>9. seq' <= Len(box') /\ saved'.seq <= Len(box')
  <2>1. seq <= Len(box) /\ saved.seq <= Len(box) /\ Len(box) <= Len(box')
    BY DEF IInv, Bounded, NeverAhead, LogGrows
  <2>2. /\ seq \in Nat /\ seq' \in Nat /\ saved.seq \in Nat
        /\ Len(box) \in Nat /\ Len(box') \in Nat
    BY <1>1 DEF TypeOK
  <2>3. seq' <= Len(box')
    BY <2>1, <2>2 DEF Moves
  <2>4. saved'.seq \in {saved.seq, seq'}
    BY <1>6
  <2>. QED
    BY <2>1, <2>2, <2>3, <2>4
<1>10. Bounded'
  BY <1>3, <1>7, <1>9 DEF Bounded, NeverAhead
<1>. QED
  BY <1>5, <1>8, <1>10

\* A new process is owed what comes after the ini, and starts from it.
LEMMA RestartStep ==
  ASSUME IInv, TypeOK', LogGrows, Restart
  PROVE  /\ Continuity' /\ SavedIsDelivered' /\ Bounded' /\ MatchedCovered'
<1>1. TypeOK
  BY DEF IInv, Ground
<1>2. /\ UNCHANGED server /\ saved' = saved /\ pts' = saved.pts
      /\ seq' = saved.seq /\ floor' = saved.pts /\ calls' \in SUBSET calls
      /\ diffReq' = NoReq /\ chanReq' = {}
  BY DEF Restart, Survivors
<1>3. ASSUME NEW s \in Seqs
      PROVE  /\ CoveredNext(s, pts'[s])
             /\ pts'[s] <= srv'[s] /\ saved'.pts[s] = pts'[s]
  <2>1. saved.pts[s] \in Nat /\ saved.pts[s] <= srv[s] /\ srv' = srv
    BY <1>1, <1>2 DEF TypeOK, IInv, Bounded, NeverAhead, server
  <2>2. floor'[s] >= pts'[s] /\ pts'[s] \in Nat
    BY <1>2, <2>1
  <2>. QED
    BY <1>2, <2>1, <2>2, FloorCovers
<1>4. Continuity' /\ SavedIsDelivered'
  BY <1>3 DEF Continuity, SavedIsDelivered, Covered, Owed, CoveredNext, Seqs
<1>5. Bounded'
  BY <1>2, <1>3 DEF Bounded, NeverAhead, IInv, server
<1>6. ASSUME NEW c \in calls'
      PROVE  c.id # NoReq /\ (c.kind \in {"state", "diff"} => c.seq = Common)
  <2>1. c \in calls /\ c.id \in Ids
    BY <1>1, <1>2 DEF TypeOK, Call
  <2>. QED
    BY <2>1, ConstantsAssumption DEF IInv, MatchedCovered
<1>7. MatchedCovered'
  BY <1>2, <1>6 DEF MatchedCovered
<1>. QED
  BY <1>4, <1>5, <1>7

\* Every reply that can still be matched continues from a covered position.
LEMMA MatchedStep ==
  ASSUME IInv, TypeOK', LogGrows, HistoryGrows, Continuity', Bounded', [Next]_vars
  PROVE  MatchedCovered'
<1>1. TypeOK /\ MatchedCovered
  BY DEF IInv, Ground
<1>2. ASSUME NEW c \in calls
      PROVE  c.id \in Ids /\ c.seq \in Seqs /\ c.from \in Nat /\ c.id # NoReq
  <2>1. c \in Call
    BY <1>1 DEF TypeOK
  <2>2. c.id \in Ids /\ c.seq \in Seqs /\ c.from \in Nat
    BY <2>1 DEF Call
  <2>. QED
    BY <2>2, ConstantsAssumption
<1>. DEFINE Good(s, p) == p <= srv'[s] /\ CoveredNext(s, p)
<1>3. ASSUME NEW c \in calls, c.from <= srv[c.seq],
             Covered(c.seq, Owed(c.seq), c.from)
      PROVE  Good(c.seq, c.from)
  <2>1. srv[c.seq] <= srv'[c.seq] /\ srv[c.seq] \in Nat /\ srv'[c.seq] \in Nat
    BY <1>1, <1>2 DEF LogGrows, TypeOK
  <2>. QED
    BY <1>1, <1>2, <1>3, <2>1, CoveredKept
<1>4. ASSUME NEW c \in calls
      PROVE  /\ c.kind \in {"state", "diff"} => c.seq = Common
             /\ c.kind = "diff" /\ c.id = diffReq => Good(Common, c.from)
             /\ c.kind = "chan" /\ [id |-> c.id, ch |-> c.seq] \in chanReq
                  => Good(c.seq, c.from)
  <2>1. c.kind \in {"state", "diff"} => c.seq = Common
    BY <1>1 DEF MatchedCovered
  <2>2. ASSUME c.kind = "diff", c.id = diffReq
        PROVE  Good(Common, c.from)
    <3>1. /\ c.from <= srv[Common] /\ Covered(Common, Owed(Common), c.from)
          /\ c.seq = Common
      BY <1>1, <2>1, <2>2 DEF MatchedCovered
    <3>. QED
      BY <1>3, <3>1
  <2>3. ASSUME c.kind = "chan", [id |-> c.id, ch |-> c.seq] \in chanReq
        PROVE  Good(c.seq, c.from)
    <3>1. c.from <= srv[c.seq] /\ Covered(c.seq, Owed(c.seq), c.from)
      BY <1>1, <2>3 DEF MatchedCovered
    <3>. QED
      BY <1>3, <3>1
  <2>. QED
    BY <2>1, <2>2, <2>3
<1>5. ASSUME NEW s \in Seqs, s = Common => valid'
      PROVE  Good(s, pts'[s])
  BY <1>5 DEF Bounded, NeverAhead, Continuity, Covered, Owed, CoveredNext, Seqs
<1>6. SUFFICES ASSUME NEW c \in calls'
               PROVE  /\ c.kind \in {"state", "diff"} => c.seq = Common
                      /\ c.kind = "diff" /\ c.id = diffReq' => Good(Common, c.from)
                      /\ c.kind = "chan" /\ [id |-> c.id, ch |-> c.seq] \in chanReq'
                           => Good(c.seq, c.from)
  BY DEF MatchedCovered, Covered, Owed, CoveredNext
<1>7. CASE Asks
  <2>1. CASE c \in calls
    <3>1. c.kind = "diff" /\ c.id = diffReq' => c.id = diffReq
      BY <1>2, <1>7, <2>1, FreshIsNew DEF Asks
    <3>2. [id |-> c.id, ch |-> c.seq] \in chanReq'
            => [id |-> c.id, ch |-> c.seq] \in chanReq
      BY <1>7, <2>1, FreshIsNew DEF Asks
    <3>. QED
      BY <1>4, <2>1, <3>1, <3>2
  <2>2. CASE AskedNow(c)
    BY <1>5, <2>2, CommonIsNoChannel DEF AskedNow, Seqs
  <2>. QED
    BY <1>7, <2>1, <2>2 DEF Asks
<1>8. ASSUME NEW d \in calls, MessageChanged(d)
      PROVE  /\ c.kind \in {"state", "diff"} => c.seq = Common
             /\ c.kind = "diff" /\ c.id = diffReq' => Good(Common, c.from)
             /\ c.kind = "chan" /\ [id |-> c.id, ch |-> c.seq] \in chanReq'
                  => Good(c.seq, c.from)
  <2>1. /\ CanSend
        /\ calls' = (calls \ {d}) \cup {[d EXCEPT !.id = Fresh(calls)]}
        /\ diffReq' = IF diffReq = d.id THEN Fresh(calls) ELSE diffReq
        /\ chanReq' = {[id |-> IF r.id = d.id THEN Fresh(calls) ELSE r.id,
                        ch |-> r.ch] : r \in chanReq}
    BY <1>8 DEF MessageChanged
  <2>2. PICK b \in calls : /\ c.kind = b.kind /\ c.seq = b.seq /\ c.from = b.from
                           /\ IF b = d THEN c.id = Fresh(calls) ELSE c.id = b.id
    <3>1. CASE c \in calls \ {d}
      BY <3>1
    <3>2. CASE c = [d EXCEPT !.id = Fresh(calls)]
      <4>1. d \in Call
        BY <1>1 DEF TypeOK
      <4>2. c.kind = d.kind /\ c.seq = d.seq /\ c.from = d.from
            /\ c.id = Fresh(calls)
        BY <3>2, <4>1 DEF Call
      <4>. QED
        BY <4>2
    <3>. QED
      BY <2>1, <3>1, <3>2
  <2>3. b.id # Fresh(calls) /\ diffReq # Fresh(calls)
    BY <2>1, FreshIsNew
  <2>4. c.id = diffReq' => b.id = diffReq
    BY <2>1, <2>2, <2>3
  <2>5. ASSUME [id |-> c.id, ch |-> c.seq] \in chanReq'
        PROVE  [id |-> b.id, ch |-> b.seq] \in chanReq
    <3>1. PICK r \in chanReq : /\ c.id = (IF r.id = d.id THEN Fresh(calls) ELSE r.id)
                               /\ c.seq = r.ch
      BY <2>1, <2>5
    <3>2. r.id # Fresh(calls)
      BY <2>1, FreshIsNew
    <3>3. r.id = b.id /\ r.ch = b.seq
      BY <2>2, <2>3, <3>1, <3>2
    <3>4. r = [id |-> r.id, ch |-> r.ch]
      BY <1>1 DEF TypeOK
    <3>. QED
      BY <3>3, <3>4
  <2>. QED
    BY <1>4, <2>2, <2>4, <2>5
<1>9. ASSUME NEW s \in Seqs, NEW n \in Counts, RequestChange(s, n)
      PROVE  /\ c.kind \in {"state", "diff"} => c.seq = Common
             /\ c.kind = "diff" /\ c.id = diffReq' => Good(Common, c.from)
             /\ c.kind = "chan" /\ [id |-> c.id, ch |-> c.seq] \in chanReq'
                  => Good(c.seq, c.from)
  <2>1. (c \in calls \/ c.kind = "affect") /\ UNCHANGED <<diffReq, chanReq>>
    BY <1>9 DEF RequestChange, polls
  <2>. QED
    BY <1>4, <2>1
<1>. QED
  BY <1>1, <1>7, <1>8, <1>9, CallsShape

\* The ini a process starts from owes nothing.
LEMMA IInvInit ==
  ASSUME Init
  PROVE  IInv
<1>1. TypeOK
  BY TypeInit
<1>2. \A s \in Seqs : srv[s] = Base /\ log[s] = {} /\ pending[s] = <<>>
  BY DEF Init, NothingHeld
<1>3. box = <<>> /\ todo = <<>> /\ calls = {} /\ diffReq = NoReq
  BY DEF Init
<1>4. LogConsistent /\ ItemsGenuine /\ ChangesGenuine
  <2>1. LogConsistent
    BY <1>2 DEF LogConsistent, Base
  <2>2. BoxGenuine /\ TodoGenuine /\ ChangesGenuine
    BY <1>3 DEF BoxGenuine, TodoGenuine, ChangesGenuine
  <2>3. PendingGenuine
    BY <1>2 DEF PendingGenuine
  <2>. QED
    BY <2>1, <2>2, <2>3 DEF ItemsGenuine
<1>5. Seeded
  <2>1. valid => pts[Common] # 0
    BY DEF Init
  <2>2. pts[Common] \in Nat
    BY <1>1 DEF TypeOK, Seqs
  <2>. QED
    BY <1>3, <2>1, <2>2 DEF Seeded
<1>6. MatchedCovered /\ Continuity /\ SavedIsDelivered
  BY <1>2, <1>3 DEF MatchedCovered, Continuity, SavedIsDelivered, Covered, Seqs
<1>7. Bounded
  <2>1. \A s \in Seqs : saved.pts[s] \in {0, Base}
    BY ConstantsAssumption DEF Init
  <2>2. \A s \in Seqs : pts[s] <= srv[s] /\ saved.pts[s] <= srv[s]
    BY <1>2, <2>1 DEF Init, Base
  <2>3. seq = 0 /\ saved.seq = 0 /\ Len(box) = 0
    BY <1>3 DEF Init
  <2>. QED
    BY <2>2, <2>3 DEF Bounded, NeverAhead
<1>. QED
  BY <1>1, <1>4, <1>5, <1>6, <1>7 DEF IInv, Ground

\* Every step preserves the inductive invariant.
LEMMA IInvStep ==
  ASSUME IInv, [Next]_vars
  PROVE  IInv'
<1>1. TypeOK /\ LogConsistent /\ ItemsGenuine /\ ChangesGenuine /\ Seeded
  BY DEF IInv, Ground
<1>2. TypeOK'
  BY <1>1, TypeStep
<1>3. LogConsistent' /\ LogGrows
  BY <1>1, LogStep
<1>4. ItemsGenuine'
  BY <1>1, <1>2, <1>3, BoxStep, TodoStep, PendingStep DEF ItemsGenuine
<1>5. ChangesGenuine' /\ Seeded'
  BY <1>1, <1>2, <1>3, ChangesStep, SeededStep
<1>6. Ground'
  BY <1>2, <1>3, <1>4, <1>5 DEF Ground
<1>7. MatchedCovered' /\ Bounded' /\ Continuity' /\ SavedIsDelivered'
  <2>1. CASE Moves
    <3>1. Continuity' /\ SavedIsDelivered' /\ Bounded'
      BY <1>2, <1>3, <2>1, PositionsStep
    <3>2. HistoryGrows
      BY <2>1 DEF Moves
    <3>. QED
      BY <1>2, <1>3, <3>1, <3>2, MatchedStep
  <2>2. CASE Restart
    BY <1>2, <1>3, <2>2, RestartStep
  <2>. QED
    BY <1>2, <2>1, <2>2, MovesShape
<1>. QED
  BY <1>6, <1>7 DEF IInv

\* The inductive invariant, of which the theorems below are parts.
THEOREM Inductive == Spec => []IInv
BY IInvInit, IInvStep, PTL DEF Spec

(***************************************************************************)
(* Whatever is lost, repeated or reordered, whichever replies fail and     *)
(* whenever the connection or the process dies: applyOne, drainPending,    *)
(* handleAffected and the differences never leave an update undispatched   *)
(* behind the position they move to, for any number of channels, updates   *)
(* and requests.                                                           *)
(***************************************************************************)
THEOREM ContinuityHolds == Spec => []Continuity
<1>1. IInv => Continuity
  BY DEF IInv
<1>. QED
  BY <1>1, Inductive, PTL

(***************************************************************************)
(* save() and maybeSave() write only positions whose updates were          *)
(* dispatched: a process that dies at any moment resumes from a position   *)
(* that loses nothing.                                                     *)
(***************************************************************************)
THEOREM SavedIsDeliveredHolds == Spec => []SavedIsDelivered
<1>1. IInv => SavedIsDelivered
  BY DEF IInv
<1>. QED
  BY <1>1, Inductive, PTL

(***************************************************************************)
(* No sequence of pushes, replies, resets and restarts takes _pts, a       *)
(* channel's position, the ini's or _seq past the server's: check() would  *)
(* take the next genuine update for a duplicate.                           *)
(***************************************************************************)
THEOREM NeverAheadHolds == Spec => []NeverAhead
<1>1. IInv => NeverAhead
  BY DEF IInv, Bounded
<1>. QED
  BY <1>1, Inductive, PTL
=============================================================================
