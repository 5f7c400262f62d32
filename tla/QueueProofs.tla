---------------------------- MODULE QueueProofs ----------------------------
(***************************************************************************)
(* The bookkeeping of the update pipeline: what is parked and its timer,   *)
(* and the channel polls with their queue and their slots; for every set   *)
(* of channels, ids and counts, every bound and every subset of the        *)
(* faults.                                                                 *)
(*                                                                         *)
(* The inductive invariant.  That a slot is answerable rests on the ids of *)
(* the slots: a reply releases the slot with its id, so no two slots may   *)
(* have one, and no other kind of request may have the id of a slot.  It   *)
(* rests, too, on the connection: a poll that is written to a closed       *)
(* socket is lost at once, and a handler that pumps the queue runs only    *)
(* while the connection is up.  That nothing parked is ready holds not     *)
(* only between handlers but at each point of one, except while the queue  *)
(* is drained.                                                             *)
(***************************************************************************)
EXTENDS UpdatesProofs, FiniteSetTheorems

\* A handler runs only while the connection is up.
Running == ~Idle => link # "down"

\* Who holds which id.
SlotIds ==
  /\ \A r, t \in chanReq : r.id = t.id => r = t
  /\ \A r \in chanReq, c \in calls : c.id = r.id => c.kind = "chan"

Polls == IsFiniteSet(chanReq) /\ PollDiscipline

Slots == Running /\ SlotIds /\ SlotsAreAnswerable

\* Every item of q lies behind a gap, the positions being p.
Gaps(p, q) ==
  \A s \in Seqs : \A i \in DOMAIN q[s] :
    Check(p[s], q[s][i].pts, q[s][i].count) = "gap"

NothingReady == pc # "drain" /\ valid => Gaps(pts, pending)

Timed == IsFiniteSet(Held) /\ ParkedIsTimed

QInv == TypeOK /\ Polls /\ Slots /\ Timed /\ NothingReady

-----------------------------------------------------------------------------
(***************************************************************************)
(* What a step does to the polls.                                          *)
(***************************************************************************)
\* enqueueChannel() leaves the queue alone or appends a channel that is
\* neither polled nor waiting.
Enqueues ==
  /\ chanReq' = chanReq
  /\ \E c \in Channels : c \notin InFlight \cup Queued /\ queue' = Append(queue, c)

\* A slot is released, and its channel may go back to the queue.
Releases ==
  \E r \in chanReq :
    /\ chanReq' = chanReq \ {r}
    /\ queue' = queue \/ queue' = Append(queue, r.ch)

\* enqueueChannel() has only these two outcomes.
LEMMA EnqueueShape ==
  ASSUME NEW c \in Channels, chanReq' = chanReq, EnqueueChannel(c)
  PROVE  queue' = queue \/ Enqueues
BY DEF EnqueueChannel, Enqueues

\* What every step does to the slots and to the queue.
LEMMA PollsShape ==
  ASSUME TypeOK, [Next]_vars
  PROVE  \/ chanReq' \in {chanReq, {}} /\ queue' \in {queue, <<>>}
         \/ Enqueues \/ Releases
         \/ PumpSend \/ PumpSkip
         \/ \E c \in calls : MessageChanged(c)
<1>. DEFINE Still == chanReq' \in {chanReq, {}} /\ queue' \in {queue, <<>>}
<1>. USE DEF polls
<1>1. Serve => Still
  BY DEF Serve, Produce, RequestChange
<1>2. Receive => Still \/ Enqueues
  BY EnqueueShape DEF Receive, ReceiveUpdate, ReceiveContainer, ReceiveTooLong,
     ReceiveChannelTooLong
<1>3. ASSUME Loop
      PROVE  Still \/ Enqueues \/ PumpSend \/ PumpSkip
  <2>1. ASSUME NEW u, HoldUnseeded(u) \/ ApplyNext(u) \/ DropDuplicate(u)
        PROVE  Still
    BY <2>1 DEF HoldUnseeded, ApplyNext, DropDuplicate
  <2>2. ASSUME NEW u, ParkGap(u)
        PROVE  Still \/ Enqueues
    <3>1. todo # <<>> /\ u = Head(todo) /\ todo \in Seq(Update)
      BY <2>2 DEF ParkGap, Applying, TypeOK
    <3>2. u \in Update
      BY <3>1
    <3>3. u.seq # Common => u.seq \in Channels
      BY <3>2 DEF Update, Seqs
    <3>. QED
      BY <2>2, <3>3, EnqueueShape DEF ParkGap
  <2>3. ASSUME NEW s, NEW i, DrainApply(s, i) \/ DrainDrop(s, i)
        PROVE  Still
    BY <2>3 DEF DrainApply, DrainDrop
  <2>4. DrainDone \/ PumpDone \/ NextSlice => Still
    BY DEF DrainDone, PumpDone, NextSlice
  <2>. QED
    BY <1>3, <2>1, <2>2, <2>3, <2>4 DEF Loop
<1>4. ASSUME NEW c \in calls, Handle(c)
      PROVE  Still \/ Enqueues \/ Releases
  <2>1. CASE HandleAffected(c)
    <3>1. PICK a \in affected : a = (CHOOSE x \in affected : x.id = c.id)
      BY <2>1 DEF HandleAffected
    <3>2. a.seq # Common => a.seq \in Channels
      BY <3>1 DEF TypeOK, Seqs
    <3>3. CASE queue' = queue
      BY <2>1, <3>3 DEF HandleAffected
    <3>4. CASE a.seq # Common /\ EnqueueChannel(a.seq)
      BY <2>1, <3>2, <3>4, EnqueueShape DEF HandleAffected
    <3>. QED
      BY <2>1, <3>1, <3>3, <3>4 DEF HandleAffected
  <2>2. ASSUME NEW p, NEW q, NEW carry, NEW chats,
               \/ StaleReply(c) \/ HandleState(c, p, q) \/ DifferenceEmpty(c, q)
               \/ DifferenceFinal(c, p, q, carry, chats)
               \/ DifferenceSlice(c, p, q, chats) \/ DifferenceTooLong(c, p)
        PROVE  Still
    BY <2>2 DEF StaleReply, HandleState, DifferenceEmpty, DifferenceFinal,
       DifferenceSlice, DifferenceBody, DifferenceTooLong
  <2>3. ASSUME NEW p, NEW final, NEW chats,
               \/ ChannelEmpty(c) \/ ChannelDifference(c, p, final, chats)
               \/ ChannelTooLong(c, p, chats)
        PROVE  Releases
    <3>1. /\ [id |-> c.id, ch |-> c.seq] \in chanReq
          /\ chanReq' = chanReq \ {[id |-> c.id, ch |-> c.seq]}
          /\ queue' = queue \/ queue' = Append(queue, c.seq)
      BY <2>3 DEF ChannelEmpty, ChannelDifference, ChannelTooLong, ChannelReply
    <3>. QED
      BY <3>1 DEF Releases
  <2>. QED
    BY <1>4, <2>1, <2>2, <2>3 DEF Handle
<1>5. ASSUME NEW c \in calls, Fail(c)
      PROVE  Still \/ Releases
  <2>1. CASE ChannelUndecoded(c) \/ ChannelError(c) \/ ChannelUnreachable(c)
    <3>1. /\ [id |-> c.id, ch |-> c.seq] \in chanReq
          /\ chanReq' = chanReq \ {[id |-> c.id, ch |-> c.seq]}
          /\ queue' = queue
      BY <2>1 DEF ChannelUndecoded, ChannelError, ChannelUnreachable, ChannelReply
    <3>. QED
      BY <3>1 DEF Releases
  <2>2. CASE \/ StateUndecoded(c) \/ DifferenceUndecoded(c) \/ StateError(c)
             \/ DifferenceError(c) \/ DifferenceRejected(c)
    BY <2>2 DEF StateUndecoded, DifferenceUndecoded, StateError, DifferenceError,
       DifferenceRejected
  <2>. QED
    BY <1>5, <2>1, <2>2 DEF Fail
<1>6. GapTimer \/ Connected \/ Authorized \/ Disconnected \/ Restart => Still
  BY DEF GapTimer, Connected, Authorized, Disconnected, Restart
<1>7. UNCHANGED vars => Still
  BY DEF vars
<1>. QED
  BY <1>1, <1>2, <1>3, <1>4, <1>5, <1>6, <1>7 DEF Next

-----------------------------------------------------------------------------
(***************************************************************************)
(* Poll discipline.                                                        *)
(***************************************************************************)
\* One member more.
LEMMA OneMore ==
  ASSUME NEW S, NEW x, IsFiniteSet(S)
  PROVE  /\ IsFiniteSet(S \cup {x}) /\ Cardinality(S \cup {x}) \in Nat
         /\ Cardinality(S) \in Nat
         /\ Cardinality(S \cup {x}) <= Cardinality(S) + 1
<1>1. IsFiniteSet(S \cup {x}) /\ Cardinality(S \cup {x}) =
        (IF x \in S THEN Cardinality(S) ELSE Cardinality(S) + 1)
  BY FS_AddElement
<1>2. Cardinality(S) \in Nat /\ Cardinality(S \cup {x}) \in Nat
  BY <1>1, FS_CardinalityType
<1>. QED
  BY <1>1, <1>2

\* One member less.
LEMMA OneLess ==
  ASSUME NEW S, NEW x, IsFiniteSet(S)
  PROVE  /\ IsFiniteSet(S \ {x}) /\ Cardinality(S \ {x}) \in Nat
         /\ Cardinality(S) \in Nat /\ Cardinality(S \ {x}) <= Cardinality(S)
<1>1. S \ {x} \in SUBSET S
  OBVIOUS
<1>2. IsFiniteSet(S \ {x}) /\ Cardinality(S \ {x}) <= Cardinality(S)
  BY <1>1, FS_Subset
<1>. QED
  BY <1>2, FS_CardinalityType

\* Elements of a queue without duplicates, when one leaves or comes.
LEMMA TailDistinct ==
  ASSUME NEW S, NEW q \in Seq(S), q # <<>>,
         \A i, j \in DOMAIN q : q[i] = q[j] => i = j
  PROVE  /\ Tail(q) \in Seq(S)
         /\ \A i, j \in DOMAIN Tail(q) : Tail(q)[i] = Tail(q)[j] => i = j
         /\ \A i \in DOMAIN Tail(q) : Tail(q)[i] # Head(q) /\ \E k \in DOMAIN q : q[k] = Tail(q)[i]
         /\ \E k \in DOMAIN q : q[k] = Head(q)
<1>1. Len(q) \in Nat /\ Len(q) > 0 /\ DOMAIN q = 1 .. Len(q)
  OBVIOUS
<1>2. Tail(q) \in Seq(S) /\ DOMAIN Tail(q) = 1 .. (Len(q) - 1)
  BY <1>1
<1>3. \A i \in DOMAIN Tail(q) : Tail(q)[i] = q[i + 1] /\ i + 1 \in DOMAIN q
  BY <1>1, <1>2
<1>4. Head(q) = q[1] /\ 1 \in DOMAIN q
  BY <1>1
<1>. QED
  BY <1>2, <1>3, <1>4

\* A channel that does not wait is appended.
LEMMA AppendDistinct ==
  ASSUME NEW S, NEW q \in Seq(S), NEW x \in S,
         \A i, j \in DOMAIN q : q[i] = q[j] => i = j,
         \A i \in DOMAIN q : q[i] # x
  PROVE  /\ \A i, j \in DOMAIN Append(q, x) :
              Append(q, x)[i] = Append(q, x)[j] => i = j
         /\ \A i \in DOMAIN Append(q, x) : Append(q, x)[i] = x \/ \E k \in DOMAIN q : q[k] = Append(q, x)[i]
<1>1. Len(q) \in Nat /\ DOMAIN q = 1 .. Len(q)
  OBVIOUS
<1>2. DOMAIN Append(q, x) = 1 .. (Len(q) + 1)
  OBVIOUS
<1>3. \A i \in DOMAIN Append(q, x) :
        \/ i \in DOMAIN q /\ Append(q, x)[i] = q[i]
        \/ i = Len(q) + 1 /\ Append(q, x)[i] = x
  BY <1>1, <1>2
<1>. QED
  BY <1>1, <1>3

\* A rename moves no slot to another channel.
LEMMA RenameSlots ==
  ASSUME TypeOK, IsFiniteSet(chanReq), NEW c \in calls, MessageChanged(c)
  PROVE  /\ IsFiniteSet(chanReq') /\ Cardinality(chanReq') <= Cardinality(chanReq)
         /\ \A t \in chanReq' : \E r \in chanReq :
              t.ch = r.ch /\ t = [id |-> IF r.id = c.id THEN Fresh(calls) ELSE r.id, ch |-> r.ch]
<1>. DEFINE f == [r \in chanReq |->
                    [id |-> IF r.id = c.id THEN Fresh(calls) ELSE r.id, ch |-> r.ch]]
<1>1. chanReq' = {f[r] : r \in chanReq}
  BY DEF MessageChanged
<1>2. f \in Surjection(chanReq, chanReq')
  BY <1>1 DEF Surjection
<1>3. IsFiniteSet(chanReq') /\ Cardinality(chanReq') <= Cardinality(chanReq)
  BY <1>2, FS_Surjection
<1>. QED
  BY <1>1, <1>3

\* Every step keeps the polls to their limit, one per channel.
LEMMA PollsStep ==
  ASSUME TypeOK, TypeOK', Polls, [Next]_vars
  PROVE  Polls'
<1>0. /\ IsFiniteSet(chanReq) /\ Cardinality(chanReq) \in Nat
      /\ Cardinality(chanReq) <= MaxChannelPolls
      /\ MaxChannelPolls \in Nat
      /\ \A r, t \in chanReq : r.ch = t.ch => r = t
      /\ \A i, j \in DOMAIN queue : queue[i] = queue[j] => i = j
      /\ queue \in Seq(Channels)
      /\ \A r \in chanReq : \A i \in DOMAIN queue : queue[i] # r.ch
      /\ chanReq \in SUBSET [id : Ids, ch : Channels]
  <2>1. IsFiniteSet(chanReq) /\ PollDiscipline
    BY DEF Polls
  <2>2. \A r \in chanReq : \A i \in DOMAIN queue : queue[i] # r.ch
    BY <2>1 DEF PollDiscipline, InFlight, Queued
  <2>. QED
    BY <2>1, <2>2, FS_CardinalityType, ConstantsAssumption DEF PollDiscipline, TypeOK
<1>1. SUFFICES /\ IsFiniteSet(chanReq')
               /\ Cardinality(chanReq') <= MaxChannelPolls
               /\ \A r, t \in chanReq' : r.ch = t.ch => r = t
               /\ \A i, j \in DOMAIN queue' : queue'[i] = queue'[j] => i = j
               /\ \A r \in chanReq' : \A i \in DOMAIN queue' : queue'[i] # r.ch
  BY DEF Polls, PollDiscipline, InFlight, Queued
<1>2. CASE chanReq' \in {chanReq, {}} /\ queue' \in {queue, <<>>}
  <2>1. IsFiniteSet(chanReq') /\ Cardinality(chanReq') <= MaxChannelPolls
    <3>1. IsFiniteSet({}) /\ Cardinality({}) = 0
      BY FS_EmptySet
    <3>2. 0 <= MaxChannelPolls
      BY <1>0
    <3>. QED
      BY Zenon, <1>0, <1>2, <3>1, <3>2
  <2>2. DOMAIN <<>> = {} /\ \A r \in chanReq' : r \in chanReq
    BY <1>2
  <2>. QED
    BY Zenon, <1>0, <1>2, <2>1, <2>2
<1>3. CASE Enqueues
  <2>1. PICK x \in Channels : /\ x \notin InFlight \cup Queued
                              /\ queue' = Append(queue, x)
    BY <1>3 DEF Enqueues
  <2>2. \A i \in DOMAIN queue : queue[i] # x
    BY <2>1 DEF Queued
  <2>3. \A r \in chanReq : r.ch # x
    BY <2>1 DEF InFlight
  <2>4. chanReq' = chanReq
    BY <1>3 DEF Enqueues
  <2>5. /\ \A i, j \in DOMAIN queue' : queue'[i] = queue'[j] => i = j
        /\ \A i \in DOMAIN queue' : queue'[i] = x \/ \E k \in DOMAIN queue : queue[k] = queue'[i]
    BY <1>0, <2>1, <2>2, AppendDistinct
  <2>6. \A r \in chanReq' : \A i \in DOMAIN queue' : queue'[i] # r.ch
    BY Zenon, <1>0, <2>3, <2>4, <2>5
  <2>. QED
    BY Zenon, <1>0, <2>4, <2>5, <2>6
<1>4. CASE Releases
  <2>1. PICK r \in chanReq : /\ chanReq' = chanReq \ {r}
                             /\ queue' = queue \/ queue' = Append(queue, r.ch)
    BY <1>4 DEF Releases
  <2>2. IsFiniteSet(chanReq') /\ Cardinality(chanReq') <= Cardinality(chanReq)
        /\ Cardinality(chanReq') \in Nat
    BY <1>0, <2>1, OneLess
  <2>3. /\ \A i \in DOMAIN queue : queue[i] # r.ch
        /\ \A t \in chanReq' : t.ch # r.ch
        /\ r.ch \in Channels
    BY <1>0, <2>1
  <2>4. CASE queue' = queue
    BY <1>0, <2>1, <2>2, <2>4
  <2>5. CASE queue' = Append(queue, r.ch)
    <3>1. /\ \A i, j \in DOMAIN queue' : queue'[i] = queue'[j] => i = j
          /\ \A i \in DOMAIN queue' : queue'[i] = r.ch \/ \E k \in DOMAIN queue : queue[k] = queue'[i]
      BY <1>0, <2>3, <2>5, AppendDistinct
    <3>2. \A t \in chanReq' : t \in chanReq
      BY <2>1
    <3>3. \A t \in chanReq' : \A i \in DOMAIN queue' : queue'[i] # t.ch
      BY Zenon, <1>0, <2>3, <3>1, <3>2
    <3>4. Cardinality(chanReq') <= MaxChannelPolls
      BY <1>0, <2>2
    <3>5. \A s, t \in chanReq' : s.ch = t.ch => s = t
      BY <1>0, <3>2
    <3>. QED
      BY Zenon, <2>2, <3>1, <3>3, <3>4, <3>5
  <2>. QED
    BY <2>1, <2>4, <2>5
<1>5. CASE PumpSend
  <2>. DEFINE new == [id |-> Fresh(calls), ch |-> Head(queue)]
  <2>1. /\ queue # <<>> /\ Cardinality(chanReq) < MaxChannelPolls
        /\ chanReq' = chanReq \cup {new} /\ queue' = Tail(queue)
    BY <1>5 DEF PumpSend
  <2>2. IsFiniteSet(chanReq') /\ Cardinality(chanReq') <= Cardinality(chanReq) + 1
        /\ Cardinality(chanReq') \in Nat
    BY <1>0, <2>1, OneMore
  <2>3. /\ \A i, j \in DOMAIN queue' : queue'[i] = queue'[j] => i = j
        /\ \A i \in DOMAIN queue' : queue'[i] # Head(queue) /\ \E k \in DOMAIN queue : queue[k] = queue'[i]
        /\ \E k \in DOMAIN queue : queue[k] = Head(queue)
    BY <1>0, <2>1, TailDistinct
  <2>4. \A r \in chanReq : r.ch # Head(queue)
    BY <1>0, <2>3
  <2>5. \A r, t \in chanReq' : r.ch = t.ch => r = t
    BY <1>0, <2>1, <2>4
  <2>6. \A r \in chanReq' : \A i \in DOMAIN queue' : queue'[i] # r.ch
    <3>1. \A r \in chanReq' : r \in chanReq \/ r.ch = Head(queue)
      BY <2>1
    <3>. QED
      BY Zenon, <1>0, <2>3, <3>1
  <2>7. Cardinality(chanReq') <= MaxChannelPolls
    BY <1>0, <2>1, <2>2
  <2>. QED
    BY <2>2, <2>3, <2>5, <2>6, <2>7
<1>6. CASE PumpSkip
  <2>1. queue # <<>> /\ chanReq' = chanReq /\ queue' = Tail(queue)
    BY <1>6 DEF PumpSkip
  <2>. QED
    BY <1>0, <2>1, TailDistinct
<1>7. ASSUME NEW c \in calls, MessageChanged(c)
      PROVE  /\ IsFiniteSet(chanReq')
             /\ Cardinality(chanReq') <= MaxChannelPolls
             /\ \A r, t \in chanReq' : r.ch = t.ch => r = t
             /\ \A i, j \in DOMAIN queue' : queue'[i] = queue'[j] => i = j
             /\ \A r \in chanReq' : \A i \in DOMAIN queue' : queue'[i] # r.ch
  <2>1. /\ IsFiniteSet(chanReq') /\ Cardinality(chanReq') <= Cardinality(chanReq)
        /\ \A t \in chanReq' : \E r \in chanReq :
             t.ch = r.ch /\ t = [id |-> IF r.id = c.id THEN Fresh(calls) ELSE r.id, ch |-> r.ch]
    BY <1>0, <1>7, RenameSlots
  <2>2. Cardinality(chanReq') \in Nat
    BY <2>1, FS_CardinalityType
  <2>3. queue' = queue
    BY <1>7 DEF MessageChanged
  <2>4. \A r, t \in chanReq' : r.ch = t.ch => r = t
    BY <1>0, <2>1
  <2>. QED
    BY <1>0, <2>1, <2>2, <2>3, <2>4
<1>. QED
  BY <1>2, <1>3, <1>4, <1>5, <1>6, <1>7, PollsShape

-----------------------------------------------------------------------------
(***************************************************************************)
(* Slots and their requests.                                               *)
(***************************************************************************)
\* A step that changes the link starts or ends with nothing running.
LEMMA LinkShape ==
  ASSUME [Next]_vars
  PROVE  \/ link' # "down" \/ Idle'
         \/ link' = link /\ (link # "down" \/ ~Idle \/ UNCHANGED <<pc, todo>>)
<1>. DEFINE Result == \/ link' # "down" \/ Idle'
                      \/ link' = link /\ (link # "down" \/ ~Idle \/ UNCHANGED <<pc, todo>>)
<1>. USE DEF control
<1>1. Serve => Result
  BY DEF Serve, Produce, RequestChange
<1>2. Receive => Result
  BY DEF Receive, ReceiveUpdate, ReceiveContainer, ReceiveTooLong,
     ReceiveChannelTooLong, Receiving
<1>3. ASSUME Loop
      PROVE  Result
  <2>1. ASSUME NEW u, HoldUnseeded(u) \/ ApplyNext(u) \/ DropDuplicate(u) \/ ParkGap(u)
        PROVE  ~Idle /\ link' = link
    BY <2>1 DEF HoldUnseeded, ApplyNext, DropDuplicate, ParkGap, Applying, Idle
  <2>2. ASSUME NEW s, NEW i, DrainApply(s, i) \/ DrainDrop(s, i)
        PROVE  ~Idle /\ link' = link
    BY <2>2 DEF DrainApply, DrainDrop, Idle
  <2>3. ASSUME DrainDone \/ PumpSend \/ PumpSkip \/ PumpDone \/ NextSlice
        PROVE  ~Idle /\ link' = link
    BY <2>3 DEF DrainDone, PumpSend, PumpSkip, PumpDone, NextSlice, Idle
  <2>. QED
    BY <1>3, <2>1, <2>2, <2>3 DEF Loop
<1>4. ASSUME NEW c \in calls, Handle(c)
      PROVE  Result
  <2>1. ASSUME NEW p, NEW q, NEW carry, NEW chats,
               \/ StaleReply(c) \/ HandleState(c, p, q) \/ DifferenceEmpty(c, q)
               \/ DifferenceFinal(c, p, q, carry, chats)
               \/ DifferenceSlice(c, p, q, chats) \/ DifferenceTooLong(c, p)
        PROVE  link # "down" /\ link' = link
    BY <2>1 DEF StaleReply, HandleState, DifferenceEmpty, DifferenceFinal,
       DifferenceSlice, DifferenceBody, DifferenceTooLong, Reply
  <2>2. ASSUME NEW p, NEW final, NEW chats,
               \/ ChannelEmpty(c) \/ ChannelDifference(c, p, final, chats)
               \/ ChannelTooLong(c, p, chats)
        PROVE  link # "down" /\ link' = link
    BY <2>2 DEF ChannelEmpty, ChannelDifference, ChannelTooLong, ChannelDone,
       ChannelReply, Reply
  <2>3. ASSUME HandleAffected(c)
        PROVE  link # "down" /\ link' = link
    BY <2>3 DEF HandleAffected, Reply
  <2>. QED
    BY <1>4, <2>1, <2>2, <2>3 DEF Handle
<1>5. ASSUME NEW c \in calls, Fail(c) \/ MessageChanged(c)
      PROVE  Result
  BY <1>5 DEF Fail, StateUndecoded, DifferenceUndecoded, ChannelUndecoded,
     StateError, DifferenceError, DifferenceRejected, ChannelError,
     ChannelUnreachable, ChannelReply, Reply, MessageChanged
<1>6. GapTimer \/ Connected \/ Authorized \/ Disconnected \/ Restart => Result
  BY DEF GapTimer, Connected, Authorized, Disconnected, Restart, Idle
<1>7. UNCHANGED vars => Result
  BY DEF vars
<1>. QED
  BY <1>1, <1>2, <1>3, <1>4, <1>5, <1>6, <1>7 DEF Next

\* No slot comes, and no request goes that a slot waits for.
KeepsAnswers ==
  /\ chanReq' \in SUBSET chanReq
  /\ \A c \in calls :
       c \in calls' \/ c.kind # "chan" \/ \A r \in chanReq' : r.id # c.id

\* requestState() and requestDifference() take no request away.
LEMMA AskingKeeps ==
  ASSUME NEW v, NEW p, NEW sr, NEW dr, NEW cs,
         RequestState(sr, cs) \/ RequestDifference(v, p, sr, dr, cs)
  PROVE  cs \in SUBSET calls'
BY DEF RequestState, RequestDifference, Send

\* The slot of the answered request goes with it.
LEMMA ReleaseKeeps ==
  ASSUME SlotIds, NEW c \in calls, [id |-> c.id, ch |-> c.seq] \in chanReq,
         chanReq' = chanReq \ {[id |-> c.id, ch |-> c.seq]},
         calls \ {c} \in SUBSET calls'
  PROVE  KeepsAnswers
<1>1. \A r \in chanReq' : r.id # c.id
  BY DEF SlotIds
<1>. QED
  BY <1>1 DEF KeepsAnswers

\* Anything else that answers a request of another kind.
LEMMA OtherKeeps ==
  ASSUME NEW c \in calls, c.kind # "chan", chanReq' = chanReq,
         calls \ {c} \in SUBSET calls'
  PROVE  KeepsAnswers
BY DEF KeepsAnswers

\* Only pumpChannelQueue() takes a slot, only a rename changes one, and what
\* else a step answers leaves the requests of the slots that stay.
LEMMA AnswersShape ==
  ASSUME SlotIds, [Next]_vars
  PROVE  \/ KeepsAnswers \/ PumpSend
         \/ \E c \in calls : MessageChanged(c)
<1>. USE DEF polls, requests
<1>0. calls' = calls /\ chanReq' = chanReq => KeepsAnswers
  BY DEF KeepsAnswers
<1>1. Serve => KeepsAnswers
  <2>1. ASSUME NEW s, NEW n, RequestChange(s, n)
        PROVE  KeepsAnswers
    BY <2>1 DEF RequestChange, KeepsAnswers
  <2>. QED
    BY <1>0, <2>1 DEF Serve, Produce
<1>a. ASSUME NEW v, NEW p, NEW sr, NEW dr,
             RequestState(sr, calls) \/ RequestDifference(v, p, sr, dr, calls),
             chanReq' = chanReq
      PROVE  KeepsAnswers
  BY <1>a, AskingKeeps DEF KeepsAnswers
<1>2. Receive => KeepsAnswers
  BY <1>0, <1>a DEF Receive, ReceiveUpdate, ReceiveContainer, ReceiveTooLong,
     ReceiveChannelTooLong
<1>3. ASSUME Loop
      PROVE  KeepsAnswers \/ PumpSend
  <2>1. ASSUME NEW u, HoldUnseeded(u) \/ ApplyNext(u) \/ DropDuplicate(u) \/ ParkGap(u)
        PROVE  KeepsAnswers
    BY <1>0, <1>a, <2>1 DEF HoldUnseeded, ApplyNext, DropDuplicate, ParkGap
  <2>2. ASSUME NEW s, NEW i, DrainApply(s, i) \/ DrainDrop(s, i)
        PROVE  KeepsAnswers
    BY <1>0, <2>2 DEF DrainApply, DrainDrop
  <2>3. DrainDone \/ PumpSkip \/ PumpDone \/ NextSlice => KeepsAnswers
    BY <1>0, <1>a DEF DrainDone, PumpSkip, PumpDone, NextSlice
  <2>. QED
    BY <1>3, <2>1, <2>2, <2>3 DEF Loop
<1>4. ASSUME NEW c \in calls, Handle(c)
      PROVE  KeepsAnswers
  <2>0. calls \ {c} \in SUBSET calls
    OBVIOUS
  <2>1. ASSUME NEW p, NEW q, NEW carry, NEW chats,
               \/ HandleState(c, p, q) \/ DifferenceEmpty(c, q)
               \/ DifferenceFinal(c, p, q, carry, chats)
               \/ DifferenceSlice(c, p, q, chats) \/ DifferenceTooLong(c, p)
        PROVE  KeepsAnswers
    <3>1. c.kind # "chan" /\ chanReq' = chanReq /\ calls' = calls \ {c}
      BY <2>1 DEF HandleState, DifferenceEmpty, DifferenceFinal,
         DifferenceSlice, DifferenceBody, DifferenceTooLong, Reply
    <3>. QED
      BY <2>0, <3>1, OtherKeeps
  <2>2. ASSUME StaleReply(c)
        PROVE  KeepsAnswers
    <3>1. chanReq' = chanReq /\ calls' = calls \ {c} /\ ~Expected(c)
      BY <2>2 DEF StaleReply
    <3>2. c.kind # "chan" \/ \A r \in chanReq : r.id # c.id
      BY <3>1 DEF Expected
    <3>. QED
      BY <3>1, <3>2 DEF KeepsAnswers
  <2>3. ASSUME NEW p, NEW final, NEW chats,
               \/ ChannelEmpty(c) \/ ChannelDifference(c, p, final, chats)
               \/ ChannelTooLong(c, p, chats)
        PROVE  KeepsAnswers
    <3>1. ChannelReply(c)
      BY <2>3 DEF ChannelEmpty, ChannelDifference, ChannelTooLong
    <3>. QED
      BY <2>0, <3>1, ReleaseKeeps DEF ChannelReply
  <2>4. ASSUME HandleAffected(c)
        PROVE  KeepsAnswers
    <3>1. c.kind # "chan" /\ chanReq' = chanReq
      BY <2>4 DEF HandleAffected, Reply
    <3>2. calls' = calls \ {c} \/ RequestDifference(valid, pts[Common], stateReq, diffReq, calls \ {c})
      BY <2>4 DEF HandleAffected
    <3>. QED
      BY <2>0, <3>1, <3>2, OtherKeeps, AskingKeeps
  <2>. QED
    BY <1>4, <2>1, <2>2, <2>3, <2>4 DEF Handle
<1>5. ASSUME NEW c \in calls, Fail(c)
      PROVE  KeepsAnswers
  <2>1. Errored(c) => calls \ {c} \in SUBSET calls'
    BY DEF Errored
  <2>2. ASSUME ChannelUndecoded(c) \/ ChannelError(c) \/ ChannelUnreachable(c)
        PROVE  KeepsAnswers
    <3>1. /\ [id |-> c.id, ch |-> c.seq] \in chanReq
          /\ chanReq' = chanReq \ {[id |-> c.id, ch |-> c.seq]}
          /\ calls \ {c} \in SUBSET calls'
      BY <2>1, <2>2 DEF ChannelUndecoded, ChannelError, ChannelUnreachable, ChannelReply
    <3>. QED
      BY <3>1, ReleaseKeeps
  <2>3. ASSUME \/ StateUndecoded(c) \/ DifferenceUndecoded(c) \/ StateError(c)
               \/ DifferenceError(c) \/ DifferenceRejected(c)
        PROVE  KeepsAnswers
    <3>1. c.kind # "chan" /\ chanReq' = chanReq
      BY <2>3 DEF StateUndecoded, DifferenceUndecoded, StateError, DifferenceError,
         DifferenceRejected, Reply
    <3>2. calls \ {c} \in SUBSET calls'
      BY <2>1, <2>3, AskingKeeps DEF StateUndecoded, DifferenceUndecoded, StateError,
         DifferenceError, DifferenceRejected
    <3>. QED
      BY <3>1, <3>2, OtherKeeps
  <2>. QED
    BY <1>5, <2>2, <2>3 DEF Fail
<1>6. GapTimer \/ Connected \/ Authorized => KeepsAnswers
  BY <1>0, <1>a DEF GapTimer, Connected, Authorized
<1>7. Disconnected \/ Restart => KeepsAnswers
  BY DEF Disconnected, Restart, KeepsAnswers
<1>8. UNCHANGED vars => KeepsAnswers
  BY <1>0 DEF vars
<1>. QED
  BY <1>1, <1>2, <1>3, <1>4, <1>5, <1>6, <1>7, <1>8 DEF Next

\* Every step keeps every slot answerable.
LEMMA SlotsStep ==
  ASSUME TypeOK, Slots, [Next]_vars
  PROVE  Slots'
<1>1. Running'
  BY LinkShape DEF Slots, Running, Idle
<1>2. /\ \A r, t \in chanReq : r.id = t.id => r = t
      /\ \A r \in chanReq, c \in calls : c.id = r.id => c.kind = "chan"
      /\ \A r \in chanReq : \E c \in calls : c.id = r.id /\ c.kind = "chan"
  BY DEF Slots, SlotIds, SlotsAreAnswerable
<1>3. SUFFICES /\ \A r, t \in chanReq' : r.id = t.id => r = t
               /\ \A r \in chanReq', c \in calls' : c.id = r.id => c.kind = "chan"
               /\ \A r \in chanReq' : \E c \in calls' : c.id = r.id /\ c.kind = "chan"
  BY <1>1 DEF Slots, SlotIds, SlotsAreAnswerable
<1>4. ASSUME KeepsAnswers, ~\E d \in calls : MessageChanged(d)
      PROVE  /\ \A r, t \in chanReq' : r.id = t.id => r = t
             /\ \A r \in chanReq', c \in calls' : c.id = r.id => c.kind = "chan"
             /\ \A r \in chanReq' : \E c \in calls' : c.id = r.id /\ c.kind = "chan"
  <2>1. chanReq' \in SUBSET chanReq
    BY <1>4 DEF KeepsAnswers
  <2>2. ASSUME NEW c \in calls'
        PROVE  c \in calls \/ (CanSend /\ c.id = Fresh(calls))
    <3>1. ASSUME NEW s \in Seqs, NEW n \in Counts, RequestChange(s, n)
          PROVE  c \in calls \/ (CanSend /\ c.id = Fresh(calls))
      BY <3>1 DEF RequestChange
    <3>. QED
      BY <1>4, <3>1, CallsShape DEF Asks, AskedNow
  <2>3. ASSUME NEW r \in chanReq', NEW c \in calls', c.id = r.id
        PROVE  c.kind = "chan"
    BY <1>2, <2>1, <2>2, <2>3, FreshIsNew
  <2>4. ASSUME NEW r \in chanReq'
        PROVE  \E c \in calls' : c.id = r.id /\ c.kind = "chan"
    BY <1>2, <1>4, <2>1 DEF KeepsAnswers
  <2>. QED
    BY <1>2, <2>1, <2>3, <2>4
<1>5. CASE PumpSend
  <2>1. link # "down"
    BY <1>5 DEF PumpSend, Slots, Running, Idle
  <2>. DEFINE slot == [id |-> Fresh(calls), ch |-> Head(queue)]
  <2>2. CanSend /\ chanReq' = chanReq \cup {slot}
    BY <1>5 DEF PumpSend
  <2>. DEFINE call == [id |-> Fresh(calls), kind |-> "chan", seq |-> Head(queue),
                       from |-> pts[Head(queue)], lo |-> srv[Head(queue)], sq |-> Len(box)]
  <2>3. calls' = calls \cup {call}
    BY <1>5, <2>1 DEF PumpSend, Send
  <2>4. slot.id = Fresh(calls) /\ call.id = Fresh(calls) /\ call.kind = "chan"
    OBVIOUS
  <2>5. /\ \A c \in calls : c.id # Fresh(calls)
        /\ \A r \in chanReq : r.id # Fresh(calls)
    BY <2>2, FreshIsNew
  <2>. HIDE DEF slot, call
  <2>6. \A r, t \in chanReq' : r.id = t.id => r = t
    BY <1>2, <2>2, <2>4, <2>5
  <2>7. \A r \in chanReq', c \in calls' : c.id = r.id => c.kind = "chan"
    BY <1>2, <2>2, <2>3, <2>4, <2>5
  <2>8. \A r \in chanReq' : \E c \in calls' : c.id = r.id /\ c.kind = "chan"
    BY <1>2, <2>2, <2>3, <2>4
  <2>. QED
    BY <2>6, <2>7, <2>8
<1>6. ASSUME NEW d \in calls, MessageChanged(d)
      PROVE  /\ \A r, t \in chanReq' : r.id = t.id => r = t
             /\ \A r \in chanReq', c \in calls' : c.id = r.id => c.kind = "chan"
             /\ \A r \in chanReq' : \E c \in calls' : c.id = r.id /\ c.kind = "chan"
  <2>. DEFINE renamed == [d EXCEPT !.id = Fresh(calls)]
  <2>1. CanSend /\ calls' = (calls \ {d}) \cup {renamed}
    BY <1>6 DEF MessageChanged
  <2>2. renamed.id = Fresh(calls) /\ renamed.kind = d.kind
    <3>1. d \in Call
      BY DEF TypeOK
    <3>. QED
      BY <3>1 DEF Call
  <2>3. \A t \in chanReq' : \E r \in chanReq :
          /\ t.ch = r.ch /\ t = [id |-> t.id, ch |-> t.ch]
          /\ t.id = IF r.id = d.id THEN Fresh(calls) ELSE r.id
    BY <1>6 DEF MessageChanged
  <2>4. /\ \A c \in calls : c.id # Fresh(calls)
        /\ \A r \in chanReq : r.id # Fresh(calls)
    BY <2>1, FreshIsNew
  <2>. HIDE DEF renamed
  <2>5. ASSUME NEW r \in chanReq', NEW t \in chanReq', r.id = t.id
        PROVE  r = t
    <3>1. PICK a \in chanReq : /\ r.ch = a.ch /\ r = [id |-> r.id, ch |-> r.ch]
                               /\ r.id = IF a.id = d.id THEN Fresh(calls) ELSE a.id
      BY <2>3
    <3>2. PICK b \in chanReq : /\ t.ch = b.ch /\ t = [id |-> t.id, ch |-> t.ch]
                               /\ t.id = IF b.id = d.id THEN Fresh(calls) ELSE b.id
      BY <2>3
    <3>3. a.id = b.id
      BY <2>4, <2>5, <3>1, <3>2
    <3>. QED
      BY <1>2, <2>5, <3>1, <3>2, <3>3
  <2>6. ASSUME NEW r \in chanReq', NEW c \in calls', c.id = r.id
        PROVE  c.kind = "chan"
    BY <1>2, <2>1, <2>2, <2>3, <2>4, <2>6
  <2>7. ASSUME NEW t \in chanReq'
        PROVE  \E c \in calls' : c.id = t.id /\ c.kind = "chan"
    <3>1. PICK a \in chanReq : t.id = IF a.id = d.id THEN Fresh(calls) ELSE a.id
      BY <2>3
    <3>2. CASE a.id = d.id
      BY <1>2, <2>1, <2>2, <3>1, <3>2
    <3>3. CASE a.id # d.id
      BY <1>2, <2>1, <3>1, <3>3
    <3>. QED
      BY <3>2, <3>3
  <2>. QED
    BY <2>5, <2>6, <2>7
<1>. QED
  BY <1>4, <1>5, <1>6, AnswersShape DEF Slots

-----------------------------------------------------------------------------
(***************************************************************************)
(* What is parked.                                                         *)
(***************************************************************************)
\* Nothing about what is parked, or how it is judged, changes.
Rests ==
  /\ UNCHANGED <<pending, timer, pts>> /\ (valid' => valid)
  /\ pc' # "drain" => pc # "drain"

\* The handler goes on to drain the queue, unless it is empty.
Drains == UNCHANGED <<pending, timer>> /\ (pc' = "drain" \/ pending = NothingHeld)

\* What is parked for one channel is dropped, and only its position may move.
DropsOne ==
  \E c \in Channels :
    /\ DropPending(c)
    /\ \A s \in Seqs \ {c} : pts'[s] = pts[s]
    /\ valid' = valid /\ pc # "drain"

\* drainPending() is entered by its two exits only.
LEMMA EnterDrains ==
  ASSUME NEW cont, EnterDrain(pending, cont), UNCHANGED <<pending, timer>>
  PROVE  Drains
BY DEF EnterDrain, Drains

\* What a step does to what is parked and to the positions it is judged by.
LEMMA ParkedShape ==
  ASSUME TypeOK, [Next]_vars
  PROVE  \/ Rests \/ Drains \/ DropsOne
         \/ pending' = NothingHeld
         \/ \E u \in Update : HoldUnseeded(u) \/ ParkGap(u)
         \/ \E s \in Seqs : \E i \in DOMAIN pending[s] : DrainApply(s, i) \/ DrainDrop(s, i)
         \/ DrainDone
<1>. USE DEF parked, position, control
<1>1. Serve => Rests
  BY DEF Serve, Produce, RequestChange, Rests
<1>2. ASSUME Receive
      PROVE  Rests \/ DropsOne
  <2>1. ASSUME NEW c \in Channels, ReceiveChannelTooLong(c)
        PROVE  DropsOne
    BY <2>1 DEF ReceiveChannelTooLong, DropsOne, Receiving, Idle
  <2>2. ASSUME NEW i, NEW j, NEW chats, ReceiveContainer(i, j, chats)
        PROVE  Rests
    BY <2>2 DEF ReceiveContainer, Rests
  <2>3. ASSUME NEW u, NEW chats, ReceiveUpdate(u, chats)
        PROVE  Rests
    BY <2>3 DEF ReceiveUpdate, Rests
  <2>4. ReceiveTooLong => Rests
    BY DEF ReceiveTooLong, Rests
  <2>. QED
    BY <1>2, <2>1, <2>2, <2>3, <2>4 DEF Receive
<1>3. ASSUME Loop
      PROVE  \/ Rests \/ Drains
             \/ \E u \in Update : HoldUnseeded(u) \/ ParkGap(u)
             \/ \E s \in Seqs : \E i \in DOMAIN pending[s] : DrainApply(s, i) \/ DrainDrop(s, i)
             \/ DrainDone
  <2>1. ASSUME NEW u, HoldUnseeded(u) \/ ParkGap(u)
        PROVE  u \in Update
    <3>1. todo # <<>> /\ u = Head(todo) /\ todo \in Seq(Update)
      BY <2>1 DEF HoldUnseeded, ParkGap, Applying, TypeOK
    <3>. QED
      BY <3>1
  <2>2. ASSUME NEW u, ApplyNext(u)
        PROVE  Drains
    BY <2>2, EnterDrains DEF ApplyNext
  <2>3. ASSUME NEW u, DropDuplicate(u)
        PROVE  Rests
    BY <2>3 DEF DropDuplicate, Rests
  <2>4. PumpSend \/ PumpSkip \/ PumpDone \/ NextSlice => Rests
    BY DEF PumpSend, PumpSkip, PumpDone, NextSlice, Rests
  <2>. QED
    BY <1>3, <2>1, <2>2, <2>3, <2>4 DEF Loop
<1>4. ASSUME NEW c \in calls, Handle(c)
      PROVE  Rests \/ Drains \/ DropsOne \/ pending' = NothingHeld
  <2>1. ASSUME NEW p, NEW q, NEW carry, NEW chats,
               \/ HandleState(c, p, q) \/ DifferenceEmpty(c, q)
               \/ DifferenceFinal(c, p, q, carry, chats)
               \/ DifferenceSlice(c, p, q, chats)
        PROVE  Drains
    BY <2>1, EnterDrains DEF HandleState, DifferenceEmpty, DifferenceFinal,
       DifferenceSlice, DifferenceBody
  <2>2. ASSUME NEW p, DifferenceTooLong(c, p)
        PROVE  pending' = NothingHeld
    BY <2>2 DEF DifferenceTooLong, ClearPending
  <2>3. StaleReply(c) => Rests
    BY DEF StaleReply, Rests
  <2>4. ASSUME NEW p, NEW final, NEW chats,
               ChannelEmpty(c) \/ ChannelDifference(c, p, final, chats)
        PROVE  Drains
    BY <2>4, EnterDrains DEF ChannelEmpty, ChannelDifference
  <2>5. ASSUME NEW p, NEW chats, ChannelTooLong(c, p, chats)
        PROVE  DropsOne
    <3>1. [id |-> c.id, ch |-> c.seq] \in chanReq /\ pc = "loop"
      BY <2>5 DEF ChannelTooLong, ChannelReply, Reply, Idle
    <3>2. c.seq \in Channels
      BY <3>1 DEF TypeOK
    <3>3. DropPending(c.seq) /\ pts' = SetTo(pts, c.seq, p) /\ valid' = valid
      BY <2>5 DEF ChannelTooLong, ChannelDone
    <3>4. \A s \in Seqs \ {c.seq} : pts'[s] = pts[s]
      BY <3>3 DEF SetTo, TypeOK
    <3>. QED
      BY <3>1, <3>2, <3>3, <3>4 DEF DropsOne
  <2>6. ASSUME HandleAffected(c)
        PROVE  Rests \/ Drains
    <3>1. UNCHANGED <<pending, timer>> /\ valid' = valid /\ pc = "loop"
      BY <2>6 DEF HandleAffected, Reply, Idle
    <3>2. pts' = pts \/ EnterDrain(pending, "loop")
      BY <2>6 DEF HandleAffected
    <3>. QED
      BY <3>1, <3>2, EnterDrains DEF Rests
  <2>. QED
    BY <1>4, <2>1, <2>2, <2>3, <2>4, <2>5, <2>6 DEF Handle
<1>5. ASSUME NEW c \in calls, Fail(c) \/ MessageChanged(c)
      PROVE  Rests \/ DropsOne \/ pending' = NothingHeld
  <2>1. \/ StateUndecoded(c) \/ DifferenceUndecoded(c) \/ ChannelUndecoded(c)
        \/ StateError(c) \/ DifferenceError(c) \/ MessageChanged(c) \/ ChannelError(c)
        => Rests
    BY DEF StateUndecoded, DifferenceUndecoded, ChannelUndecoded, StateError,
       DifferenceError, MessageChanged, ChannelError, ChannelReply, Reply, Idle, Rests
  <2>2. DifferenceRejected(c) => pending' = NothingHeld
    BY DEF DifferenceRejected, ClearPending
  <2>3. ASSUME ChannelUnreachable(c)
        PROVE  DropsOne
    <3>1. [id |-> c.id, ch |-> c.seq] \in chanReq /\ pc = "loop"
      BY <2>3 DEF ChannelUnreachable, ChannelReply, Reply, Idle
    <3>2. c.seq \in Channels
      BY <3>1 DEF TypeOK
    <3>3. DropPending(c.seq) /\ pts' = SetTo(pts, c.seq, 0) /\ valid' = valid
      BY <2>3 DEF ChannelUnreachable
    <3>4. \A s \in Seqs \ {c.seq} : pts'[s] = pts[s]
      BY <3>3 DEF SetTo, TypeOK
    <3>. QED
      BY <3>1, <3>2, <3>3, <3>4 DEF DropsOne
  <2>. QED
    BY <1>5, <2>1, <2>2, <2>3 DEF Fail
<1>6. Connected \/ Authorized \/ Disconnected => Rests
  BY DEF Connected, Authorized, Disconnected, Rests
<1>7. GapTimer \/ Restart => pending' = NothingHeld
  BY DEF GapTimer, Restart, ClearPending
<1>8. UNCHANGED vars => Rests
  BY DEF vars, Rests
<1>. QED
  BY <1>1, <1>2, <1>3, <1>4, <1>5, <1>6, <1>7, <1>8 DEF Next

\* The places of the parked queue, per sequence.
LEMMA HeldPlaces ==
  /\ \A x : x \in Held <=> \E s \in Seqs : \E i \in DOMAIN pending[s] : x = <<s, i>>
  /\ \A x : x \in Held' <=> \E s \in Seqs : \E i \in DOMAIN pending'[s] : x = <<s, i>>
BY DEF Held

\* A queue that loses places stays within its limit.
LEMMA HeldFewer ==
  ASSUME IsFiniteSet(Held), \A s \in Seqs : DOMAIN pending'[s] \subseteq DOMAIN pending[s]
  PROVE  /\ IsFiniteSet(Held') /\ Cardinality(Held') <= Cardinality(Held)
         /\ Cardinality(Held') \in Nat /\ Cardinality(Held) \in Nat
<1>1. Held' \in SUBSET Held
  BY HeldPlaces
<1>. QED
  BY <1>1, FS_Subset, FS_CardinalityType

\* park() on a queue with room takes one place more.
LEMMA HeldOneMore ==
  ASSUME TypeOK, IsFiniteSet(Held), NEW u \in Update, ~Full, pending' = Parked(u)
  PROVE  /\ IsFiniteSet(Held') /\ Cardinality(Held') \in Nat /\ Cardinality(Held) \in Nat
         /\ Cardinality(Held') <= Cardinality(Held) + 1
<1>. DEFINE x == <<u.seq, Len(pending[u.seq]) + 1>>
<1>1. u.seq \in Seqs /\ [pts |-> u.pts, count |-> u.count] \in Item
  BY DEF Update, Item
<1>2. pending[u.seq] \in Seq(Item)
  BY <1>1 DEF TypeOK
<1>3. pending' = [pending EXCEPT ![u.seq] = Append(@, [pts |-> u.pts, count |-> u.count])]
  BY DEF Parked
<1>4. \A s \in Seqs \ {u.seq} : pending'[s] = pending[s]
  BY <1>3 DEF TypeOK
<1>5. pending'[u.seq] = Append(pending[u.seq], [pts |-> u.pts, count |-> u.count])
  BY <1>1, <1>3 DEF TypeOK
<1>6. /\ DOMAIN pending'[u.seq] = 1 .. (Len(pending[u.seq]) + 1)
      /\ DOMAIN pending[u.seq] = 1 .. Len(pending[u.seq])
      /\ Len(pending[u.seq]) \in Nat
  BY <1>1, <1>2, <1>5
<1>7. \A i \in DOMAIN pending'[u.seq] :
        i \in DOMAIN pending[u.seq] \/ i = Len(pending[u.seq]) + 1
  BY <1>6
<1>8. Held' \in SUBSET (Held \cup {x})
  BY <1>4, <1>7, HeldPlaces
<1>. HIDE DEF x
<1>9. IsFiniteSet(Held \cup {x}) /\ Cardinality(Held \cup {x}) <= Cardinality(Held) + 1
      /\ Cardinality(Held \cup {x}) \in Nat /\ Cardinality(Held) \in Nat
  BY OneMore
<1>10. IsFiniteSet(Held') /\ Cardinality(Held') <= Cardinality(Held \cup {x})
  BY <1>8, <1>9, FS_Subset
<1>11. Cardinality(Held') \in Nat
  BY <1>10, FS_CardinalityType
<1>. QED
  BY <1>9, <1>10, <1>11

\* An emptied queue.
LEMMA HeldNothing ==
  ASSUME pending' = NothingHeld
  PROVE  Timed'
<1>1. \A s \in Seqs : DOMAIN pending'[s] = {}
  BY DEF NothingHeld
<1>2. Held' = {}
  BY <1>1, HeldPlaces
<1>3. IsFiniteSet({}) /\ Cardinality({}) = 0
  BY FS_EmptySet
<1>4. 0 <= MaxPending
  BY ConstantsAssumption
<1>. QED
  BY <1>2, <1>3, <1>4 DEF Timed, ParkedIsTimed

\* Every step keeps what is parked within its limit and under its timer.
LEMMA TimedStep ==
  ASSUME TypeOK, Timed, [Next]_vars
  PROVE  Timed'
<1>0. /\ IsFiniteSet(Held) /\ Cardinality(Held) \in Nat /\ Cardinality(Held) <= MaxPending
      /\ MaxPending \in Nat /\ (pending # NothingHeld => timer)
  BY FS_CardinalityType, ConstantsAssumption DEF Timed, ParkedIsTimed
<1>1. ASSUME \A s \in Seqs : DOMAIN pending'[s] \subseteq DOMAIN pending[s],
             pending' # NothingHeld => timer'
      PROVE  Timed'
  <2>1. IsFiniteSet(Held') /\ Cardinality(Held') <= MaxPending
    BY <1>0, <1>1, HeldFewer
  <2>. QED
    BY <1>1, <2>1 DEF Timed, ParkedIsTimed
<1>2. CASE Rests \/ Drains
  BY <1>0, <1>1, <1>2 DEF Rests, Drains
<1>3. CASE DropsOne
  <2>1. PICK c \in Channels : DropPending(c)
    BY <1>3 DEF DropsOne
  <2>2. pending' = [pending EXCEPT ![c] = <<>>] /\ timer' = (timer /\ pending' # NothingHeld)
    BY <2>1 DEF DropPending
  <2>3. \A s \in Seqs : pending'[s] = IF s = c THEN <<>> ELSE pending[s]
    BY <2>2 DEF TypeOK
  <2>4. \A s \in Seqs : DOMAIN pending'[s] \subseteq DOMAIN pending[s]
    BY <2>3
  <2>5. pending = NothingHeld => pending' = NothingHeld
    BY <2>2 DEF NothingHeld, Seqs
  <2>6. pending' # NothingHeld => timer'
    BY Zenon, <1>0, <2>2, <2>5
  <2>. QED
    BY <1>1, <2>4, <2>6
<1>4. CASE pending' = NothingHeld
  BY <1>4, HeldNothing
<1>5. ASSUME NEW u \in Update, HoldUnseeded(u) \/ ParkGap(u)
      PROVE  Timed'
  <2>1. pending' = Parked(u) /\ timer' = (timer \/ ~Full)
    BY <1>5 DEF HoldUnseeded, ParkGap, Park
  <2>2. CASE Full
    BY <2>1, <2>2, HeldNothing DEF Parked
  <2>3. CASE ~Full
    <3>1. IsFiniteSet(Held') /\ Cardinality(Held') <= Cardinality(Held) + 1
          /\ Cardinality(Held') \in Nat
      BY <1>0, <2>1, <2>3, HeldOneMore
    <3>2. Cardinality(Held) < MaxPending
      BY <1>0, <2>3 DEF Full
    <3>3. Cardinality(Held') <= MaxPending
      BY <1>0, <3>1, <3>2
    <3>4. timer'
      BY Zenon, <2>1, <2>3
    <3>. QED
      BY <3>1, <3>3, <3>4 DEF Timed, ParkedIsTimed
  <2>. QED
    BY <2>2, <2>3
<1>6. ASSUME NEW s \in Seqs, NEW i \in DOMAIN pending[s], DrainApply(s, i) \/ DrainDrop(s, i)
      PROVE  Timed'
  <2>1. pending' = [pending EXCEPT ![s] = Without(pending[s], i)] /\ timer' = timer
    BY <1>6 DEF DrainApply, DrainDrop
  <2>2. pending[s] \in Seq(Item)
    BY DEF TypeOK
  <2>3. Without(pending[s], i) \in Seq(Item) /\ Len(Without(pending[s], i)) = Len(pending[s]) - 1
    BY <2>2, WithoutType
  <2>4. DOMAIN Without(pending[s], i) \subseteq DOMAIN pending[s]
    BY <2>2, <2>3
  <2>5. \A t \in Seqs : pending'[t] = IF t = s THEN Without(pending[s], i) ELSE pending[t]
    BY <2>1 DEF TypeOK
  <2>6. \A t \in Seqs : DOMAIN pending'[t] \subseteq DOMAIN pending[t]
    BY <2>4, <2>5
  <2>7. pending # NothingHeld
    BY DEF NothingHeld
  <2>. QED
    BY Zenon, <1>0, <1>1, <2>1, <2>6, <2>7
<1>7. CASE DrainDone
  <2>1. pending' = pending /\ timer' = (timer /\ pending # NothingHeld)
    BY <1>7 DEF DrainDone
  <2>2. \A s \in Seqs : DOMAIN pending'[s] \subseteq DOMAIN pending[s]
    BY <2>1
  <2>. QED
    BY Zenon, <1>0, <1>1, <2>1, <2>2
<1>. QED
  BY <1>2, <1>3, <1>4, <1>5, <1>6, <1>7, ParkedShape

\* Outside drainPending() no step makes a parked update applicable.
LEMMA NothingReadyStep ==
  ASSUME TypeOK, NothingReady, [Next]_vars
  PROVE  NothingReady'
<1>1. SUFFICES ASSUME pc' # "drain", valid'
               PROVE  Gaps(pts', pending')
  BY DEF NothingReady
<1>2. pending' = NothingHeld => Gaps(pts', pending')
  BY DEF Gaps, NothingHeld
<1>3. CASE Rests
  BY <1>1, <1>3 DEF Rests, NothingReady
<1>4. CASE Drains
  BY <1>1, <1>2, <1>4 DEF Drains
<1>5. CASE DropsOne
  <2>1. PICK c \in Channels :
          /\ DropPending(c) /\ valid' = valid /\ pc # "drain"
          /\ \A s \in Seqs \ {c} : pts'[s] = pts[s]
    BY <1>5 DEF DropsOne
  <2>2. \A s \in Seqs : pending'[s] = IF s = c THEN <<>> ELSE pending[s]
    BY <2>1 DEF DropPending, TypeOK
  <2>3. Gaps(pts, pending)
    BY <1>1, <2>1 DEF NothingReady
  <2>. QED
    BY <2>1, <2>2, <2>3 DEF Gaps
<1>6. ASSUME NEW u \in Update, HoldUnseeded(u)
      PROVE  FALSE
  BY <1>1, <1>6 DEF HoldUnseeded, position
<1>7. ASSUME NEW u \in Update, ParkGap(u)
      PROVE  Gaps(pts', pending')
  <2>1. /\ Check(pts[u.seq], u.pts, u.count) = "gap" /\ pts' = pts /\ valid /\ pc = "loop"
        /\ pending' = Parked(u)
    BY <1>7 DEF ParkGap, Park, Verdict, position, Applying
  <2>2. Gaps(pts, pending)
    BY <2>1 DEF NothingReady
  <2>3. CASE Full
    BY <1>2, <2>1, <2>3 DEF Parked
  <2>4. CASE ~Full
    <3>. DEFINE item == [pts |-> u.pts, count |-> u.count]
    <3>1. u.seq \in Seqs /\ item \in Item
      BY DEF Update, Item
    <3>2. \A s \in Seqs : pending'[s] = IF s = u.seq THEN Append(pending[s], item) ELSE pending[s]
      BY <2>1, <2>4 DEF Parked, TypeOK
    <3>3. pending[u.seq] \in Seq(Item)
      BY <3>1 DEF TypeOK
    <3>4. item.pts = u.pts /\ item.count = u.count
      OBVIOUS
    <3>. HIDE DEF item
    <3>5. \A i \in DOMAIN Append(pending[u.seq], item) :
            \/ Append(pending[u.seq], item)[i] = item
            \/ i \in DOMAIN pending[u.seq] /\ Append(pending[u.seq], item)[i] = pending[u.seq][i]
      BY <3>1, <3>3
    <3>6. ASSUME NEW s \in Seqs, NEW i \in DOMAIN pending'[s]
          PROVE  Check(pts[s], pending'[s][i].pts, pending'[s][i].count) = "gap"
      <4>1. CASE i \in DOMAIN pending[s] /\ pending'[s][i] = pending[s][i]
        BY <2>2, <4>1 DEF Gaps
      <4>2. CASE s = u.seq /\ pending'[s][i] = item
        BY <2>1, <3>4, <4>2
      <4>. QED
        BY <3>2, <3>5, <3>6, <4>1, <4>2
    <3>. QED
      BY <2>1, <3>6 DEF Gaps
  <2>. QED
    BY <2>3, <2>4
<1>8. ASSUME NEW s, NEW i, DrainApply(s, i) \/ DrainDrop(s, i)
      PROVE  FALSE
  BY <1>1, <1>8 DEF DrainApply, DrainDrop, control
<1>9. CASE DrainDone
  BY <1>9 DEF DrainDone, Ready, Verdict, Gaps, position
<1>. QED
  BY <1>2, <1>3, <1>4, <1>5, <1>6, <1>7, <1>8, <1>9, ParkedShape

\* A process that has just started holds nothing.
LEMMA QInvInit ==
  ASSUME Init
  PROVE  QInv
<1>1. TypeOK
  BY TypeInit
<1>2. IsFiniteSet({}) /\ Cardinality({}) = 0 /\ 0 <= MaxChannelPolls /\ 0 <= MaxPending
  BY FS_EmptySet, ConstantsAssumption
<1>3. chanReq = {} /\ calls = {} /\ queue = <<>> /\ pending = NothingHeld /\ pc = "loop" /\ todo = <<>>
  BY DEF Init
<1>4. Polls
  BY <1>2, <1>3 DEF Polls, PollDiscipline, InFlight, Queued
<1>5. Slots
  BY <1>3 DEF Slots, Running, SlotIds, SlotsAreAnswerable, Idle
<1>6. Held = {}
  BY <1>3 DEF Held, NothingHeld
<1>7. Timed /\ NothingReady
  BY <1>2, <1>3, <1>6 DEF Timed, ParkedIsTimed, NothingReady, Gaps, NothingHeld
<1>. QED
  BY <1>1, <1>4, <1>5, <1>7 DEF QInv

\* The inductive invariant of the bookkeeping.
THEOREM BookkeepingInductive == Spec => []QInv
<1>1. QInv /\ [Next]_vars => QInv'
  BY TypeStep, PollsStep, SlotsStep, TimedStep, NothingReadyStep DEF QInv
<1>. QED
  BY <1>1, QInvInit, PTL DEF Spec

(***************************************************************************)
(* pumpChannelQueue() and enqueueChannel() between them keep the polls     *)
(* within MaxChannelPolls, one per channel, whatever replies, errors,      *)
(* renames and too-long notices interleave; and a channel waits once.      *)
(***************************************************************************)
THEOREM PollDisciplineHolds == Spec => []PollDiscipline
<1>1. QInv => PollDiscipline
  BY DEF QInv, Polls
<1>. QED
  BY <1>1, BookkeepingInductive, PTL

(***************************************************************************)
(* A slot of _channelRequestId always belongs to a getChannelDifference    *)
(* whose answer can still come: through renames, FLOOD_WAIT, stale replies *)
(* and lost connections, no slot of the cap is leaked.                     *)
(***************************************************************************)
THEOREM SlotsAreAnswerableHolds == Spec => []SlotsAreAnswerable
<1>1. QInv => SlotsAreAnswerable
  BY DEF QInv, Slots
<1>. QED
  BY <1>1, BookkeepingInductive, PTL

(***************************************************************************)
(* park(), dropPending(), clearPending() and drainPending() keep _pending  *)
(* within MaxPending and _gapTimer running for as long as it is not empty. *)
(***************************************************************************)
THEOREM ParkedIsTimedHolds == Spec => []ParkedIsTimed
<1>1. QInv => ParkedIsTimed
  BY DEF QInv, Timed
<1>. QED
  BY <1>1, BookkeepingInductive, PTL

(***************************************************************************)
(* Every handler that moves a position drains the queue before it returns: *)
(* between handlers nothing that is parked could be applied or dropped.    *)
(***************************************************************************)
THEOREM ParkedMeansGapHolds == Spec => []ParkedMeansGap
<1>1. QInv => ParkedMeansGap
  BY DEF QInv, NothingReady, Gaps, ParkedMeansGap, Idle, Ready, Verdict
<1>. QED
  BY <1>1, BookkeepingInductive, PTL
=============================================================================
