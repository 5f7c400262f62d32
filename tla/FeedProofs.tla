----------------------------- MODULE FeedProofs -----------------------------
(***************************************************************************)
(* The update pipeline implements the feed, and skips nothing silently     *)
(* where no fault makes it, for every value of the constants.              *)
(*                                                                         *)
(* The invariant of UpdatesProofs gives the heart of the refinement: after *)
(* every step each position is complete.  What is added here is how a step *)
(* may change what the models were told (Told), that nothing is shown but  *)
(* what the server logged (ShownIsLogged), and, where none of the three    *)
(* silent faults occurs, that a state is only ever asked for before the    *)
(* models have a start (Known), so that a reply to it never makes a jump.  *)
(***************************************************************************)
EXTENDS UpdatesProofs

MaySkip == Faults \cap Silent # {}

\* The positions of the updates logged in s.
Logged(s) == {e.pts : e \in log[s]}

ShownIsLogged == \A s \in Seqs : seen[s] \in SUBSET Logged(s)

\* While nothing silent happens a state is unknown exactly as long as the
\* models have no start, and only an unknown state is asked for.
Known ==
  /\ lapse = NoPosition
  /\ valid <=> floor[Common] # 0
  /\ stateReq # NoReq => ~valid

\* The ways a step changes what the models of s were told.
Told(s) ==
  \/ floor'[s] = floor[s] /\ lapse'[s] = lapse[s]
  \/ s # Common /\ pts[s] = 0 /\ lapse'[s] = lapse[s]
  \/ floor'[s] >= pts'[s] /\ lapse'[s] = lapse[s]
  \/ "carried" \in Faults /\ floor'[s] = floor[s]
  \/ s = Common /\ floor[s] # 0 /\ stateReq # NoReq /\ floor'[s] = floor[s]

\* A step tells and shows only what it may.
Tells == \A s \in Seqs : Told(s) /\ seen'[s] \in SUBSET Logged(s)

\* What a step adds to what was shown.
Adds(s, ps) == seen' = Delivered(s, ps) /\ ps \in SUBSET Logged(s)

-----------------------------------------------------------------------------
\* Raising one entry leaves the others alone.
LEMMA RaisedAlone ==
  ASSUME NEW f \in [Seqs -> Nat], NEW s \in Seqs, NEW b
  PROVE  \A t \in Seqs \ {s} : Raise(f, s, b)[t] = f[t]
BY DEF Raise

\* A step that leaves the history alone tells and shows nothing.
LEMMA QuietStep ==
  ASSUME TypeOK, ShownIsLogged, UNCHANGED history
  PROVE  Tells
BY DEF Tells, history, Told, ShownIsLogged

\* Adding logged updates of one sequence.
LEMMA AddsLogged ==
  ASSUME TypeOK, ShownIsLogged, NEW s \in Seqs, NEW ps, Adds(s, ps)
  PROVE  \A t \in Seqs : seen'[t] \in SUBSET Logged(t)
BY DEF Adds, Delivered, ShownIsLogged, TypeOK

\* emitOne() shows an update of the log, and tells only a channel that is
\* entered where it starts.
LEMMA EmitOneTold ==
  ASSUME TypeOK, ShownIsLogged, NEW s \in Seqs, NEW p \in Nat, NEW n \in Nat,
         Genuine(s, p, n), EmitOne(s, p, n)
  PROVE  Tells
<1>1. \A t \in Seqs : seen'[t] \in SUBSET Logged(t)
  <2>1. CASE n > 0
    <3>1. p \in Logged(s)
      BY <2>1 DEF Genuine, Exists, Logged
    <3>2. Adds(s, {p})
      BY <2>1, <3>1 DEF EmitOne, Adds
    <3>. QED
      BY <3>2, AddsLogged
  <2>2. CASE ~(n > 0)
    BY <2>2 DEF EmitOne, ShownIsLogged
  <2>. QED
    BY <2>1, <2>2
<1>2. \A t \in Seqs : Told(t)
  <2>1. lapse' = lapse /\ floor \in [Seqs -> Nat]
    BY DEF EmitOne, TypeOK
  <2>2. CASE pts[s] = 0 /\ s # Common
    <3>1. floor' = Raise(floor, s, p - n)
      BY <2>2 DEF EmitOne, Adopt
    <3>2. \A t \in Seqs \ {s} : floor'[t] = floor[t]
      BY <2>1, <3>1, RaisedAlone
    <3>. QED
      BY <2>1, <2>2, <3>2 DEF Told
  <2>3. CASE ~(pts[s] = 0 /\ s # Common)
    BY <2>1, <2>3 DEF EmitOne, Told
  <2>. QED
    BY <2>2, <2>3
<1>. QED
  BY <1>1, <1>2 DEF Tells

\* The loops of applyOne() and drainPending().
LEMMA LoopTells ==
  ASSUME TypeOK, ItemsGenuine, ShownIsLogged, Loop
  PROVE  Tells
<1>1. ASSUME NEW u, ApplyNext(u)
      PROVE  Tells
  <2>1. u = todo[1] /\ 1 \in DOMAIN todo /\ todo[1] \in Update
    <3>1. todo \in Seq(Update) /\ todo # <<>> /\ u = Head(todo)
      BY <1>1 DEF ApplyNext, Applying, TypeOK
    <3>. QED
      BY <3>1
  <2>2. u.seq \in Seqs /\ u.pts \in Nat /\ u.count \in Nat
    BY <2>1 DEF Update
  <2>3. Genuine(u.seq, u.pts, u.count)
    BY <2>1 DEF ItemsGenuine, TodoGenuine
  <2>4. EmitOne(u.seq, u.pts, u.count)
    BY <1>1 DEF ApplyNext
  <2>. QED
    BY <2>2, <2>3, <2>4, EmitOneTold
<1>2. ASSUME NEW s \in Seqs, NEW i \in DOMAIN pending[s], DrainApply(s, i)
      PROVE  Tells
  <2>1. pending[s][i] \in Item
    <3>1. pending[s] \in Seq(Item)
      BY DEF TypeOK
    <3>. QED
      BY <3>1
  <2>2. pending[s][i].pts \in Nat /\ pending[s][i].count \in Nat
    BY <2>1 DEF Item
  <2>3. Genuine(s, pending[s][i].pts, pending[s][i].count)
    BY DEF ItemsGenuine, PendingGenuine
  <2>4. EmitOne(s, pending[s][i].pts, pending[s][i].count)
    BY <1>2 DEF DrainApply
  <2>. QED
    BY <2>2, <2>3, <2>4, EmitOneTold
<1>3. ASSUME NEW u, HoldUnseeded(u) \/ DropDuplicate(u) \/ ParkGap(u)
      PROVE  Tells
  BY <1>3, QuietStep DEF HoldUnseeded, DropDuplicate, ParkGap
<1>4. ASSUME NEW s, NEW i, DrainDrop(s, i)
      PROVE  Tells
  BY <1>4, QuietStep DEF DrainDrop
<1>5. ASSUME DrainDone \/ PumpSend \/ PumpSkip \/ PumpDone \/ NextSlice
      PROVE  Tells
  BY <1>5, QuietStep DEF DrainDone, PumpSend, PumpSkip, PumpDone, NextSlice
<1>. QED
  BY <1>1, <1>2, <1>3, <1>4, <1>5 DEF Loop

\* handleAffected().
LEMMA AffectedTells ==
  ASSUME TypeOK, ChangesGenuine, ShownIsLogged, NEW c \in calls, HandleAffected(c)
  PROVE  Tells
<1>1. PICK a : a = CHOOSE x \in affected : x.id = c.id
  OBVIOUS
<1>2. a \in affected /\ a.id = c.id /\ c.kind = "affect"
  BY <1>1 DEF HandleAffected, Reply
<1>3. c.seq \in Seqs /\ c.lo \in Nat /\ c.from \in Nat
  BY DEF TypeOK, Call
<1>4. a.seq = c.seq /\ c.from < c.lo /\ Genuine(c.seq, c.lo, c.lo - c.from)
  BY <1>2 DEF ChangesGenuine
<1>5. CASE Check(pts[a.seq], c.lo, c.lo - c.from) = "apply"
  <2>1. /\ seen' = Delivered(c.seq, {c.lo}) /\ lapse' = lapse
        /\ floor' = (IF pts[c.seq] = 0 /\ c.seq # Common
                     THEN Raise(floor, c.seq, c.from) ELSE floor)
    BY <1>1, <1>4, <1>5 DEF HandleAffected, Adopt
  <2>2. c.lo \in Logged(c.seq)
    BY <1>3, <1>4 DEF Genuine, Exists, Logged
  <2>3. \A t \in Seqs : seen'[t] \in SUBSET Logged(t)
    BY SMTT(30), <1>3, <2>1, <2>2, AddsLogged DEF Adds
  <2>4. \A t \in Seqs : Told(t)
    <3>1. CASE pts[c.seq] = 0 /\ c.seq # Common
      <4>1. floor' = Raise(floor, c.seq, c.from) /\ floor \in [Seqs -> Nat]
        BY <2>1, <3>1 DEF TypeOK
      <4>2. \A t \in Seqs \ {c.seq} : floor'[t] = floor[t]
        BY <1>3, <4>1, RaisedAlone
      <4>. QED
        BY <2>1, <3>1, <4>2 DEF Told
    <3>2. CASE ~(pts[c.seq] = 0 /\ c.seq # Common)
      BY <2>1, <3>2 DEF Told
    <3>. QED
      BY <3>1, <3>2
  <2>. QED
    BY <2>3, <2>4 DEF Tells
<1>6. CASE Check(pts[a.seq], c.lo, c.lo - c.from) # "apply"
  BY <1>1, <1>6, QuietStep DEF HandleAffected, history
<1>. QED
  BY <1>5, <1>6

\* handleState() tells the models their start, or jumps; a difference that is
\* too long tells them to reload; one that carries an update may do both.
LEMMA CommonReplyTells ==
  ASSUME TypeOK, TypeOK', ShownIsLogged, NEW c \in calls,
         NEW p \in Boundaries(Common), NEW q,
         \/ HandleState(c, p, q) \/ DifferenceTooLong(c, p)
         \/ \E u \in Carriable : \E chats : DifferenceBody(c, p, q, u, chats)
  PROVE  Tells
<1>1. Common \in Seqs /\ Common \notin Channels
  BY CommonIsNoChannel DEF Seqs
<1>2. floor \in [Seqs -> Nat] /\ lapse \in [Seqs -> Nat] /\ pts \in [Seqs -> Nat]
      /\ p \in Nat
  BY <1>1, BoundariesType DEF TypeOK
<1>3. Raise(floor, Common, p)[Common] >= p
  BY SMTT(30), <1>1, <1>2, Raised
<1>4. CASE HandleState(c, p, q)
  <2>1. /\ pts' = SetTo(pts, Common, p) /\ seen' = seen /\ stateReq = c.id
        /\ IF floor[Common] = 0
           THEN floor' = Raise(floor, Common, p) /\ lapse' = lapse
           ELSE lapse' = Raise(lapse, Common, p) /\ floor' = floor
    BY <1>4 DEF HandleState, Adopt
  <2>2. pts'[Common] = p /\ stateReq # NoReq
    <3>1. c.id \in Ids
      BY DEF TypeOK, Call
    <3>. QED
      BY <1>1, <1>2, <2>1, <3>1, ConstantsAssumption DEF SetTo
  <2>3. \A t \in Seqs : Told(t)
    <3>1. CASE floor[Common] = 0
      <4>1. \A t \in Seqs \ {Common} : floor'[t] = floor[t]
        BY <1>1, <1>2, <2>1, <3>1, RaisedAlone
      <4>. QED
        BY <1>3, <2>1, <2>2, <3>1, <4>1 DEF Told
    <3>2. CASE floor[Common] # 0
      <4>1. \A t \in Seqs \ {Common} : lapse'[t] = lapse[t]
        BY <1>1, <1>2, <2>1, <3>2, RaisedAlone
      <4>. QED
        BY <2>1, <2>2, <3>2, <4>1 DEF Told
    <3>. QED
      BY <3>1, <3>2
  <2>. QED
    BY <2>1, <2>3 DEF Tells, ShownIsLogged
<1>5. CASE DifferenceTooLong(c, p)
  <2>1. /\ pts' = ClearChannels(SetTo(pts, Common, p)) /\ seen' = seen
        /\ lapse' = lapse /\ floor' = Raise(floor, Common, p)
    BY <1>5 DEF DifferenceTooLong, Adopt
  <2>2. pts'[Common] = p
    BY <1>1, <1>2, <2>1 DEF SetTo, ClearChannels
  <2>3. \A t \in Seqs \ {Common} : floor'[t] = floor[t]
    BY <1>1, <1>2, <2>1, RaisedAlone
  <2>4. \A t \in Seqs : Told(t)
    BY <1>3, <2>1, <2>2, <2>3 DEF Told
  <2>. QED
    BY <2>1, <2>4 DEF Tells, ShownIsLogged
<1>6. ASSUME NEW u \in Carriable, NEW chats, DifferenceBody(c, p, q, u, chats)
      PROVE  Tells
  <2>1. CarriedHistory(u, Enumerated(Common, c.from, p))
    BY <1>6 DEF DifferenceBody
  <2>2. \/ u = NoCarry
        \/ /\ "carried" \in Faults /\ u.seq \in Channels /\ u.seq # Common
           /\ u.pts \in Logged(u.seq)
    <3>1. ASSUME NEW d \in Channels, NEW e \in log[d],
                 u = [seq |-> d, pts |-> e.pts, count |-> e.count]
          PROVE  u.seq \in Channels /\ u.seq # Common /\ u.pts \in Logged(u.seq)
      BY <1>1, <3>1 DEF Logged
    <3>. QED
      BY <3>1 DEF Carriable
  <2>3. u.seq \in Seqs /\ (u.pts # 0 => u.pts \in Logged(u.seq))
    BY <1>1, <2>2 DEF NoCarry, Seqs
  <2>4. Enumerated(Common, c.from, p) \in SUBSET Logged(Common)
    BY DEF Enumerated, Logged
  <2>5. \A t \in Seqs : seen'[t] \in SUBSET Logged(t)
    BY <2>1, <2>3, <2>4 DEF CarriedHistory, ShownIsLogged
  <2>6. ASSUME NEW t \in Seqs
        PROVE  Told(t)
    <3>1. CASE u = NoCarry
      <4>1. u.pts - u.count = 0 /\ u.seq = Common /\ pts[u.seq] \in Nat
        BY <1>1, <1>2, <3>1 DEF NoCarry
      <4>2. floor' = floor /\ lapse' = lapse
        BY <2>1, <4>1 DEF CarriedHistory
      <4>. QED
        BY <4>2 DEF Told
    <3>2. CASE u # NoCarry /\ pts[u.seq] = 0
      <4>1. floor' = Raise(floor, u.seq, u.pts - u.count) /\ lapse' = lapse
        BY <2>1, <2>2, <3>2 DEF CarriedHistory, Adopt
      <4>2. t # u.seq => floor'[t] = floor[t]
        BY <1>2, <2>3, <4>1, RaisedAlone
      <4>. QED
        BY <2>2, <3>2, <4>1, <4>2 DEF Told
    <3>3. CASE u # NoCarry /\ pts[u.seq] # 0
      <4>1. floor' = floor
        BY <2>1, <3>3 DEF CarriedHistory
      <4>. QED
        BY <2>2, <3>3, <4>1 DEF Told
    <3>. QED
      BY <3>1, <3>2, <3>3
  <2>. QED
    BY <2>5, <2>6 DEF Tells
<1>. QED
  BY <1>4, <1>5, <1>6

\* handleChannelDifference().
LEMMA ChannelReplyTells ==
  ASSUME TypeOK, ShownIsLogged, NEW c \in calls, NEW p \in Boundaries(c.seq),
         NEW chats,
         \/ ChannelEmpty(c) \/ ChannelTooLong(c, p, chats)
         \/ \E final \in BOOLEAN : ChannelDifference(c, p, final, chats)
  PROVE  Tells
<1>1. c.seq \in Seqs /\ c.seq # Common
  BY CommonIsNoChannel DEF ChannelEmpty, ChannelTooLong, ChannelDifference,
     ChannelReply, TypeOK, Seqs
<1>2. floor \in [Seqs -> Nat] /\ pts \in [Seqs -> Nat] /\ p \in Nat
  BY <1>1, BoundariesType DEF TypeOK
<1>3. CASE ChannelEmpty(c)
  BY <1>3, QuietStep DEF ChannelEmpty
<1>4. CASE ChannelTooLong(c, p, chats)
  <2>1. /\ pts' = SetTo(pts, c.seq, p) /\ UNCHANGED <<seen, lapse>>
        /\ floor' = Raise(floor, c.seq, p)
    BY <1>4 DEF ChannelTooLong, Adopt
  <2>2. floor'[c.seq] >= p /\ pts'[c.seq] = p
    BY <1>1, <1>2, <2>1, Raised DEF SetTo
  <2>3. \A t \in Seqs \ {c.seq} : floor'[t] = floor[t]
    BY <1>1, <1>2, <2>1, RaisedAlone
  <2>. QED
    BY <2>1, <2>2, <2>3 DEF Tells, Told, ShownIsLogged
<1>5. ASSUME NEW final \in BOOLEAN, ChannelDifference(c, p, final, chats)
      PROVE  Tells
  <2>1. /\ seen' = Delivered(c.seq, Enumerated(c.seq, c.from, p))
        /\ UNCHANGED <<floor, lapse>>
    BY <1>5 DEF ChannelDifference
  <2>2. Enumerated(c.seq, c.from, p) \in SUBSET Logged(c.seq)
    BY DEF Enumerated, Logged
  <2>3. \A t \in Seqs : seen'[t] \in SUBSET Logged(t)
    BY <1>1, <2>1, <2>2, AddsLogged DEF Adds
  <2>. QED
    BY <2>1, <2>3 DEF Tells, Told
<1>. QED
  BY <1>3, <1>4, <1>5

\* Every step that is not a restart.
LEMMA TellsShape ==
  ASSUME IInv, TypeOK', ShownIsLogged, [Next]_vars
  PROVE  Tells \/ Restart
<1>. USE DEF IInv, Ground
<1>1. Serve \/ Receive => Tells
  BY ZenonT(40), QuietStep DEF Serve, Produce, RequestChange, Receive, ReceiveUpdate,
     ReceiveContainer, ReceiveTooLong, ReceiveChannelTooLong
<1>2. Loop => Tells
  BY LoopTells
<1>3. ASSUME NEW c \in calls, Handle(c)
      PROVE  Tells
  <2>1. Base \in Boundaries(c.seq) /\ NoCarry \in Carriable
    BY DEF Boundaries, Carriable
  <2>2. ASSUME NEW q, StaleReply(c) \/ DifferenceEmpty(c, q)
        PROVE  Tells
    BY <2>2, QuietStep DEF StaleReply, DifferenceEmpty
  <2>3. ASSUME NEW p \in Boundaries(Common), NEW q, NEW chats,
               \/ HandleState(c, p, q) \/ DifferenceTooLong(c, p)
               \/ \E carry \in Carriable : DifferenceFinal(c, p, q, carry, chats)
               \/ DifferenceSlice(c, p, q, chats)
        PROVE  Tells
    <3>1. \/ HandleState(c, p, q) \/ DifferenceTooLong(c, p)
          \/ \E u \in Carriable : DifferenceBody(c, p, q, u, chats)
      BY <2>1, <2>3 DEF DifferenceFinal, DifferenceSlice
    <3>. QED
      BY <3>1, CommonReplyTells
  <2>4. ASSUME NEW p \in Boundaries(c.seq), NEW chats,
               \/ ChannelEmpty(c) \/ ChannelTooLong(c, p, chats)
               \/ \E final \in BOOLEAN : ChannelDifference(c, p, final, chats)
        PROVE  Tells
    BY <2>4, ChannelReplyTells
  <2>5. HandleAffected(c) => Tells
    BY AffectedTells
  <2>. QED
    BY <1>3, <2>1, <2>2, <2>3, <2>4, <2>5 DEF Handle
<1>4. ASSUME NEW c \in calls, Fail(c) \/ MessageChanged(c)
      PROVE  Tells
  BY <1>4, QuietStep DEF Fail, StateUndecoded, DifferenceUndecoded,
     ChannelUndecoded, StateError, DifferenceError, DifferenceRejected,
     ChannelError, ChannelUnreachable, MessageChanged
<1>5. GapTimer \/ Connected \/ Authorized \/ Disconnected => Tells
  BY QuietStep DEF GapTimer, Connected, Authorized, Disconnected
<1>6. UNCHANGED vars => Tells
  BY QuietStep DEF vars
<1>. QED
  BY <1>1, <1>2, <1>3, <1>4, <1>5, <1>6 DEF Next

\* Nothing is shown that the server did not log.
LEMMA ShownStep ==
  ASSUME IInv, TypeOK', LogGrows, ShownIsLogged, [Next]_vars
  PROVE  ShownIsLogged'
<1>1. \A s \in Seqs : Logged(s) \in SUBSET Logged(s)'
  BY DEF LogGrows, Logged
<1>2. Restart => ShownIsLogged'
  BY DEF Restart, ShownIsLogged
<1>3. Tells => ShownIsLogged'
  BY <1>1 DEF Tells, ShownIsLogged
<1>. QED
  BY <1>2, <1>3, TellsShape

-----------------------------------------------------------------------------
(***************************************************************************)
(* Where the three silent faults do not occur.                             *)
(***************************************************************************)
\* A step that starts nothing: a state is asked for only while it is unknown.
Steady ==
  /\ valid' = valid /\ floor'[Common] = floor[Common]
  /\ stateReq' # NoReq => stateReq # NoReq \/ ~valid

\* A step that gives the models their start, or a new one.
Started == valid' /\ floor'[Common] # 0 /\ stateReq' = NoReq

\* requestDifference() asks for a state only when there is none.
LEMMA DifferenceSteady ==
  ASSUME NEW cs, RequestDifference(valid, pts[Common], stateReq, diffReq, cs)
  PROVE  stateReq' # NoReq => stateReq # NoReq \/ ~valid
BY DEF RequestDifference

\* Only a channel is entered by an update.
LEMMA EmitOneSteady ==
  ASSUME TypeOK, NEW s \in Seqs, NEW p, NEW n, EmitOne(s, p, n)
  PROVE  floor'[Common] = floor[Common]
<1>1. Common \in Seqs /\ floor \in [Seqs -> Nat]
  BY DEF Seqs, TypeOK
<1>2. CASE pts[s] = 0 /\ s # Common
  <2>1. floor' = Raise(floor, s, p - n)
    BY <1>2 DEF EmitOne, Adopt
  <2>. QED
    BY <1>1, <1>2, <2>1, RaisedAlone
<1>3. CASE ~(pts[s] = 0 /\ s # Common)
  BY <1>3 DEF EmitOne
<1>. QED
  BY <1>2, <1>3

\* Pushes, the loops, the timer and the connection start nothing.
LEMMA LocalSteady ==
  ASSUME TypeOK,
         \/ Serve \/ Receive \/ Loop \/ GapTimer \/ Connected \/ Authorized
         \/ Disconnected \/ UNCHANGED vars
  PROVE  Steady
<1>. USE DEF position, requests, history
<1>1. Serve => Steady
  BY DEF Serve, Produce, RequestChange, Steady
<1>2. Receive => Steady
  BY DifferenceSteady DEF Receive, ReceiveUpdate, ReceiveContainer,
     ReceiveTooLong, ReceiveChannelTooLong, Steady
<1>3. ASSUME NEW u, ApplyNext(u)
      PROVE  Steady
  <2>1. u \in Update
    <3>1. todo \in Seq(Update) /\ todo # <<>> /\ u = Head(todo)
      BY <1>3 DEF ApplyNext, Applying, TypeOK
    <3>. QED
      BY <3>1
  <2>2. u.seq \in Seqs /\ EmitOne(u.seq, u.pts, u.count)
    BY <1>3, <2>1 DEF ApplyNext, Update
  <2>. QED
    BY <1>3, <2>2, EmitOneSteady DEF ApplyNext, Steady
<1>4. ASSUME NEW s \in Seqs, NEW i, DrainApply(s, i)
      PROVE  Steady
  <2>1. EmitOne(s, pending[s][i].pts, pending[s][i].count)
    BY <1>4 DEF DrainApply
  <2>. QED
    BY <1>4, <2>1, EmitOneSteady DEF DrainApply, Steady
<1>5. ASSUME NEW u, HoldUnseeded(u) \/ DropDuplicate(u) \/ ParkGap(u)
      PROVE  Steady
  BY <1>5, DifferenceSteady DEF HoldUnseeded, DropDuplicate, ParkGap, Steady
<1>6. ASSUME NEW s, NEW i, DrainDrop(s, i)
      PROVE  Steady
  BY <1>6 DEF DrainDrop, Steady
<1>7. DrainDone \/ PumpSend \/ PumpSkip \/ PumpDone \/ NextSlice => Steady
  BY DifferenceSteady DEF DrainDone, PumpSend, PumpSkip, PumpDone, NextSlice,
     Steady
<1>8. GapTimer \/ Connected \/ Authorized => Steady
  BY DifferenceSteady DEF GapTimer, Connected, Authorized, Steady
<1>9. Disconnected \/ UNCHANGED vars => Steady
  BY DEF Disconnected, vars, Steady
<1>. QED
  BY <1>1, <1>2, <1>3, <1>4, <1>5, <1>6, <1>7, <1>8, <1>9 DEF Loop

\* A reply starts the models, tells them to start again, or changes nothing.
LEMMA ReplySteady ==
  ASSUME TypeOK, TypeOK', LogConsistent, ChangesGenuine, Seeded, Known, ~MaySkip,
         NEW c \in calls, Handle(c)
  PROVE  Steady \/ Started
<1>. USE DEF position, requests, history
<1>1. Common \in Seqs /\ Common \notin Channels /\ floor \in [Seqs -> Nat]
      /\ c.id \in Ids /\ c.id # NoReq
  <2>1. c.id \in Ids
    BY DEF TypeOK, Call
  <2>. QED
    BY <2>1, CommonIsNoChannel, ConstantsAssumption DEF Seqs, TypeOK
<1>2. "carried" \notin Faults
  BY DEF MaySkip, Silent
<1>3. ASSUME NEW p \in Boundaries(Common)
      PROVE  p \in Nat /\ p > 0 /\ Raise(floor, Common, p)[Common] >= p
             /\ Raise(floor, Common, p)[Common] \in Nat
  <2>1. p \in Nat /\ p > 0
    BY <1>1, BoundaryBound
  <2>. QED
    BY <1>1, <2>1, LargerFact DEF Raise
<1>4. ASSUME NEW p \in Boundaries(Common), NEW q, HandleState(c, p, q)
      PROVE  Started
  <2>1. floor[Common] = 0
    BY <1>1, <1>4 DEF HandleState, Known
  <2>2. floor' = Raise(floor, Common, p)
    BY <1>4, <2>1 DEF HandleState, Adopt
  <2>. QED
    BY <1>3, <1>4, <2>2 DEF HandleState, Started
<1>5. ASSUME c.id = diffReq
      PROVE  valid /\ stateReq = NoReq /\ floor[Common] # 0
  BY <1>1, <1>5 DEF Seeded, Known
<1>6. ASSUME NEW p \in Boundaries(Common), DifferenceTooLong(c, p)
      PROVE  Started
  <2>1. c.id = diffReq /\ stateReq' = stateReq /\ valid'
        /\ floor' = Raise(floor, Common, p)
    BY <1>6 DEF DifferenceTooLong, Adopt
  <2>. QED
    BY <1>3, <1>5, <2>1 DEF Started
<1>7. ASSUME NEW p, NEW q, NEW u \in Carriable, NEW chats,
             DifferenceBody(c, p, q, u, chats)
      PROVE  Started
  <2>1. u = NoCarry
    BY <1>2 DEF Carriable
  <2>2. /\ c.id = diffReq /\ stateReq' = stateReq /\ valid'
        /\ CarriedHistory(u, Enumerated(Common, c.from, p))
    BY <1>7 DEF DifferenceBody
  <2>3. floor' = floor
    BY <2>1, <2>2 DEF CarriedHistory, NoCarry
  <2>. QED
    BY <1>5, <2>2, <2>3 DEF Started
<1>8. ASSUME NEW p, NEW chats, ChannelTooLong(c, p, chats)
      PROVE  Steady
  <2>1. c.seq \in Channels /\ c.seq \in Seqs
    BY <1>8 DEF ChannelTooLong, ChannelReply, TypeOK, Seqs
  <2>2. floor' = Raise(floor, c.seq, p) /\ UNCHANGED <<valid, stateReq>>
    BY <1>8 DEF ChannelTooLong, ChannelDone, Adopt
  <2>. QED
    BY <1>1, <2>1, <2>2, RaisedAlone DEF Steady
<1>9. ASSUME NEW p, NEW chats, NEW final,
             ChannelEmpty(c) \/ ChannelDifference(c, p, final, chats)
      PROVE  Steady
  BY <1>9 DEF ChannelEmpty, ChannelDifference, ChannelDone, Steady
<1>10. ASSUME NEW q, StaleReply(c) \/ DifferenceEmpty(c, q)
       PROVE  Steady
  BY <1>10 DEF StaleReply, DifferenceEmpty, Steady
<1>11. ASSUME HandleAffected(c)
       PROVE  Steady
  <2>1. PICK a : a = CHOOSE x \in affected : x.id = c.id
    OBVIOUS
  <2>2. a \in affected /\ a.seq \in Seqs
    <3>1. a \in affected
      BY <1>11, <2>1 DEF HandleAffected
    <3>. QED
      BY <3>1 DEF TypeOK
  <2>3. CASE Check(pts[a.seq], c.lo, c.lo - c.from) = "apply"
    <3>1. /\ valid' = valid /\ stateReq' = stateReq
          /\ floor' = (IF pts[a.seq] = 0 /\ a.seq # Common
                       THEN Raise(floor, a.seq, c.from) ELSE floor)
      BY <1>11, <2>1, <2>3 DEF HandleAffected, Adopt
    <3>. QED
      BY <1>1, <2>2, <3>1, RaisedAlone DEF Steady
  <2>4. CASE Check(pts[a.seq], c.lo, c.lo - c.from) # "apply"
    <3>1. /\ valid' = valid /\ floor' = floor
          /\ \/ stateReq' = stateReq
             \/ RequestDifference(valid, pts[Common], stateReq, diffReq,
                                  calls \ {c})
      BY <1>11, <2>1, <2>4 DEF HandleAffected
    <3>. QED
      BY <3>1, DifferenceSteady DEF Steady
  <2>. QED
    BY <2>3, <2>4
<1>12. NoCarry \in Carriable
  BY DEF Carriable
<1>. QED
  BY <1>4, <1>6, <1>7, <1>8, <1>9, <1>10, <1>11, <1>12
     DEF Handle, DifferenceFinal, DifferenceSlice

\* Errors and renames start nothing; two of the errors do not occur.
LEMMA FailSteady ==
  ASSUME TypeOK, ~MaySkip, NEW c \in calls, Fail(c) \/ MessageChanged(c)
  PROVE  Steady
<1>1. "timestamp" \notin Faults /\ "decode" \notin Faults
  BY DEF MaySkip, Silent
<1>2. CASE MessageChanged(c)
  <2>1. c.id \in Ids /\ c.id # NoReq
    BY ConstantsAssumption DEF TypeOK, Call
  <2>. QED
    BY <1>2, <2>1 DEF MessageChanged, Steady, position, history
<1>3. CASE Fail(c)
  BY <1>1, <1>3 DEF Fail, StateUndecoded, DifferenceUndecoded, ChannelUndecoded,
     StateError, DifferenceError, DifferenceRejected, ChannelError,
     ChannelUnreachable, Steady, position, history
<1>. QED
  BY <1>2, <1>3

\* So the models have a start exactly as long as there is a position.
LEMMA KnownStep ==
  ASSUME IInv, TypeOK', ShownIsLogged, Known, ~MaySkip, [Next]_vars
  PROVE  Known'
<1>. USE DEF IInv, Ground
<1>1. CASE Restart
  BY <1>1 DEF Restart, Known
<1>2. CASE ~Restart
  <2>1. Steady \/ Started
    BY <1>2, LocalSteady, ReplySteady, FailSteady DEF Next
  <2>2. (valid' <=> floor'[Common] # 0) /\ (stateReq' # NoReq => ~valid')
    BY <2>1 DEF Steady, Started, Known
  <2>3. lapse' = lapse
    <3>1. \A s \in Seqs : Told(s)
      BY <1>2, TellsShape DEF Tells
    <3>2. "carried" \notin Faults
      BY DEF MaySkip, Silent
    <3>3. \A s \in Seqs : lapse'[s] = lapse[s]
      BY <3>1, <3>2 DEF Told, Known
    <3>. QED
      BY <3>3 DEF TypeOK
  <2>. QED
    BY <2>2, <2>3 DEF Known
<1>. QED
  BY <1>1, <1>2

-----------------------------------------------------------------------------
(***************************************************************************)
(* The refinement.                                                         *)
(***************************************************************************)
FInv == IInv /\ ShownIsLogged /\ (MaySkip \/ Known)

\* The ini is the start the models know of.
LEMMA FInvInit ==
  ASSUME Init
  PROVE  FInv /\ Feed!Init
<1>1. IInv /\ TypeOK
  BY IInvInit DEF IInv, Ground
<1>2. saved.pts \in [Seqs -> Nat] /\ Common \in Seqs
  BY <1>1 DEF TypeOK, Seqs
<1>3. ShownIsLogged
  BY DEF Init, ShownIsLogged
<1>4. Known
  BY DEF Init, Known
<1>5. [s \in Seqs |-> At(s)] = saved.pts
  BY <1>2 DEF Init, At
<1>6. Feed!Init
  BY <1>2, <1>5 DEF Init, NoPosition, Feed!Init
<1>. QED
  BY <1>1, <1>3, <1>4, <1>6 DEF FInv

\* Every step keeps the invariant.
LEMMA FInvStep ==
  ASSUME FInv, [Next]_vars
  PROVE  FInv'
<1>1. IInv'
  BY IInvStep DEF FInv
<1>2. TypeOK' /\ LogGrows
  BY <1>1, LogStep DEF FInv, IInv, Ground
<1>3. ShownIsLogged'
  BY <1>2, ShownStep DEF FInv
<1>4. MaySkip' \/ Known'
  BY <1>2, KnownStep DEF FInv, MaySkip
<1>. QED
  BY <1>1, <1>3, <1>4 DEF FInv

\* Wherever a position is claimed after a step, it is complete.
LEMMA CompleteAt ==
  ASSUME TypeOK', Continuity', NEW s \in Seqs
  PROVE  Feed!Complete(s)'
<1>1. SUFFICES ASSUME NEW e \in log'[s], floor'[s] < e.pts, lapse'[s] < e.pts,
                      e.pts <= At(s)'
               PROVE  e.pts \in seen'[s]
  BY DEF Feed!Complete
<1>2. e.pts \in Nat /\ floor'[s] \in Nat /\ lapse'[s] \in Nat
  <2>1. e \in Event
    BY DEF TypeOK
  <2>. QED
    BY <2>1 DEF TypeOK, Event
<1>3. Larger(floor'[s], lapse'[s]) < e.pts
  BY <1>1, <1>2 DEF Larger
<1>4. (s = Common => valid') /\ At(s)' = pts'[s]
  BY <1>1, <1>2 DEF At
<1>5. CoveredNext(s, pts'[s])
  BY <1>4, CommonIsNoChannel DEF Continuity, Covered, Owed, CoveredNext, Seqs
<1>. QED
  BY <1>1, <1>3, <1>4, <1>5 DEF CoveredNext

\* The server's steps publish.
LEMMA PublishStep ==
  ASSUME FInv, TypeOK', LogGrows, Serve
  PROVE  Feed!Publish
<1>1. /\ UNCHANGED <<seen, floor, lapse, valid, pts, saved>>
  BY DEF Serve, Produce, RequestChange, position, history
<1>2. ASSUME NEW s \in Seqs
      PROVE  /\ Logged(s) \in SUBSET Logged(s)'
             /\ \A p \in Logged(s)' \ Logged(s) : p > At(s) /\ p > saved.pts[s]
  <2>1. /\ pts[s] <= srv[s] /\ saved.pts[s] <= srv[s]
        /\ pts[s] \in Nat /\ saved.pts[s] \in Nat /\ srv[s] \in Nat
    BY DEF FInv, IInv, Ground, Bounded, NeverAhead, TypeOK
  <2>2. /\ log[s] \in SUBSET log'[s]
        /\ \A e \in log'[s] \ log[s] : e.pts > srv[s]
    BY DEF LogGrows
  <2>3. ASSUME NEW e \in log'[s], e.pts \notin Logged(s)
        PROVE  e.pts > At(s) /\ e.pts > saved.pts[s]
    <3>1. e.pts > srv[s]
      BY <2>2, <2>3 DEF Logged
    <3>2. e.pts \in Nat
      <4>1. e \in Event
        BY DEF TypeOK
      <4>. QED
        BY <4>1 DEF Event
    <3>. QED
      BY <2>1, <3>1, <3>2 DEF At
  <2>. QED
    BY <2>2, <2>3 DEF Logged
<1>3. [s \in Seqs |-> At(s)]' = [s \in Seqs |-> At(s)]
  BY <1>1 DEF At
<1>. QED
  BY <1>1, <1>2, <1>3 DEF Feed!Publish, Logged

\* A new process starts from the ini.
LEMMA CrashStep ==
  ASSUME FInv, Restart
  PROVE  Feed!Crash
<1>1. saved.pts \in [Seqs -> Nat] /\ Common \in Seqs
  BY DEF FInv, IInv, Ground, TypeOK, Seqs
<1>2. /\ pts' = saved.pts /\ floor' = saved.pts /\ saved' = saved
      /\ valid' = (saved.pts[Common] # 0) /\ log' = log
      /\ seen' = [s \in Seqs |-> {}] /\ lapse' = NoPosition
  BY DEF Restart, server
<1>3. [s \in Seqs |-> At(s)]' = saved.pts
  BY <1>1, <1>2 DEF At
<1>. QED
  BY <1>2, <1>3 DEF Feed!Crash, NoPosition

\* Everything else advances.
LEMMA AdvanceStep ==
  ASSUME FInv, FInv', Tells, Moves, UNCHANGED server
  PROVE  Feed!Advance
<1>1. TypeOK /\ TypeOK' /\ Continuity' /\ HistoryGrows /\ log' = log
  BY DEF FInv, IInv, Ground, Moves, server
<1>2. ASSUME NEW s \in Seqs
      PROVE  /\ seen[s] \in SUBSET seen'[s] /\ seen'[s] \in SUBSET Logged(s)
             /\ Feed!Complete(s)'
  BY <1>1, CompleteAt DEF HistoryGrows, Tells
<1>3. ASSUME NEW s \in Seqs
      PROVE  Feed!Same(s) \/ Feed!Enter(s) \/ Feed!Reload(s) \/ Feed!Skip(s)
  <2>1. /\ floor[s] <= floor'[s] /\ lapse[s] <= lapse'[s]
        /\ floor[s] \in Nat /\ floor'[s] \in Nat /\ pts'[s] \in Nat
        /\ lapse[s] \in Nat /\ lapse'[s] \in Nat
    BY <1>1 DEF HistoryGrows, TypeOK
  <2>2. Told(s)
    BY DEF Tells
  <2>3. CASE floor'[s] = floor[s] /\ lapse'[s] = lapse[s]
    BY <2>3 DEF Feed!Same
  <2>4. CASE s # Common /\ pts[s] = 0 /\ lapse'[s] = lapse[s]
    BY <2>1, <2>4 DEF Feed!Enter, At
  <2>5. CASE floor'[s] >= pts'[s] /\ lapse'[s] = lapse[s]
    <3>1. At(s)' <= floor'[s]
      BY <2>1, <2>5 DEF At
    <3>. QED
      BY <2>1, <2>5, <3>1 DEF Feed!Reload
  <2>6. CASE "carried" \in Faults /\ floor'[s] = floor[s]
    <3>1. Faults \cap Silent # {}
      BY <2>6 DEF Silent
    <3>. QED
      BY <2>1, <2>6, <3>1 DEF Feed!Skip
  <2>7. CASE /\ s = Common /\ floor[s] # 0 /\ stateReq # NoReq
             /\ floor'[s] = floor[s]
    <3>1. Faults \cap Silent # {}
      BY <2>7 DEF FInv, Known, MaySkip
    <3>. QED
      BY <2>1, <2>7, <3>1 DEF Feed!Skip
  <2>. QED
    BY <2>2, <2>3, <2>4, <2>5, <2>6, <2>7 DEF Told
<1>4. saved'.pts \in {saved.pts, [s \in Seqs |-> At(s)]'}
  <2>1. CASE saved' = saved
    BY <2>1
  <2>2. CASE valid' /\ saved' = [pts |-> pts', seq |-> seq']
    <3>1. pts' \in [Seqs -> Nat] /\ saved'.pts = pts'
      BY <1>1, <2>2 DEF TypeOK
    <3>2. [s \in Seqs |-> At(s)]' = pts'
      BY <2>2, <3>1 DEF At
    <3>. QED
      BY <3>1, <3>2
  <2>. QED
    BY <2>1, <2>2 DEF Moves
<1>. QED
  BY <1>1, <1>2, <1>3, <1>4 DEF Feed!Advance, Logged

\* Every step of the pipeline is one of the feed or leaves it alone.
LEMMA FeedStep ==
  ASSUME FInv, [Next]_vars
  PROVE  [Feed!Next]_Feed!vars
<1>1. FInv' /\ TypeOK' /\ LogGrows
  BY FInvStep, LogStep DEF FInv, IInv, Ground
<1>2. CASE Serve
  BY <1>1, <1>2, PublishStep DEF Feed!Next
<1>3. CASE Restart
  BY <1>3, CrashStep DEF Feed!Next
<1>4. CASE ~Serve /\ ~Restart
  <2>1. UNCHANGED server
    BY <1>4, ServerShape DEF Serve
  <2>2. Tells /\ Moves
    BY <1>1, <1>4, TellsShape, MovesShape DEF FInv
  <2>. QED
    BY <1>1, <2>1, <2>2, AdvanceStep DEF Feed!Next
<1>. QED
  BY <1>2, <1>3, <1>4

(***************************************************************************)
(* The update pipeline implements the feed: whatever is pushed, answered,  *)
(* lost, renamed or restarted, the positions of TgUpdatesState move, are   *)
(* dropped, written by save() and announced by updatesReset() and          *)
(* channelReset() only as the models may rely on.                          *)
(***************************************************************************)
THEOREM FeedHolds == Spec => FeedIsImplemented
<1>1. Init => FInv /\ Feed!Init
  BY FInvInit
<1>2. FInv /\ [Next]_vars => FInv' /\ [Feed!Next]_Feed!vars
  BY FInvStep, FeedStep
<1>. QED
  BY <1>1, <1>2, PTL DEF Spec, FeedIsImplemented, Feed!Spec

(***************************************************************************)
(* Where no difference carries a channel's update, none is undecodable and *)
(* no position is rejected, the strict promise holds: applyOne(),          *)
(* drainPending(), the differences and handleState() skip nothing that the *)
(* models were not told to reload.                                         *)
(***************************************************************************)
THEOREM NothingSkippedHolds ==
  ASSUME Faults \cap Silent = {}
  PROVE  Spec => []NothingSkippedSilently
<1>1. ASSUME FInv
      PROVE  NothingSkippedSilently
  <2>1. Continuity /\ TypeOK /\ lapse = NoPosition
    BY <1>1 DEF FInv, IInv, Ground, MaySkip, Known
  <2>2. ASSUME NEW s \in Seqs
        PROVE  Owed(s) = floor[s]
    <3>1. lapse[s] = 0 /\ floor[s] \in Nat
      BY <2>1 DEF NoPosition, TypeOK
    <3>. QED
      BY <3>1 DEF Owed, Larger
  <2>. QED
    BY <2>1, <2>2 DEF Continuity, NothingSkippedSilently, Seqs
<1>2. Init => FInv
  BY FInvInit
<1>3. FInv /\ [Next]_vars => FInv'
  BY FInvStep
<1>. QED
  BY <1>1, <1>2, <1>3, PTL DEF Spec
=============================================================================
