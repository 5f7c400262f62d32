------------------------- MODULE UpdatesProperties -------------------------
(***************************************************************************)
(* What the update pipeline promises.                                      *)
(***************************************************************************)
EXTENDS Updates

\* The types of all variables of the pipeline, its server and its network.
TypeOK ==
  /\ srv \in [Seqs -> Nat] /\ log \in [Seqs -> SUBSET Event]
  /\ box \in Seq(Seq(Update))
  /\ link \in {"down", "up", "auth"} /\ calls \in SUBSET Call
  /\ valid \in BOOLEAN /\ pts \in [Seqs -> Nat] /\ seq \in Nat
  /\ stateReq \in Ids \cup {NoReq} /\ diffReq \in Ids \cup {NoReq}
  /\ chanReq \in SUBSET [id : Ids, ch : Channels]
  /\ affected \in SUBSET [id : Ids, seq : Seqs]
  /\ queue \in Seq(Channels) /\ hash \in SUBSET Channels
  /\ pending \in [Seqs -> Seq(Item)] /\ timer \in BOOLEAN
  /\ saved \in [pts : [Seqs -> Nat], seq : Nat]
  /\ pc \in {"loop", "drain", "pump", "slice"} /\ todo \in Seq(Update)
  /\ after \in {"loop", "pump", "slice"}
  /\ seen \in [Seqs -> SUBSET Nat]
  /\ floor \in [Seqs -> Nat] /\ lapse \in [Seqs -> Nat]

\* Every update of s after position a, up to position p, was dispatched.
Covered(s, a, p) ==
  \A e \in log[s] : a < e.pts /\ e.pts <= p => e.pts \in seen[s]

Owed(s) == Larger(floor[s], lapse[s])

(***************************************************************************)
(* Continuity.  A position is a claim to have dispatched everything up to  *)
(* it: whatever was lost, repeated or reordered, no update lies unseen     *)
(* between the position the models started from (or the last position the  *)
(* pipeline adopted without asking, see lapse) and the one it is at.       *)
(***************************************************************************)
Continuity ==
  /\ \A c \in Channels : Covered(c, Owed(c), pts[c])
  /\ valid => Covered(Common, Owed(Common), pts[Common])

(***************************************************************************)
(* What reaches the ini is never ahead of what was dispatched, so a crash  *)
(* at any moment costs a difference and not an update.                     *)
(***************************************************************************)
SavedIsDelivered == \A s \in Seqs : Covered(s, Owed(s), saved.pts[s])

(***************************************************************************)
(* The strict promise: the models are owed every update since the start    *)
(* unless a reset told them to reload.  Nothing is adopted silently.       *)
(***************************************************************************)
NothingSkippedSilently ==
  /\ \A c \in Channels : Covered(c, floor[c], pts[c])
  /\ valid => Covered(Common, floor[Common], pts[Common])

(***************************************************************************)
(* The pipeline implements the feed: the refinement mapping.  Without an   *)
(* update carried in a difference, a rejected position or an undecodable   *)
(* difference nothing may be skipped.                                      *)
(***************************************************************************)
Silent == {"carried", "timestamp", "decode"}

At(s) == IF s = Common /\ ~valid THEN 0 ELSE pts[s]

Feed == INSTANCE Feed WITH
          MaySkip <- Faults \cap Silent # {},
          published <- [s \in Seqs |-> {e.pts : e \in log[s]}],
          shown <- seen, told <- floor, skipped <- lapse,
          at <- [s \in Seqs |-> At(s)], stored <- saved.pts

(***************************************************************************)
(* Every behaviour of the pipeline is one the feed allows: over any        *)
(* interleaving of pushes, replies, losses and restarts, positions move,   *)
(* are dropped, saved and announced to the models in no other way.         *)
(***************************************************************************)
FeedIsImplemented == Feed!Spec

\* No position is ahead of the server's: a later push would be taken for a
\* duplicate and lost.
NeverAhead ==
  /\ \A s \in Seqs : pts[s] <= srv[s] /\ saved.pts[s] <= srv[s]
  /\ seq <= Len(box)

(***************************************************************************)
(* Between handlers every parked update waits for a missing one: none is   *)
(* applicable, none is a duplicate.  Every path that moves a position has  *)
(* drained the queue.                                                      *)
(***************************************************************************)
ParkedMeansGap == Idle /\ valid => \A s \in Seqs : Ready(s) = {}

\* A parked update is always under the timer that will expire it, and the
\* queue never outgrows its limit.
ParkedIsTimed ==
  (pending # NothingHeld => timer) /\ Cardinality(Held) <= MaxPending

(***************************************************************************)
(* Channel polls: at most MaxChannelPolls at a time, one per channel, and  *)
(* a channel waits once and not while it is polled.                        *)
(***************************************************************************)
PollDiscipline ==
  /\ Cardinality(chanReq) <= MaxChannelPolls
  /\ \A r, t \in chanReq : r.ch = t.ch => r = t
  /\ \A i, j \in DOMAIN queue : queue[i] = queue[j] => i = j
  /\ InFlight \cap Queued = {}

\* Every slot of the cap is held by a request whose answer can still come:
\* a slot held by anything else is leaked for good.
SlotsAreAnswerable ==
  \A r \in chanReq : \E c \in calls : c.id = r.id /\ c.kind = "chan"

\* While connected, a request id that is reserved belongs to a request the
\* server has; "their ids must not stay reserved".
NoOrphanRequest ==
  link = "auth" => \A i \in {stateReq, diffReq} \ {NoReq} : \E c \in calls : c.id = i

(***************************************************************************)
(* A difference that reached the server is followed through, slice after   *)
(* slice, to the position the server had when it was asked.                *)
(***************************************************************************)
DifferenceCatchesUp ==
  \A p \in Base + 1 .. MaxPts[Common] :
    (\E c \in calls : c.kind = "diff" /\ c.id = diffReq /\ c.lo >= p)
      ~> (pts[Common] >= p \/ link = "down")

\* The same for a channel: a part that is not the last is followed by the next
\* poll, through the queue.
ChannelCatchesUp ==
  \A ch \in Channels : \A p \in Base + 1 .. MaxPts[ch] :
    (\E c \in calls : [id |-> c.id, ch |-> ch] \in chanReq /\ c.lo >= p)
      ~> (pts[ch] >= p \/ link = "down")

\* A gap that never closes does not pin updates in memory.
ParkedIsReleased == (pending # NothingHeld) ~> (pending = NothingHeld)
=============================================================================
