--------------------------- MODULE RequestsProofs ---------------------------
(***************************************************************************)
(* Safety of the message bookkeeping of TgTransport, for every set of      *)
(* requests and of proofs, every size of the ring and every bound.         *)
(*                                                                         *)
(* The inductive invariant.  A request is a token that is in one place: on *)
(* its way to the server, in a refusal the client has not heard, or in one *)
(* of the two hashes that hold requests for a retry; once it was carried   *)
(* out it is in none.  That no handler copies the token rests on the ids   *)
(* and on pendingMessages: the server says one thing about an id, and a    *)
(* refusal takes the request from there, so a refusal that comes again     *)
(* finds nothing to put into a hash or to send.  That it does not displace *)
(* what the hash holds, either, rests on the ring (HeldAnswered, Heard):   *)
(* it remembers what was heard for as long as it may come again, but for   *)
(* what came inside a container.                                           *)
(***************************************************************************)
EXTENDS Requests, FiniteSetTheorems, TLAPS

Says4 == {"result", "flood", "bad", "migrate"}
Answers == [sid : 1 .. sent, kind : Says4, id : 1 .. last, req : Packets]

Typed ==
  /\ RequestsTypeOK
  /\ out \subseteq Answers
  /\ sent \in Nat /\ checks \in Nat /\ faults \in Nat
  /\ executed \in [Reqs -> Nat]
  /\ recent = seen

\* The ring has it, or it came inside a container.
Heard(s) == s.sid \in Elements(seen) \cup inside

\* The server says one thing about an id, under a number of its own.
OneAnswer ==
  /\ \A m, n \in net : m.id = n.id => m = n
  /\ \A s, t \in out : s.id = t.id \/ s.sid = t.sid => s = t
  /\ \A m \in net, s \in out : m.id # s.id

\* An id is in one of the hashes.
Apart ==
  /\ DOMAIN pending \cap DOMAIN flood = {}
  /\ DOMAIN pending \cap DOMAIN migration = {}
  /\ DOMAIN flood \cap DOMAIN migration = {}

\* What is held for a retry was refused, and the refusal was heard.  That of a
\* migration does not come again.
HeldAnswered ==
  /\ \A i \in DOMAIN flood :
       /\ \A m \in net : m.id # i
       /\ \A s \in out : s.id = i => s.kind = "flood" /\ (flood[i] # None => Heard(s))
  /\ \A i \in DOMAIN migration :
       /\ \A m \in net : m.id # i
       /\ \A s \in out : s.id # i

\* pendingMessages has the request that was sent under the id.
Known ==
  /\ \A m \in net : m.id \in DOMAIN pending => pending[m.id] = m.req
  /\ \A s \in out : s.id \in DOMAIN pending => pending[s.id] = s.req

\* Whoever follows changes of id waits for the id a hash has the request under.
Follows(h, aw, ac, n) ==
  \A i \in DOMAIN h :
    /\ h[i] \in Reqs \ Proofs => aw[h[i]] = i
    /\ h[i] = Check(n) => ac = i

Followed ==
  /\ Follows(pending, awaits, authCheck, checks)
  /\ Follows(flood, awaits, authCheck, checks)
  /\ Follows(migration, awaits, authCheck, checks)

\* A proof that is pending under its first id is registered.
Registered ==
  \A i \in DOMAIN pending :
    pending[i] \in Proofs /\ i = awaits[pending[i]] => i \in noReplay

\* Where a request that was not carried out yet may be.
Token(r, i) ==
  \/ \E m \in net : m.id = i /\ m.req = r
  \/ \E s \in out : s.id = i /\ s.req = r /\ s.kind # "result" /\ i \in DOMAIN pending
  \/ i \in DOMAIN flood /\ flood[i] = r
  \/ i \in DOMAIN migration /\ migration[i] = r

Once ==
  \A r \in Reqs :
    /\ \A i, j \in 1 .. last : Token(r, i) /\ Token(r, j) => i = j
    /\ \A i \in 1 .. last : Token(r, i) => executed[r] = 0 /\ awaits[r] # 0
    /\ awaits[r] = 0 => executed[r] = 0

\* A refused request is held, or was displaced.
Owed == \A r \in owes : Held(r) \/ r \in displaced

Wire == OneAnswer /\ Apart /\ HeldAnswered /\ Known

RInv ==
  /\ Typed /\ Wire /\ Followed /\ RepliesFindTheirIssuer
  /\ Registered /\ ProofHeldOnlyRenamed
  /\ Once /\ AtMostOnce /\ Owed

-----------------------------------------------------------------------------
(***************************************************************************)
(* The hashes.                                                             *)
(***************************************************************************)
\* remove(), and value() of an absent key.
LEMMA DelFact ==
  ASSUME NEW h, NEW i
  PROVE  /\ DOMAIN Del(h, i) = DOMAIN h \ {i}
         /\ \A j \in DOMAIN Del(h, i) : Del(h, i)[j] = h[j]
         /\ At(h, i) = IF i \in DOMAIN h THEN h[i] ELSE None
BY DEF Del, At

\* An empty hash.
LEMMA EmptyFact == DOMAIN Empty = {}
BY DEF Empty

\* No packet of the transport's own is a request, and none is empty.
LEMMA PacketsApart ==
  /\ None \notin Reqs
  /\ \A n \in Nat : Check(n) \notin Reqs /\ Check(n) # None
  /\ \A m, n \in Nat : Check(m) = Check(n) => m = n
<1>1. \A n \in Nat : Check(n) \in [check : {CheckReq}, connection : Nat]
                     /\ Check(n).connection = n
  BY DEF Check
<1>. QED
  BY <1>1, RequestsAssumption

\* The types, one by one.
LEMMA TypedFacts ==
  ASSUME Typed
  PROVE  /\ last \in Nat /\ sent \in Nat /\ checks \in Nat
         /\ Hash(pending) /\ Hash(flood) /\ Hash(migration)
         /\ \A m \in net : m.id \in 1 .. last /\ m.req \in Packets
                           /\ m = [id |-> m.id, req |-> m.req]
         /\ \A s \in out : /\ s.sid \in 1 .. sent /\ s.kind \in Says4
                           /\ s.id \in 1 .. last /\ s.req \in Packets
         /\ seen \in Seq(1 .. sent) /\ recent = seen
         /\ awaits \in [Reqs -> 0 .. last] /\ authCheck \in 0 .. last
         /\ executed \in [Reqs -> Nat]
BY DEF Typed, RequestsTypeOK, Answers

-----------------------------------------------------------------------------
(***************************************************************************)
(* The ring.                                                               *)
(***************************************************************************)
\* What the ring pushes out is its oldest element.
LEMMA PushedFact ==
  ASSUME NEW S, NEW q \in Seq(S), Len(q) <= Ring, NEW x \in S
  PROVE  /\ Pushed(q, Ring, x) \in Seq(S) /\ Len(Pushed(q, Ring, x)) <= Ring
         /\ x \in Elements(Pushed(q, Ring, x))
<1>1. Ring \in Nat /\ Ring > 0
  BY RequestsAssumption
<1>2. Len(q) \in Nat
  OBVIOUS
<1>3. CASE Len(q) >= Ring
  <2>1. Len(q) = Ring /\ q # <<>>
    BY <1>1, <1>2, <1>3
  <2>2. Tail(q) \in Seq(S) /\ Len(Tail(q)) = Len(q) - 1
    BY <2>1
  <2>3. /\ Append(Tail(q), x) \in Seq(S) /\ Len(Append(Tail(q), x)) = Len(q)
        /\ Append(Tail(q), x)[Len(q)] = x /\ Len(q) \in DOMAIN Append(Tail(q), x)
    BY <1>1, <2>1, <2>2
  <2>. QED
    BY <1>3, <2>1, <2>3 DEF Pushed, Elements
<1>4. CASE ~(Len(q) >= Ring)
  <2>1. /\ Append(q, x) \in Seq(S) /\ Len(Append(q, x)) = Len(q) + 1
        /\ Append(q, x)[Len(q) + 1] = x /\ Len(q) + 1 \in DOMAIN Append(q, x)
    BY <1>2
  <2>. QED
    BY <1>1, <1>2, <1>4, <2>1 DEF Pushed, Elements
<1>. QED
  BY <1>3, <1>4

\* A message that may still come is heard for as long as it was.
Listens ==
  /\ out' \in SUBSET out /\ inside \subseteq inside'
  /\ \A t \in out' : t.sid \in Elements(seen) => t.sid \in Elements(seen')

\* A handler runs on a message that came inside a container, or was not heard,
\* and is remembered.
LEMMA AcceptListens ==
  ASSUME Typed, NEW s \in out, NEW kind, Accept(s, kind), out' = Deliverable \/ out' = {},
         inside \subseteq inside'
  PROVE  /\ Listens /\ s.kind = kind /\ link # "down"
         /\ seen' = seen \/ (s.sid \notin Elements(seen) /\ s.sid \in Elements(seen'))
         /\ seen' \in Seq(1 .. sent) /\ Len(seen') <= Ring /\ recent' = seen'
<1>1. /\ Alone(s) \/ InContainer
      /\ s.kind = kind /\ link # "down"
  BY DEF Accept
<1>2. recent = seen /\ seen \in Seq(1 .. sent) /\ Len(seen) <= Ring /\ s.sid \in 1 .. sent
  BY TypedFacts DEF Typed, RequestsTypeOK
<1>3. CASE Alone(s)
  <2>1. /\ seen' = Pushed(seen, Ring, s.sid) /\ recent' = seen' /\ s.sid \notin Elements(seen)
    BY <1>2, <1>3 DEF Alone, Remember
  <2>2. s.sid \in Elements(seen') /\ seen' \in Seq(1 .. sent) /\ Len(seen') <= Ring
    BY <1>2, <2>1, PushedFact
  <2>3. Listens
    <3>1. CASE out' = {}
      BY <3>1 DEF Listens
    <3>2. CASE out' = Deliverable
      <4>1. \A t \in out' : t \in out /\ t.sid \notin Elements(seen) \ Elements(seen')
        BY <1>2, <2>1, <3>2 DEF Deliverable
      <4>. QED
        BY <4>1 DEF Listens
    <3>. QED
      BY <3>1, <3>2
  <2>. QED
    BY <1>1, <2>1, <2>2, <2>3
<1>4. CASE InContainer
  <2>1. seen' = seen /\ recent' = recent /\ out' \in SUBSET out
    BY <1>4 DEF InContainer, Deliverable
  <2>. QED
    BY <1>1, <1>2, <2>1 DEF Listens
<1>. QED
  BY <1>1, <1>3, <1>4

-----------------------------------------------------------------------------
(***************************************************************************)
(* Sending again.                                                          *)
(***************************************************************************)
\* A renaming gives each request of a hash a fresh id of its own.
LEMMA RenamingFact ==
  ASSUME last \in Nat, NEW h, DOMAIN h \subseteq 1 .. last, NEW ids \in Renamings(h)
  PROVE  /\ DOMAIN ids = Sendable(h) /\ Cardinality(Sendable(h)) \in Nat
         /\ \A j \in Sendable(h) : ids[j] \in last + 1 .. last + Cardinality(Sendable(h))
         /\ \A i, j \in Sendable(h) : ids[i] = ids[j] => i = j
         /\ \A i \in DOMAIN Moved(h, ids) : \E j \in Sendable(h) : ids[j] = i
         /\ \A j \in Sendable(h) : /\ ids[j] \in DOMAIN Moved(h, ids)
                                   /\ Moved(h, ids)[ids[j]] = h[j]
<1>1. /\ DOMAIN ids = Sendable(h)
      /\ \A j \in Sendable(h) : ids[j] \in last + 1 .. last + Cardinality(Sendable(h))
      /\ \A i, j \in Sendable(h) : ids[i] = ids[j] => i = j
  BY DEF Renamings
<1>2. Cardinality(Sendable(h)) \in Nat
  <2>1. Sendable(h) \in SUBSET (1 .. last)
    BY DEF Sendable
  <2>2. IsFiniteSet(1 .. last)
    BY FS_Interval
  <2>. QED
    BY <2>1, <2>2, FS_Subset, FS_CardinalityType
<1>3. DOMAIN Moved(h, ids) = {ids[j] : j \in Sendable(h)}
  BY <1>1 DEF Moved
<1>4. ASSUME NEW j \in Sendable(h)
      PROVE  Moved(h, ids)[ids[j]] = h[j]
  <2>1. (CHOOSE k \in DOMAIN ids : ids[k] = ids[j]) = j
    BY <1>1
  <2>. QED
    BY <1>1, <1>3, <2>1 DEF Moved
<1>. QED
  BY <1>1, <1>2, <1>3, <1>4

\* What sendMTMessage() of the entries of h, under the ids, leaves.
Resent(h, kept, ids) ==
  /\ last' \in Nat /\ last <= last'
  /\ \A j \in Sendable(h) : ids[j] \in last + 1 .. last' /\ ids[j] \in DOMAIN pending'
                            /\ pending'[ids[j]] = h[j]
  /\ \A i, j \in Sendable(h) : ids[i] = ids[j] => i = j
  /\ DOMAIN ids = Sendable(h)
  /\ \A i \in DOMAIN pending' : \/ i \in DOMAIN kept /\ pending'[i] = kept[i]
                                \/ \E j \in Sendable(h) : ids[j] = i
  /\ \A m \in net' : m \in net \/ \E j \in Sendable(h) :
                                    m = [id |-> ids[j], req |-> h[j]]

\* sendMTMessage() on each entry does that.
LEMMA ResendFact ==
  ASSUME last \in Nat, NEW h, DOMAIN h \subseteq 1 .. last,
         NEW kept, DOMAIN kept \subseteq 1 .. last,
         NEW ids \in Renamings(h), Resend(h, kept, ids)
  PROVE  Resent(h, kept, ids) /\ BroadcastMessageChange(ids)
<1>1. /\ DOMAIN ids = Sendable(h) /\ Cardinality(Sendable(h)) \in Nat
      /\ \A j \in Sendable(h) : ids[j] \in last + 1 .. last + Cardinality(Sendable(h))
      /\ \A i, j \in Sendable(h) : ids[i] = ids[j] => i = j
      /\ \A i \in DOMAIN Moved(h, ids) : \E j \in Sendable(h) : ids[j] = i
      /\ \A j \in Sendable(h) : /\ ids[j] \in DOMAIN Moved(h, ids)
                                /\ Moved(h, ids)[ids[j]] = h[j]
  BY RenamingFact
<1>2. /\ pending' = Joined(kept, Moved(h, ids))
      /\ last' = last + Cardinality(Sendable(h))
      /\ net' = net \cup Written(Moved(h, ids))
      /\ BroadcastMessageChange(ids)
  BY <1>1 DEF Resend
<1>3. /\ DOMAIN pending' = DOMAIN kept \cup DOMAIN Moved(h, ids)
      /\ \A i \in DOMAIN Moved(h, ids) : pending'[i] = Moved(h, ids)[i]
      /\ \A i \in DOMAIN kept : i \notin DOMAIN Moved(h, ids) => pending'[i] = kept[i]
  BY <1>2 DEF Joined
<1>4. last' \in Nat /\ last <= last'
  BY <1>1, <1>2
<1>5. \A m \in net' : m \in net \/ \E i \in DOMAIN Moved(h, ids) :
                                     m = [id |-> i, req |-> Moved(h, ids)[i]]
  BY <1>2 DEF Written
<1>6. \A m \in net' : m \in net \/ \E j \in Sendable(h) : m = [id |-> ids[j], req |-> h[j]]
  BY <1>1, <1>5
<1>7. \A j \in Sendable(h) : ids[j] \in last + 1 .. last' /\ ids[j] \in DOMAIN pending'
                            /\ pending'[ids[j]] = h[j]
  BY <1>1, <1>2, <1>3
<1>8. \A i \in DOMAIN pending' : \/ i \in DOMAIN kept /\ pending'[i] = kept[i]
                                \/ \E j \in Sendable(h) : ids[j] = i
  BY <1>1, <1>3
<1>. QED
  BY <1>1, <1>2, <1>4, <1>6, <1>7, <1>8 DEF Resent

-----------------------------------------------------------------------------
(***************************************************************************)
(* What a step does, in one of seven shapes.                               *)
(***************************************************************************)
\* What every step leaves in order.
Orderly ==
  /\ link' \in {"down", "open", "up"} /\ user' \in BOOLEAN
  /\ last' \in Nat /\ last <= last' /\ checks' \in Nat /\ checks <= checks'
  /\ sent' \in Nat /\ faults' \in Nat
  /\ seen' \in Seq(1 .. sent') /\ Len(seen') <= Ring /\ recent' = seen'

\* Nothing that is still owed leaves its hash.
Owing ==
  /\ displaced \subseteq displaced'
  /\ \A r \in owes' :
       /\ r \in owes
       /\ \A i \in DOMAIN flood : flood[i] = r => i \in DOMAIN flood' /\ flood'[i] = r
       /\ \A i \in DOMAIN migration :
            migration[i] = r => i \in DOMAIN migration' /\ migration'[i] = r

\* The entries of h may be sent under other ids: nothing else has the old ones.
Free(h, kept) ==
  \A j \in Sendable(h) :
    /\ j \in 1 .. last /\ h[j] \in Packets
    /\ j \notin DOMAIN kept /\ j \notin DOMAIN flood' /\ j \notin DOMAIN migration'
    /\ \A m \in net : m.id # j
    /\ \A s \in out : s.kind = "result" => s.id # j
    /\ h[j] \in Reqs => Token(h[j], j)

\* bad_msg_notification, handleConfig(), the keepalive: the entries of h are
\* sent again under the ids.
Retries(h, kept, ids) ==
  /\ Resent(h, kept, ids) /\ BroadcastMessageChange(ids) /\ Free(h, kept)
  /\ Follows(h, awaits, authCheck, checks)
  /\ \A i \in DOMAIN kept : i \in DOMAIN pending /\ kept[i] = pending[i]
  /\ flood' \in {flood, Empty} /\ migration' \in {migration, Empty}
  /\ noReplay' = noReplay \/ (noReplay' = {} /\ DOMAIN kept = {})
  /\ Listens /\ Owing
  /\ executed' = executed /\ checks' = checks /\ sent' = sent

\* A new request, or a new authorization check.
Sends(r, id) ==
  /\ id = last + 1 /\ last' = id
  /\ pending' = Put(pending, id, r)
  /\ net' \subseteq net \cup {[id |-> id, req |-> r]}
  /\ \/ /\ r \in Reqs /\ awaits[r] = 0 /\ awaits' = [awaits EXCEPT ![r] = id]
        /\ authCheck' = authCheck /\ checks' = checks
        /\ DoNotReplay(r, id)
     \/ /\ r = Check(checks + 1) /\ checks' = checks + 1
        /\ authCheck' = id /\ awaits' = awaits /\ noReplay' = noReplay
  /\ flood' = flood /\ migration' = migration
  /\ Listens /\ Owing /\ executed' = executed /\ sent' = sent

\* What only the hashes and the ring remember.
Quiet ==
  /\ last' = last /\ awaits' = awaits /\ authCheck' = authCheck /\ checks' = checks

\* The server says something about m.
Serves(m, s) ==
  /\ m \in net /\ net' = net \ {m} /\ sent' = sent + 1
  /\ s = [sid |-> sent + 1, kind |-> s.kind, id |-> m.id, req |-> m.req]
  /\ s.kind \in Says4 /\ out' = out \cup {s}
  /\ executed' = IF s.kind = "result" /\ m.req \in Reqs
                 THEN [executed EXCEPT ![m.req] = @ + 1] ELSE executed
  /\ Quiet /\ Owing /\ seen' = seen /\ inside' = inside /\ noReplay' = noReplay
  /\ pending' = pending /\ flood' = flood /\ migration' = migration

\* An answer is taken, a message lost, the connection opened or closed.
Forgets ==
  /\ Quiet /\ Owing /\ Listens /\ executed' = executed /\ sent' = sent
  /\ \A i \in DOMAIN pending' : /\ i \in DOMAIN pending /\ pending'[i] = pending[i]
                                /\ i \in noReplay => i \in noReplay'
  /\ noReplay' \subseteq noReplay
  /\ flood' = flood /\ migration' = migration /\ net' \subseteq net

\* FLOOD_WAIT and MIGRATE: the request, if there is one, is held.
Holds(s) ==
  /\ s \in out /\ s.kind # "result" /\ s.id \notin DOMAIN flood
  /\ Quiet /\ Listens /\ executed' = executed /\ sent' = sent
  /\ pending' = Del(pending, s.id) /\ noReplay' = noReplay /\ net' \subseteq net
  /\ owes' \subseteq owes \cup {At(pending, s.id)} /\ displaced \subseteq displaced'
  /\ \/ /\ flood' = Put(flood, s.id, At(pending, s.id)) /\ migration' = migration
        /\ s.id \notin noReplay /\ s.kind = "flood"
        /\ At(pending, s.id) # None => Heard(s)'
     \/ /\ migration' = Put(migration, s.id, At(pending, s.id)) /\ flood' = flood
        /\ out' = {}

\* FLOOD_WAIT again: nothing is held from then on.
Erases(s) ==
  /\ s \in out /\ s.id \in DOMAIN flood
  /\ Quiet /\ Listens /\ executed' = executed /\ sent' = sent
  /\ \A i \in DOMAIN pending' : i \in DOMAIN pending /\ pending'[i] = pending[i]
  /\ noReplay' = noReplay /\ net' \subseteq net /\ migration' = migration
  /\ flood' = Put(flood, s.id, None)
  /\ owes' = owes /\ displaced \subseteq displaced'
  /\ flood[s.id] = None \/ flood[s.id] \in displaced'

Shapes ==
  \/ \E h, kept, ids : Retries(h, kept, ids)
  \/ \E r, id : Sends(r, id)
  \/ \E m, s : Serves(m, s)
  \/ Forgets
  \/ \E s : Holds(s)
  \/ \E s : Erases(s)

\* The types a hash of the client has.
LEMMA HashFact ==
  ASSUME NEW h, Hash(h)
  PROVE  /\ DOMAIN h \subseteq 1 .. last
         /\ \A i \in DOMAIN h : h[i] \in Packets \cup {None}
         /\ \A i \in Sendable(h) : i \in DOMAIN h /\ h[i] # None /\ h[i] \in Packets
         /\ \A i \in DOMAIN h : h[i] # None => i \in Sendable(h)
BY DEF Hash, Sendable

\* The requests held in a hash may be sent again.
LEMMA HeldIsFree ==
  ASSUME RInv, NEW kept, DOMAIN kept \subseteq DOMAIN pending, Listens,
         NEW h \in {flood, migration},
         \A i \in DOMAIN h : i \notin DOMAIN flood' /\ i \notin DOMAIN migration'
  PROVE  Free(h, kept)
<1>1. Hash(h) /\ h \in {flood, migration}
  BY TypedFacts DEF RInv
<1>. SUFFICES ASSUME NEW j \in Sendable(h)
     PROVE  /\ j \in 1 .. last /\ h[j] \in Packets
            /\ j \notin DOMAIN kept /\ j \notin DOMAIN flood' /\ j \notin DOMAIN migration'
            /\ \A m \in net : m.id # j
            /\ \A s \in out : s.kind = "result" => s.id # j
            /\ h[j] \in Reqs => Token(h[j], j)
  BY DEF Free
<1>2. j \in DOMAIN h /\ h[j] \in Packets /\ j \in 1 .. last
  BY <1>1, HashFact
<1>3. /\ \A m \in net : m.id # j
      /\ \A s \in out : s.id = j => s.kind # "result"
  BY <1>1, <1>2 DEF RInv, Wire, HeldAnswered
<1>4. j \notin DOMAIN kept /\ j \notin DOMAIN flood' /\ j \notin DOMAIN migration'
  BY <1>1, <1>2 DEF RInv, Wire, Apart
<1>5. h[j] \in Reqs => Token(h[j], j)
  BY <1>1, <1>2 DEF Token
<1>. QED
  BY <1>2, <1>3, <1>4, <1>5

-----------------------------------------------------------------------------
(***************************************************************************)
(* The actions have these shapes.                                          *)
(***************************************************************************)
\* Where a step leaves the ring alone.
LEMMA RingSame ==
  ASSUME Typed, seen' = seen, recent' = recent, sent' = sent, out' = out, inside' = inside
  PROVE  /\ Listens
         /\ seen' \in Seq(1 .. sent') /\ Len(seen') <= Ring /\ recent' = seen'
BY DEF Listens, Typed, RequestsTypeOK

\* Nothing is owed less.
LEMMA OwingSame ==
  ASSUME owes' = owes, displaced' = displaced, flood' = flood, migration' = migration
  PROVE  Owing
BY DEF Owing

\* A request of the client.
LEMMA IssueSends ==
  ASSUME RInv, NEW r \in Reqs, Issue(r)
  PROVE  Orderly /\ Sends(r, last + 1)
<1>1. Typed /\ last \in Nat /\ checks \in Nat
  BY TypedFacts DEF RInv
<1>2. net' \subseteq net \cup {[id |-> last + 1, req |-> r]}
  BY DEF Issue, Written
<1>3. Listens /\ Owing
  BY <1>1, RingSame, OwingSame DEF Issue, server, history
<1>4. seen' \in Seq(1 .. sent') /\ Len(seen') <= Ring /\ recent' = seen'
  BY <1>1, RingSame DEF Issue, server, history
<1>5. Orderly
  BY <1>1, <1>4 DEF Orderly, Issue, server, history, Typed, RequestsTypeOK
<1>. QED
  BY <1>2, <1>3, <1>5 DEF Issue, Sends, server, history

\* The authorization check of a connection.
LEMMA CheckSends ==
  ASSUME RInv, HandleConfigCheck
  PROVE  Orderly /\ Sends(Check(checks + 1), last + 1)
<1>1. Typed /\ last \in Nat /\ checks \in Nat
  BY TypedFacts DEF RInv
<1>2. net' \subseteq net \cup {[id |-> last + 1, req |-> Check(checks + 1)]}
  BY DEF HandleConfigCheck, Written
<1>3. Listens /\ Owing
  BY <1>1, RingSame, OwingSame DEF HandleConfigCheck, server, history
<1>4. seen' \in Seq(1 .. sent') /\ Len(seen') <= Ring /\ recent' = seen'
  BY <1>1, RingSame DEF HandleConfigCheck, server, history
<1>5. Orderly
  BY <1>1, <1>4 DEF Orderly, HandleConfigCheck, server, history, Typed, RequestsTypeOK
<1>. QED
  BY <1>2, <1>3, <1>5 DEF HandleConfigCheck, Sends, server, history

\* The server carries a request out, or refuses it.
LEMMA ServeServes ==
  ASSUME RInv, NEW m \in net, Serve(m)
  PROVE  Orderly /\ \E s : Serves(m, s)
<1>1. /\ Typed /\ last \in Nat /\ sent \in Nat /\ checks \in Nat /\ faults \in Nat
      /\ seen \in Seq(1 .. sent)
  BY TypedFacts DEF RInv, Typed
<1>2. Quiet /\ Owing
  BY OwingSame DEF Serve, hashes, Quiet, history
<1>3. seen' \in Seq(1 .. sent')
  BY <1>1 DEF Serve
<1>4. faults' \in Nat
  BY <1>1 DEF Serve
<1>5. Orderly
  BY <1>1, <1>3, <1>4 DEF Orderly, Serve, Typed, RequestsTypeOK, history
<1>6. CASE out' = out \cup {Says("result", m)}
           /\ executed' = IF m.req \in Reqs THEN [executed EXCEPT ![m.req] = @ + 1]
                          ELSE executed
  <2>1. Serves(m, Says("result", m))
    BY <1>2, <1>6 DEF Serve, Serves, Says, Says4, hashes, history
  <2>. QED
    BY <1>5, <2>1
<1>7. ASSUME NEW kind \in Refusals, out' = out \cup {Says(kind, m)}, executed' = executed
      PROVE  Serves(m, Says(kind, m))
  <2>1. kind \in Says4 /\ kind # "result"
    BY RequestsAssumption DEF Says4
  <2>. QED
    BY <1>2, <1>7, <2>1 DEF Serve, Serves, Says, hashes, history
<1>. QED
  BY <1>5, <1>6, <1>7 DEF Serve

\* The connection opens or closes, or nothing happens.
LEMMA LinkForgets ==
  ASSUME RInv, Connect \/ Disconnect \/ UNCHANGED vars
  PROVE  Orderly /\ Forgets
<1>1. Typed /\ last \in Nat /\ checks \in Nat /\ faults \in Nat /\ sent \in Nat
  BY TypedFacts DEF RInv, Typed
<1>2. /\ out' = out /\ seen' = seen /\ recent' = recent /\ sent' = sent
      /\ executed' = executed /\ owes' = owes /\ pending' = pending
      /\ inside' = inside /\ displaced' = displaced
      /\ flood' = flood /\ migration' = migration /\ noReplay' = noReplay
      /\ last' = last /\ awaits' = awaits /\ authCheck' = authCheck /\ checks' = checks
      /\ user' = user
  BY DEF Connect, Disconnect, hashes, server, history, vars
<1>3. net' \subseteq net
  BY DEF Connect, Disconnect, vars
<1>4. link' \in {"down", "open", "up"} /\ faults' \in Nat
  BY <1>1 DEF Connect, Disconnect, vars, Typed, RequestsTypeOK
<1>5. Listens /\ seen' \in Seq(1 .. sent') /\ Len(seen') <= Ring /\ recent' = seen'
  BY <1>1, <1>2, RingSame
<1>6. Owing
  BY <1>2, OwingSame
<1>7. Orderly
  BY <1>1, <1>2, <1>4, <1>5 DEF Orderly, Typed, RequestsTypeOK
<1>. QED
  BY <1>2, <1>3, <1>5, <1>6, <1>7 DEF Forgets, Quiet

\* What the handler of a message of the server finds.
LEMMA HandlesOrderly ==
  ASSUME RInv, NEW s \in out, NEW kind, Accept(s, kind),
         out' = Deliverable \/ out' = {}, inside \subseteq inside',
         link' \in {link, "down"}, user' = user, checks' = checks, faults' = faults,
         sent' = sent, last' \in Nat, last <= last'
  PROVE  /\ Orderly /\ Listens /\ s.kind = kind
         /\ seen' = seen \/ (s.sid \notin Elements(seen) /\ s.sid \in Elements(seen'))
         /\ s.sid \in 1 .. sent /\ s.id \in 1 .. last
<1>1. /\ Typed /\ checks \in Nat /\ sent \in Nat /\ faults \in Nat
      /\ s.sid \in 1 .. sent /\ s.id \in 1 .. last
  BY TypedFacts DEF RInv, Typed
<1>2. /\ Listens /\ s.kind = kind
      /\ seen' = seen \/ (s.sid \notin Elements(seen) /\ s.sid \in Elements(seen'))
      /\ seen' \in Seq(1 .. sent) /\ Len(seen') <= Ring /\ recent' = seen'
  BY <1>1, AcceptListens
<1>. QED
  BY <1>1, <1>2 DEF Orderly, Typed, RequestsTypeOK

\* A reply, or a final error.
LEMMA ResultForgets ==
  ASSUME RInv, NEW s \in out, HandleRpcResult(s)
  PROVE  Orderly /\ Forgets
<1>1. last \in Nat
  BY TypedFacts DEF RInv
<1>2. Orderly /\ Listens
  BY <1>1, HandlesOrderly DEF HandleRpcResult, server, history
<1>3. Owing
  BY OwingSame DEF HandleRpcResult, history
<1>4. \A i \in DOMAIN pending' : i \in DOMAIN pending /\ pending'[i] = pending[i]
  <2>1. /\ DOMAIN Del(pending, s.id) = DOMAIN pending \ {s.id}
        /\ \A i \in DOMAIN Del(pending, s.id) : Del(pending, s.id)[i] = pending[i]
    BY DelFact
  <2>. QED
    BY <2>1 DEF HandleRpcResult
<1>. QED
  BY <1>2, <1>3, <1>4 DEF HandleRpcResult, Forgets, Quiet, server, history

\* FLOOD_WAIT: a registered request is given up, any other is held; if it comes
\* again, nothing is.
LEMMA FloodHolds ==
  ASSUME RInv, NEW s \in out, HandleFloodWait(s)
  PROVE  Orderly /\ (Forgets \/ Holds(s) \/ Erases(s))
<1>1. last \in Nat
  BY TypedFacts DEF RInv
<1>2. inside \subseteq inside' /\ displaced \subseteq displaced'
  BY DEF HandleFloodWait, Displace
<1>3. /\ Orderly /\ Listens /\ s.kind = "flood"
      /\ seen' = seen \/ (s.sid \notin Elements(seen) /\ s.sid \in Elements(seen'))
  BY <1>1, <1>2, HandlesOrderly DEF HandleFloodWait, server
<1>4. Quiet
  BY DEF HandleFloodWait, Quiet
<1>5. CASE s.id \in noReplay /\ noReplay' = noReplay \ {s.id} /\ flood' = flood /\ owes' = owes
  <2>1. Owing
    BY <1>2, <1>5 DEF HandleFloodWait, Owing
  <2>2. \A i \in DOMAIN pending' : i \in DOMAIN pending /\ pending'[i] = pending[i] /\ i # s.id
    <3>1. /\ DOMAIN Del(pending, s.id) = DOMAIN pending \ {s.id}
          /\ \A i \in DOMAIN Del(pending, s.id) : Del(pending, s.id)[i] = pending[i]
      BY DelFact
    <3>. QED
      BY <3>1 DEF HandleFloodWait
  <2>. QED
    BY <1>3, <1>4, <1>5, <2>1, <2>2 DEF HandleFloodWait, Forgets, server
<1>6. CASE /\ s.id \notin noReplay /\ flood' = Put(flood, s.id, At(pending, s.id))
           /\ Owe(s) /\ Displace(s) /\ noReplay' = noReplay
  <2>1. At(pending, s.id) # None => Heard(s)'
    BY <1>3, <1>6 DEF Displace, Heard
  <2>2. CASE s.id \notin DOMAIN flood
    BY <1>2, <1>3, <1>4, <1>6, <2>1, <2>2 DEF HandleFloodWait, Holds, Owe, server
  <2>3. CASE s.id \in DOMAIN flood
    <3>1. s.id \notin DOMAIN pending
      BY <2>3 DEF RInv, Wire, Apart
    <3>2. At(pending, s.id) = None /\ At(flood, s.id) = flood[s.id]
      BY <2>3, <3>1 DEF At
    <3>3. \A i \in DOMAIN pending' : i \in DOMAIN pending /\ pending'[i] = pending[i]
      <4>1. /\ DOMAIN Del(pending, s.id) = DOMAIN pending \ {s.id}
            /\ \A i \in DOMAIN Del(pending, s.id) : Del(pending, s.id)[i] = pending[i]
        BY DelFact
      <4>. QED
        BY <4>1 DEF HandleFloodWait
    <3>4. flood[s.id] # None => Heard(s)
      BY <2>3 DEF RInv, Wire, HeldAnswered
    <3>5. flood[s.id] = None \/ flood[s.id] \in displaced'
      BY <1>3, <1>6, <3>2, <3>4 DEF Displace, Heard
    <3>6. owes' = owes
      BY <1>6, <3>2 DEF Owe
    <3>. QED
      BY <1>2, <1>3, <1>4, <1>6, <2>3, <3>2, <3>3, <3>5, <3>6 DEF HandleFloodWait, Erases, server
  <2>. QED
    BY <1>3, <2>2, <2>3
<1>. QED
  BY <1>3, <1>5, <1>6 DEF HandleFloodWait

\* MIGRATE: the request is held for the new data centre.
LEMMA MigrateHolds ==
  ASSUME RInv, NEW s \in out, HandleMigrate(s)
  PROVE  Orderly /\ Holds(s)
<1>1. last \in Nat
  BY TypedFacts DEF RInv
<1>2. /\ Orderly /\ Listens /\ s.kind = "migrate"
  BY <1>1, HandlesOrderly DEF HandleMigrate, server
<1>3. s.id \notin DOMAIN flood
  BY <1>2 DEF RInv, Wire, HeldAnswered
<1>. QED
  BY <1>2, <1>3 DEF HandleMigrate, Holds, Owe, Quiet, server

\* A refused request is sent again at once.
LEMMA BadRetries ==
  ASSUME RInv, NEW s \in out, HandleBadMsg(s)
  PROVE  Orderly /\ \E h, kept, ids : Retries(h, kept, ids)
<1>. DEFINE h == [i \in {s.id} |-> At(pending, s.id)]
            kept == Del(pending, s.id)
<1>1. last \in Nat /\ Hash(pending) /\ s.id \in 1 .. last /\ Typed /\ s.sid \in 1 .. sent
  BY TypedFacts DEF RInv
<1>2. PICK ids \in Renamings(h) : Resend(h, kept, ids)
  BY DEF HandleBadMsg
<1>3. /\ DOMAIN h \subseteq 1 .. last
      /\ \A j \in Sendable(h) : j = s.id /\ j \in DOMAIN pending /\ h[j] = pending[j]
  BY <1>1 DEF At, Sendable
<1>4. /\ DOMAIN kept \subseteq DOMAIN pending /\ s.id \notin DOMAIN kept
      /\ \A i \in DOMAIN kept : i \in DOMAIN pending /\ kept[i] = pending[i]
      /\ DOMAIN kept \subseteq 1 .. last
  <2>1. /\ DOMAIN kept = DOMAIN pending \ {s.id}
        /\ \A i \in DOMAIN kept : kept[i] = pending[i]
    BY DelFact
  <2>. QED
    BY <1>1, <2>1, HashFact
<1>. HIDE DEF h, kept
<1>5. Resent(h, kept, ids) /\ BroadcastMessageChange(ids)
  BY <1>1, <1>2, <1>3, <1>4, ResendFact
<1>6. /\ Orderly /\ Listens /\ s.kind = "bad"
  BY <1>1, <1>5, HandlesOrderly DEF HandleBadMsg, server, history, Resent
<1>7. flood' = flood /\ migration' = migration
  BY DEF HandleBadMsg
<1>8. Free(h, kept)
  <2>. SUFFICES ASSUME NEW j \in Sendable(h)
       PROVE  /\ j \in 1 .. last /\ h[j] \in Packets
              /\ j \notin DOMAIN kept /\ j \notin DOMAIN flood' /\ j \notin DOMAIN migration'
              /\ \A m \in net : m.id # j
              /\ \A t \in out : t.kind = "result" => t.id # j
              /\ h[j] \in Reqs => Token(h[j], j)
    BY DEF Free
  <2>1. j = s.id /\ j \in DOMAIN pending /\ h[j] = pending[j] /\ h[j] = s.req
    BY <1>3 DEF RInv, Wire, Known
  <2>2. h[j] \in Packets
    BY <1>1, <2>1, TypedFacts
  <2>3. j \notin DOMAIN flood' /\ j \notin DOMAIN migration'
    BY <1>7, <2>1 DEF RInv, Wire, Apart
  <2>4. /\ \A m \in net : m.id # j
        /\ \A t \in out : t.id = j => t = s
    BY <2>1 DEF RInv, Wire, OneAnswer
  <2>5. Token(h[j], j)
    BY <1>6, <2>1 DEF Token
  <2>. QED
    BY <1>1, <1>4, <1>6, <2>1, <2>2, <2>3, <2>4, <2>5
<1>9. Follows(h, awaits, authCheck, checks)
  <2>1. Follows(pending, awaits, authCheck, checks) /\ checks \in Nat
    BY TypedFacts DEF RInv, Followed
  <2>2. \A i \in DOMAIN h : h[i] # None => i \in Sendable(h)
    BY DEF Sendable
  <2>. QED
    BY <1>3, <2>1, <2>2, PacketsApart DEF Follows
<1>10. Owing
  BY <1>7, OwingSame DEF HandleBadMsg, history
<1>11. Retries(h, kept, ids)
  BY <1>4, <1>5, <1>6, <1>7, <1>8, <1>9, <1>10 DEF HandleBadMsg, Retries, server, history
<1>. QED
  BY <1>6, <1>11

\* The requests held for the new data centre are sent there.
LEMMA ConfigRetries ==
  ASSUME RInv, HandleConfig
  PROVE  Orderly /\ \E h, kept, ids : Retries(h, kept, ids)
<1>1. /\ last \in Nat /\ checks \in Nat /\ Hash(pending) /\ Hash(migration) /\ Typed
      /\ DOMAIN pending \subseteq 1 .. last /\ DOMAIN migration \subseteq 1 .. last
  BY TypedFacts, HashFact DEF RInv
<1>2. PICK ids \in Renamings(migration) : Resend(migration, pending, ids)
  BY DEF HandleConfig
<1>3. Resent(migration, pending, ids) /\ BroadcastMessageChange(ids)
  BY <1>1, <1>2, ResendFact
<1>4. flood' = flood /\ migration' = Empty
  BY DEF HandleConfig
<1>5. Listens /\ seen' \in Seq(1 .. sent') /\ Len(seen') <= Ring /\ recent' = seen'
  BY <1>1, RingSame DEF HandleConfig, server, history
<1>6. Orderly
  BY <1>1, <1>3, <1>5 DEF Orderly, HandleConfig, server, history, Typed, RequestsTypeOK, Resent
<1>7. Owing
  BY <1>4 DEF HandleConfig, Owing
<1>8. \A i \in DOMAIN migration : i \notin DOMAIN flood' /\ i \notin DOMAIN migration'
  BY <1>4, EmptyFact DEF RInv, Wire, Apart
<1>9. Free(migration, pending)
  BY <1>5, <1>8, HeldIsFree
<1>10. Retries(migration, pending, ids)
  BY <1>3, <1>4, <1>5, <1>7, <1>9 DEF HandleConfig, Retries, server, history, RInv, Followed
<1>. QED
  BY <1>6, <1>10

\* The keepalive sends the flooded requests again.
LEMMA PingRetries ==
  ASSUME RInv, PingTimer
  PROVE  Orderly /\ \E h, kept, ids : Retries(h, kept, ids)
<1>. DEFINE many == Cardinality(DOMAIN pending) >= TooMany
            kept == IF many THEN Empty ELSE pending
<1>1. /\ last \in Nat /\ checks \in Nat /\ Hash(pending) /\ Hash(flood) /\ Typed
      /\ DOMAIN pending \subseteq 1 .. last /\ DOMAIN flood \subseteq 1 .. last
  BY TypedFacts, HashFact DEF RInv
<1>2. PICK ids \in Renamings(flood) : Resend(flood, kept, ids)
  BY DEF PingTimer
<1>3. /\ \A i \in DOMAIN kept : i \in DOMAIN pending /\ kept[i] = pending[i]
      /\ DOMAIN kept \subseteq 1 .. last /\ DOMAIN kept \subseteq DOMAIN pending
      /\ many => DOMAIN kept = {}
  BY <1>1, EmptyFact
<1>4. noReplay' = noReplay \/ (noReplay' = {} /\ DOMAIN kept = {})
  BY <1>3 DEF PingTimer
<1>. HIDE DEF kept, many
<1>5. Resent(flood, kept, ids) /\ BroadcastMessageChange(ids)
  BY <1>1, <1>2, <1>3, ResendFact
<1>6. flood' = Empty /\ migration' = migration
  BY DEF PingTimer
<1>7. Listens /\ seen' \in Seq(1 .. sent') /\ Len(seen') <= Ring /\ recent' = seen'
  BY <1>1, RingSame DEF PingTimer, server, history
<1>8. Orderly
  BY <1>1, <1>5, <1>7 DEF Orderly, PingTimer, server, history, Typed, RequestsTypeOK, Resent
<1>9. Owing
  BY <1>6 DEF PingTimer, Owing
<1>10. \A i \in DOMAIN flood : i \notin DOMAIN flood' /\ i \notin DOMAIN migration'
  BY <1>6, EmptyFact DEF RInv, Wire, Apart
<1>11. Free(flood, kept)
  BY <1>3, <1>7, <1>10, HeldIsFree
<1>12. Retries(flood, kept, ids)
  BY <1>3, <1>4, <1>5, <1>6, <1>7, <1>9, <1>11 DEF PingTimer, Retries, server, history, RInv, Followed
<1>. QED
  BY <1>8, <1>12

\* Every step has one of the shapes.
LEMMA EveryShape ==
  ASSUME RInv, [Next]_vars
  PROVE  Orderly /\ Shapes
<1>1. CASE \E r \in Reqs : Issue(r)
  BY <1>1, IssueSends DEF Shapes
<1>2. CASE \E m \in net : Serve(m)
  BY <1>2, ServeServes DEF Shapes
<1>3. ASSUME NEW s \in out, Handle(s)
      PROVE  Orderly /\ Shapes
  <2>1. CASE HandleRpcResult(s)
    BY <2>1, ResultForgets DEF Shapes
  <2>2. CASE HandleFloodWait(s)
    BY <2>2, FloodHolds DEF Shapes
  <2>3. CASE HandleBadMsg(s)
    BY <2>3, BadRetries DEF Shapes
  <2>4. CASE HandleMigrate(s)
    BY <2>4, MigrateHolds DEF Shapes
  <2>. QED
    BY <1>3, <2>1, <2>2, <2>3, <2>4 DEF Handle
<1>4. CASE Connect \/ Disconnect \/ UNCHANGED vars
  BY <1>4, LinkForgets DEF Shapes
<1>5. CASE HandleConfig
  BY <1>5, ConfigRetries DEF Shapes
<1>6. CASE HandleConfigCheck
  BY <1>6, CheckSends DEF Shapes
<1>7. CASE PingTimer
  BY <1>7, PingRetries DEF Shapes
<1>. QED
  BY <1>1, <1>2, <1>3, <1>4, <1>5, <1>6, <1>7 DEF Next

-----------------------------------------------------------------------------
(***************************************************************************)
(* The types.                                                              *)
(***************************************************************************)
\* Packets and ids are never fewer.
LEMMA Grows ==
  ASSUME Typed, Orderly
  PROVE  /\ Packets \subseteq Packets' /\ 1 .. last \subseteq 1 .. last'
         /\ 0 .. last \subseteq 0 .. last'
         /\ Hash(flood) /\ flood' \in {flood, Empty} => Hash(flood)'
         /\ Hash(migration) /\ migration' \in {migration, Empty} => Hash(migration)'
<1>1. last \in Nat /\ last' \in Nat /\ last <= last' /\ checks \in Nat /\ checks' \in Nat
      /\ checks <= checks'
  BY DEF Typed, RequestsTypeOK, Orderly
<1>2. Packets \subseteq Packets' /\ 1 .. last \subseteq 1 .. last' /\ 0 .. last \subseteq 0 .. last'
  BY <1>1 DEF Packets
<1>3. Hash(flood) /\ flood' \in {flood, Empty} => Hash(flood)'
  BY <1>2, EmptyFact DEF Hash
<1>4. Hash(migration) /\ migration' \in {migration, Empty} => Hash(migration)'
  BY <1>2, EmptyFact DEF Hash
<1>. QED
  BY <1>2, <1>3, <1>4

\* What is sent again keeps its type.
LEMMA RetriesTyped ==
  ASSUME RInv, Orderly, NEW h, NEW kept, NEW ids, Retries(h, kept, ids)
  PROVE  Typed'
<1>1. Typed /\ last \in Nat /\ last' \in Nat /\ last <= last'
  BY TypedFacts DEF RInv, Orderly
<1>2. /\ \A j \in Sendable(h) : /\ j \in 1 .. last /\ h[j] \in Packets
                                /\ ids[j] \in last + 1 .. last'
      /\ DOMAIN ids = Sendable(h)
  BY DEF Retries, Free, Resent
<1>3. \A i \in 1 .. last' : i \in 1 .. last \/ i \in last + 1 .. last'
  BY <1>1
<1>4. \A j \in Sendable(h) : ids[j] \in 1 .. last' /\ h[j] \in Packets'
  BY <1>1, <1>2, Grows
<1>5. Hash(pending)'
  <2>1. \A i \in DOMAIN pending : i \in 1 .. last' /\ pending[i] \in Packets' \cup {None}
    BY <1>1, Grows, TypedFacts, HashFact
  <2>2. \A i \in DOMAIN pending' :
          \/ i \in DOMAIN pending /\ pending'[i] = pending[i]
          \/ \E j \in Sendable(h) : ids[j] = i /\ pending'[i] = h[j]
    BY DEF Retries, Resent
  <2>. QED
    BY <1>4, <2>1, <2>2 DEF Hash
<1>6. Hash(flood)' /\ Hash(migration)'
  BY <1>1, Grows, TypedFacts DEF Retries
<1>7. noReplay' \subseteq 1 .. last'
  BY <1>1, Grows DEF Retries, Typed, RequestsTypeOK
<1>8. \A i \in 0 .. last : Renamed(ids, i) \in 0 .. last'
  BY <1>1, <1>2 DEF Renamed
<1>9. authCheck' \in 0 .. last' /\ awaits' \in [Reqs -> 0 .. last']
  <2>1. authCheck \in 0 .. last /\ awaits \in [Reqs -> 0 .. last]
    BY <1>1, TypedFacts
  <2>2. \A r \in Reqs : awaits[r] \in 0 .. last' /\ Renamed(ids, awaits[r]) \in 0 .. last'
    BY <1>1, <1>8, <2>1
  <2>. QED
    BY <1>8, <2>1, <2>2 DEF Retries, BroadcastMessageChange, HandleMessageChanged
<1>10. net' \subseteq [id : 1 .. last', req : Packets']
  <2>1. \A m \in net : m \in [id : 1 .. last', req : Packets']
    <3>1. \A m \in net : m \in [id : 1 .. last, req : Packets]
      BY <1>1 DEF Typed, RequestsTypeOK
    <3>. QED
      BY <1>1, <3>1, Grows
  <2>2. \A m \in net' : m \in net \/ \E j \in Sendable(h) : m = [id |-> ids[j], req |-> h[j]]
    BY DEF Retries, Resent
  <2>. QED
    BY <1>4, <2>1, <2>2
<1>11. out' \subseteq Answers'
  <2>1. out' \subseteq out /\ sent' = sent
    BY DEF Retries, Listens
  <2>. QED
    BY <1>1, <2>1, Grows DEF Typed, Answers
<1>12. executed' \in [Reqs -> Nat]
  BY <1>1, TypedFacts DEF Retries
<1>. QED
  BY <1>5, <1>6, <1>7, <1>9, <1>10, <1>11, <1>12 DEF Typed, RequestsTypeOK, Orderly

\* So does a new request.
LEMMA SendsTyped ==
  ASSUME RInv, Orderly, NEW r, NEW id, Sends(r, id)
  PROVE  Typed'
<1>1. /\ Typed /\ last \in Nat /\ id = last + 1 /\ last' = id /\ id \in 1 .. last' /\ id \in 0 .. last'
      /\ checks \in Nat
  BY TypedFacts DEF RInv, Sends
<1>2. r \in Packets'
  BY <1>1 DEF Sends, Packets
<1>3. Hash(pending)'
  <2>1. \A i \in DOMAIN pending : i \in 1 .. last' /\ pending[i] \in Packets' \cup {None}
    BY <1>1, Grows, TypedFacts, HashFact
  <2>. QED
    <3>1. \A j \in DOMAIN Put(pending, id, r) :
            \/ j = id /\ Put(pending, id, r)[j] = r
            \/ j \in DOMAIN pending /\ Put(pending, id, r)[j] = pending[j]
      BY DEF Put
    <3>. QED
      BY <1>1, <1>2, <2>1, <3>1 DEF Sends, Hash
<1>4. Hash(flood)' /\ Hash(migration)'
  BY <1>1, Grows, TypedFacts DEF Sends
<1>5. noReplay' \subseteq 1 .. last'
  <2>1. noReplay \subseteq 1 .. last'
    BY <1>1, Grows DEF Typed, RequestsTypeOK
  <2>. QED
    BY <1>1, <2>1 DEF Sends, DoNotReplay
<1>6. authCheck' \in 0 .. last' /\ awaits' \in [Reqs -> 0 .. last']
  <2>1. authCheck \in 0 .. last /\ awaits \in [Reqs -> 0 .. last]
    BY <1>1, TypedFacts
  <2>2. authCheck \in 0 .. last' /\ awaits \in [Reqs -> 0 .. last']
    BY <1>1, <2>1
  <2>. QED
    BY <1>1, <2>2 DEF Sends
<1>7. net' \subseteq [id : 1 .. last', req : Packets']
  <2>1. \A m \in net : m \in [id : 1 .. last, req : Packets]
    BY <1>1 DEF Typed, RequestsTypeOK
  <2>2. \A m \in net : m \in [id : 1 .. last', req : Packets']
    BY <1>1, <2>1, Grows
  <2>. QED
    BY <1>1, <1>2, <2>2 DEF Sends
<1>8. out' \subseteq Answers'
  <2>1. out' \subseteq out /\ sent' = sent
    BY DEF Sends, Listens
  <2>. QED
    BY <1>1, <2>1, Grows DEF Typed, Answers
<1>9. executed' \in [Reqs -> Nat]
  BY <1>1, TypedFacts DEF Sends
<1>. QED
  BY <1>3, <1>4, <1>5, <1>6, <1>7, <1>8, <1>9 DEF Typed, RequestsTypeOK, Orderly

\* So does what the server says.
LEMMA ServesTyped ==
  ASSUME RInv, Orderly, NEW m, NEW s, Serves(m, s)
  PROVE  Typed'
<1>1. /\ Typed /\ last' = last /\ checks' = checks /\ Packets' = Packets
      /\ m.id \in 1 .. last /\ m.req \in Packets /\ sent \in Nat /\ sent' = sent + 1
  BY TypedFacts DEF RInv, Serves, Quiet, Packets
<1>2. out' \subseteq Answers'
  <2>1. s \in Answers'
    BY <1>1 DEF Serves, Answers
  <2>2. \A t \in out : t \in Answers'
    <3>1. 1 .. sent \subseteq 1 .. sent'
      BY <1>1
    <3>. QED
      BY <1>1, <3>1 DEF Typed, Answers
  <2>. QED
    BY <2>1, <2>2 DEF Serves
<1>3. executed' \in [Reqs -> Nat]
  BY <1>1, TypedFacts DEF Serves
<1>4. net' \subseteq [id : 1 .. last, req : Packets] /\ Hash(pending)' /\ Hash(flood)' /\ Hash(migration)'
  BY <1>1 DEF Serves, Typed, RequestsTypeOK, Hash
<1>. QED
  BY <1>1, <1>2, <1>3, <1>4 DEF Typed, RequestsTypeOK, Orderly, Serves, Quiet

\* A hash that no longer holds anything under an id still has the id.
LEMMA ErasesFact ==
  ASSUME NEW s, Erases(s)
  PROVE  /\ s.id \in DOMAIN flood /\ DOMAIN flood' = DOMAIN flood /\ flood'[s.id] = None
         /\ \A i \in DOMAIN flood : i # s.id => flood'[i] = flood[i]
BY DEF Erases, Put

\* And what is taken out, or held.
LEMMA ForgetsTyped ==
  ASSUME RInv, Orderly, Forgets \/ (\E s : Holds(s)) \/ (\E s : Erases(s))
  PROVE  Typed'
<1>1. /\ Typed /\ last' = last /\ checks' = checks /\ Packets' = Packets
      /\ sent' = sent /\ executed' = executed /\ awaits' = awaits /\ authCheck' = authCheck
      /\ noReplay' \subseteq noReplay /\ net' \subseteq net /\ out' \subseteq out
  BY DEF RInv, Forgets, Holds, Erases, Quiet, Packets, Listens
<1>2. Hash(pending) /\ Hash(flood) /\ Hash(migration)
  BY <1>1, TypedFacts
<1>3. CASE Forgets
  <2>1. Hash(pending)' /\ Hash(flood)' /\ Hash(migration)'
    BY <1>1, <1>2, <1>3 DEF Forgets, Hash
  <2>. QED
    BY <1>1, <2>1 DEF Typed, RequestsTypeOK, Orderly, Answers
<1>4. ASSUME NEW s, Holds(s)
      PROVE  Typed'
  <2>1. s.id \in 1 .. last /\ At(pending, s.id) \in Packets \cup {None}
    BY <1>1, <1>2, <1>4, TypedFacts, HashFact DEF Holds, At
  <2>2. Hash(pending)'
    <3>1. /\ DOMAIN Del(pending, s.id) = DOMAIN pending \ {s.id}
          /\ \A i \in DOMAIN Del(pending, s.id) : Del(pending, s.id)[i] = pending[i]
      BY DelFact
    <3>. QED
      BY <1>1, <1>2, <1>4, <3>1 DEF Holds, Hash
  <2>3. Hash(flood)' /\ Hash(migration)'
    <3>1. CASE flood' = Put(flood, s.id, At(pending, s.id)) /\ migration' = migration
      <4>1. \A j \in DOMAIN Put(flood, s.id, At(pending, s.id)) :
              \/ j = s.id /\ Put(flood, s.id, At(pending, s.id))[j] = At(pending, s.id)
              \/ j \in DOMAIN flood /\ Put(flood, s.id, At(pending, s.id))[j] = flood[j]
        BY DEF Put
      <4>. QED
        BY <1>1, <1>2, <2>1, <3>1, <4>1 DEF Hash
    <3>2. CASE migration' = Put(migration, s.id, At(pending, s.id)) /\ flood' = flood
      <4>1. \A j \in DOMAIN Put(migration, s.id, At(pending, s.id)) :
              \/ j = s.id /\ Put(migration, s.id, At(pending, s.id))[j] = At(pending, s.id)
              \/ j \in DOMAIN migration /\ Put(migration, s.id, At(pending, s.id))[j] = migration[j]
        BY DEF Put
      <4>. QED
        BY <1>1, <1>2, <2>1, <3>2, <4>1 DEF Hash
    <3>. QED
      BY <1>4, <3>1, <3>2 DEF Holds
  <2>. QED
    BY <1>1, <2>2, <2>3 DEF Typed, RequestsTypeOK, Orderly, Answers
<1>5. ASSUME NEW s, Erases(s)
      PROVE  Typed'
  <2>1. /\ DOMAIN flood' = DOMAIN flood /\ flood'[s.id] = None
        /\ \A i \in DOMAIN flood : i # s.id => flood'[i] = flood[i]
    BY <1>5, ErasesFact
  <2>2. Hash(pending)' /\ Hash(flood)' /\ Hash(migration)'
    BY <1>1, <1>2, <1>5, <2>1 DEF Erases, Hash
  <2>. QED
    BY <1>1, <2>2 DEF Typed, RequestsTypeOK, Orderly, Answers
<1>. QED
  BY <1>3, <1>4, <1>5

-----------------------------------------------------------------------------
(***************************************************************************)
(* What the shapes do to the hashes.                                       *)
(***************************************************************************)
\* A new packet is pending under the newest id.
LEMMA SendsFact ==
  ASSUME RInv, NEW r, NEW id, Sends(r, id)
  PROVE  /\ id = last + 1 /\ last' = id /\ last \in Nat /\ id \notin 1 .. last
         /\ DOMAIN pending' = DOMAIN pending \cup {id} /\ pending'[id] = r
         /\ \A i \in DOMAIN pending : i \in 1 .. last /\ pending'[i] = pending[i]
         /\ \A m \in net' : m \in net \/ m = [id |-> id, req |-> r]
         /\ \A i \in DOMAIN flood \cup DOMAIN migration : i \in 1 .. last
<1>1. /\ last \in Nat /\ DOMAIN pending \subseteq 1 .. last
      /\ DOMAIN flood \subseteq 1 .. last /\ DOMAIN migration \subseteq 1 .. last
  BY TypedFacts, HashFact DEF RInv
<1>2. /\ id = last + 1 /\ last' = id /\ pending' = Put(pending, id, r)
      /\ \A m \in net' : m \in net \/ m = [id |-> id, req |-> r]
  BY DEF Sends
<1>3. id \notin 1 .. last
  BY <1>1, <1>2
<1>4. /\ DOMAIN pending' = DOMAIN pending \cup {id} /\ pending'[id] = r
      /\ \A i \in DOMAIN pending : i # id => pending'[i] = pending[i]
  BY <1>2 DEF Put
<1>. QED
  BY <1>1, <1>2, <1>3, <1>4

\* A refused request is in no hash yet that holds it, and then in one.
LEMMA HoldsFact ==
  ASSUME RInv, NEW s, Holds(s)
  PROVE  /\ s.id \in 1 .. last /\ s.id \notin DOMAIN flood /\ s.id \notin DOMAIN migration
         /\ DOMAIN pending' = DOMAIN pending \ {s.id}
         /\ \A i \in DOMAIN pending' : pending'[i] = pending[i]
         /\ DOMAIN flood' \subseteq DOMAIN flood \cup {s.id}
         /\ DOMAIN migration' \subseteq DOMAIN migration \cup {s.id}
         /\ \A i \in DOMAIN flood : i \in DOMAIN flood' /\ flood'[i] = flood[i]
         /\ \A i \in DOMAIN migration : i \in DOMAIN migration' /\ migration'[i] = migration[i]
         /\ s.id \in DOMAIN flood' =>
              flood'[s.id] = At(pending, s.id) /\ s.id \notin DOMAIN migration'
              /\ s.id \notin noReplay
         /\ s.id \in DOMAIN migration' =>
              migration'[s.id] = At(pending, s.id) /\ s.id \notin DOMAIN flood'
         /\ s.id \in DOMAIN flood' \/ s.id \in DOMAIN migration'
         /\ \A m \in net : m.id # s.id
         /\ \A t \in out : t.id = s.id => t = s
         /\ s.id \in DOMAIN pending => At(pending, s.id) = pending[s.id]
         /\ At(pending, s.id) = s.req \/ At(pending, s.id) = None
<1>1. s \in out /\ s.id \in 1 .. last
  BY TypedFacts DEF Holds, RInv
<1>2. s.id \notin DOMAIN flood /\ s.id \notin DOMAIN migration
  BY <1>1 DEF Holds, RInv, Wire, HeldAnswered
<1>3. (\A m \in net : m.id # s.id) /\ \A t \in out : t.id = s.id => t = s
  BY <1>1 DEF RInv, Wire, OneAnswer
<1>4. /\ s.id \in DOMAIN pending => At(pending, s.id) = pending[s.id]
      /\ At(pending, s.id) = s.req \/ At(pending, s.id) = None
  BY <1>1 DEF RInv, Wire, Known, At
<1>5. /\ DOMAIN pending' = DOMAIN pending \ {s.id}
      /\ \A i \in DOMAIN pending' : pending'[i] = pending[i]
  BY DEF Holds, Del
<1>6. CASE /\ flood' = Put(flood, s.id, At(pending, s.id)) /\ migration' = migration
           /\ s.id \notin noReplay
  <2>1. /\ DOMAIN flood' = DOMAIN flood \cup {s.id} /\ flood'[s.id] = At(pending, s.id)
        /\ \A i \in DOMAIN flood : i # s.id => flood'[i] = flood[i]
    BY <1>6 DEF Put
  <2>. QED
    BY <1>1, <1>2, <1>3, <1>4, <1>5, <1>6, <2>1
<1>7. CASE migration' = Put(migration, s.id, At(pending, s.id)) /\ flood' = flood
  <2>1. /\ DOMAIN migration' = DOMAIN migration \cup {s.id}
        /\ migration'[s.id] = At(pending, s.id)
        /\ \A i \in DOMAIN migration : i # s.id => migration'[i] = migration[i]
    BY <1>7 DEF Put
  <2>. QED
    BY <1>1, <1>2, <1>3, <1>4, <1>5, <1>7, <2>1
<1>. QED
  BY <1>6, <1>7 DEF Holds

\* The server answers what is on its way, under a number of its own.
LEMMA ServesFact ==
  ASSUME RInv, NEW m, NEW s, Serves(m, s)
  PROVE  /\ m \in net /\ net' = net \ {m} /\ out' = out \cup {s}
         /\ s.id = m.id /\ s.req = m.req /\ s.sid = sent + 1 /\ s.kind \in Says4
         /\ \A t \in out : t.sid # s.sid /\ t.id # s.id
         /\ \A n \in net' : n.id # s.id
         /\ \A i \in DOMAIN flood \cup DOMAIN migration : i # s.id
         /\ m.id \in 1 .. last /\ s.sid \notin Elements(seen)
<1>1. /\ sent \in Nat /\ (\A t \in out : t.sid \in 1 .. sent) /\ seen \in Seq(1 .. sent)
      /\ \A n \in net : n.id \in 1 .. last
  BY TypedFacts DEF RInv
<1>2. /\ m \in net /\ net' = net \ {m} /\ out' = out \cup {s}
      /\ s.id = m.id /\ s.req = m.req /\ s.sid = sent + 1 /\ s.kind \in Says4
  BY DEF Serves
<1>3. \A t \in out : t.sid # s.sid /\ t.id # s.id
  BY <1>1, <1>2 DEF RInv, Wire, OneAnswer
<1>4. \A n \in net' : n.id # s.id
  BY <1>2 DEF RInv, Wire, OneAnswer
<1>5. \A i \in DOMAIN flood \cup DOMAIN migration : i # s.id
  BY <1>2 DEF RInv, Wire, HeldAnswered
<1>6. s.sid \notin Elements(seen)
  BY <1>1, <1>2 DEF Elements
<1>. QED
  BY <1>1, <1>2, <1>3, <1>4, <1>5, <1>6

\* What is sent again is under new ids; what stays pending keeps its own.
LEMMA RetriesFact ==
  ASSUME RInv, NEW h, NEW kept, NEW ids, Retries(h, kept, ids)
  PROVE  /\ last \in Nat /\ last' \in Nat /\ last <= last'
         /\ \A j \in Sendable(h) :
              /\ ids[j] \in last + 1 .. last' /\ ids[j] \notin 1 .. last
              /\ ids[j] \in DOMAIN pending' /\ pending'[ids[j]] = h[j]
         /\ \A i, j \in Sendable(h) : ids[i] = ids[j] => i = j
         /\ \A i \in DOMAIN pending' :
              \/ /\ i \in DOMAIN pending /\ i \in DOMAIN kept /\ i \in 1 .. last
                 /\ i \notin Sendable(h) /\ pending'[i] = pending[i]
              \/ \E j \in Sendable(h) : ids[j] = i /\ pending'[i] = h[j]
         /\ \A m \in net' :
              \/ m \in net /\ m.id \in 1 .. last /\ m.id \notin Sendable(h)
              \/ \E j \in Sendable(h) : m = [id |-> ids[j], req |-> h[j]]
         /\ DOMAIN flood' \subseteq DOMAIN flood /\ DOMAIN migration' \subseteq DOMAIN migration
         /\ \A i \in DOMAIN flood' : flood'[i] = flood[i] /\ i \in 1 .. last /\ i \notin Sendable(h)
         /\ \A i \in DOMAIN migration' :
              migration'[i] = migration[i] /\ i \in 1 .. last /\ i \notin Sendable(h)
<1>1. /\ last \in Nat /\ last' \in Nat /\ last <= last' /\ DOMAIN pending \subseteq 1 .. last
      /\ DOMAIN flood \subseteq 1 .. last /\ DOMAIN migration \subseteq 1 .. last
      /\ \A m \in net : m.id \in 1 .. last
  BY TypedFacts, HashFact DEF RInv, Retries, Resent
<1>2. \A j \in Sendable(h) :
        /\ ids[j] \in last + 1 .. last' /\ ids[j] \notin 1 .. last
        /\ ids[j] \in DOMAIN pending' /\ pending'[ids[j]] = h[j]
  BY <1>1 DEF Retries, Resent
<1>3. \A i, j \in Sendable(h) : ids[i] = ids[j] => i = j
  BY DEF Retries, Resent
<1>4. \A i \in DOMAIN pending' :
        \/ /\ i \in DOMAIN pending /\ i \in DOMAIN kept /\ i \in 1 .. last
           /\ i \notin Sendable(h) /\ pending'[i] = pending[i]
        \/ \E j \in Sendable(h) : ids[j] = i /\ pending'[i] = h[j]
  <2>. TAKE i \in DOMAIN pending'
  <2>1. CASE i \in DOMAIN kept /\ pending'[i] = kept[i]
    <3>1. i \in DOMAIN pending /\ kept[i] = pending[i]
      BY <2>1 DEF Retries
    <3>2. i \notin Sendable(h)
      BY <2>1 DEF Retries, Free
    <3>. QED
      BY <1>1, <2>1, <3>1, <3>2
  <2>2. CASE \E j \in Sendable(h) : ids[j] = i
    BY <1>2, <2>2
  <2>. QED
    BY <2>1, <2>2 DEF Retries, Resent
<1>5. \A m \in net' :
        \/ m \in net /\ m.id \in 1 .. last /\ m.id \notin Sendable(h)
        \/ \E j \in Sendable(h) : m = [id |-> ids[j], req |-> h[j]]
  BY <1>1 DEF Retries, Resent, Free
<1>6. /\ DOMAIN flood' \subseteq DOMAIN flood
      /\ \A i \in DOMAIN flood' : flood'[i] = flood[i] /\ i \in 1 .. last /\ i \notin Sendable(h)
  BY <1>1, EmptyFact DEF Retries, Free
<1>7. /\ DOMAIN migration' \subseteq DOMAIN migration
      /\ \A i \in DOMAIN migration' :
           migration'[i] = migration[i] /\ i \in 1 .. last /\ i \notin Sendable(h)
  BY <1>1, EmptyFact DEF Retries, Free
<1>. QED
  BY <1>1, <1>2, <1>3, <1>4, <1>5, <1>6, <1>7

-----------------------------------------------------------------------------
(***************************************************************************)
(* The wire: what is said about an id, and where the id is.                *)
(***************************************************************************)
\* What was heard stays heard.
LEMMA StillHeard ==
  ASSUME Listens
  PROVE  \A t \in out' : t \in out /\ (Heard(t) => Heard(t)')
BY DEF Listens, Heard

\* Sending again uses ids nobody has said anything about.
LEMMA RetriesWire ==
  ASSUME RInv, NEW h, NEW kept, NEW ids, Retries(h, kept, ids)
  PROVE  Wire'
<1>1. /\ last \in Nat /\ OneAnswer /\ Apart /\ HeldAnswered /\ Known
      /\ \A s \in out : s.id \in 1 .. last
      /\ \A t \in out' : t \in out /\ (Heard(t) => Heard(t)')
  BY TypedFacts, StillHeard DEF RInv, Wire, Retries
<1>2. OneAnswer'
  <2>1. ASSUME NEW m \in net', NEW n \in net', m.id = n.id
        PROVE  m = n
    BY <1>1, <2>1, RetriesFact DEF OneAnswer
  <2>2. \A m \in net', s \in out' : m.id # s.id
    BY <1>1, RetriesFact DEF OneAnswer
  <2>3. \A s, t \in out' : s.id = t.id \/ s.sid = t.sid => s = t
    BY <1>1 DEF OneAnswer
  <2>. QED
    BY <2>1, <2>2, <2>3 DEF OneAnswer
<1>3. Apart'
  <2>1. /\ \A i \in DOMAIN flood' : i \in DOMAIN flood /\ i \in 1 .. last
        /\ \A i \in DOMAIN migration' : i \in DOMAIN migration /\ i \in 1 .. last
        /\ \A i \in DOMAIN pending' : i \in DOMAIN pending \/ i \notin 1 .. last
    BY RetriesFact
  <2>. QED
    BY <1>1, <2>1 DEF Apart
<1>4. HeldAnswered'
  <2>1. /\ \A i \in DOMAIN flood' : i \in DOMAIN flood /\ flood'[i] = flood[i] /\ i \in 1 .. last
        /\ \A i \in DOMAIN migration' : i \in DOMAIN migration /\ i \in 1 .. last
        /\ \A m \in net' : m \in net \/ m.id \notin 1 .. last
    BY RetriesFact
  <2>. QED
    BY <1>1, <2>1 DEF HeldAnswered
<1>5. Known'
  <2>1. \A i \in DOMAIN pending' : i \in 1 .. last => i \in DOMAIN pending /\ pending'[i] = pending[i]
    BY RetriesFact
  <2>2. \A m \in net' : m.id \in DOMAIN pending' => pending'[m.id] = m.req
    BY <1>1, <2>1, RetriesFact DEF Known
  <2>3. \A s \in out' : s.id \in DOMAIN pending' => pending'[s.id] = s.req
    BY <1>1, <2>1 DEF Known
  <2>. QED
    BY <2>2, <2>3 DEF Known
<1>. QED
  BY <1>2, <1>3, <1>4, <1>5 DEF Wire

\* So does a new request.
LEMMA SendsWire ==
  ASSUME RInv, NEW r, NEW id, Sends(r, id)
  PROVE  Wire'
<1>1. /\ last \in Nat /\ OneAnswer /\ Apart /\ HeldAnswered /\ Known
      /\ (\A s \in out : s.id \in 1 .. last) /\ (\A m \in net : m.id \in 1 .. last)
      /\ \A t \in out' : t \in out /\ (Heard(t) => Heard(t)')
      /\ flood' = flood /\ migration' = migration
  BY TypedFacts, StillHeard DEF RInv, Wire, Sends
<1>0. /\ last' = id /\ id \notin 1 .. last
      /\ DOMAIN pending' = DOMAIN pending \cup {id} /\ pending'[id] = r
      /\ \A i \in DOMAIN pending : i \in 1 .. last /\ pending'[i] = pending[i]
      /\ \A m \in net' : m \in net \/ m = [id |-> id, req |-> r]
      /\ \A i \in DOMAIN flood \cup DOMAIN migration : i \in 1 .. last
  BY SendsFact
<1>2. OneAnswer'
  <2>1. ASSUME NEW m \in net', NEW n \in net', m.id = n.id
        PROVE  m = n
    BY <1>0, <1>1, <2>1 DEF OneAnswer
  <2>2. \A m \in net', s \in out' : m.id # s.id
    BY <1>0, <1>1 DEF OneAnswer
  <2>3. \A s, t \in out' : s.id = t.id \/ s.sid = t.sid => s = t
    BY <1>1 DEF OneAnswer
  <2>. QED
    BY <2>1, <2>2, <2>3 DEF OneAnswer
<1>3. Apart'
  <2>1. \A i \in DOMAIN flood \cup DOMAIN migration : i # id
    BY <1>0
  <2>2. DOMAIN pending' = DOMAIN pending \cup {id}
    BY <1>0
  <2>. QED
    BY <1>1, <2>1, <2>2 DEF Apart
<1>4. HeldAnswered'
  <2>1. \A i \in DOMAIN flood \cup DOMAIN migration : \A m \in net' : m.id # i
    BY <1>0, <1>1 DEF HeldAnswered
  <2>. QED
    BY <1>1, <2>1 DEF HeldAnswered
<1>5. Known'
  <2>1. \A m \in net' : m.id \in DOMAIN pending' => pending'[m.id] = m.req
    BY <1>0, <1>1 DEF Known
  <2>2. \A s \in out' : s.id \in DOMAIN pending' => pending'[s.id] = s.req
    BY <1>0, <1>1 DEF Known
  <2>. QED
    BY <2>1, <2>2 DEF Known
<1>. QED
  BY <1>2, <1>3, <1>4, <1>5 DEF Wire

\* The server answers an id once.
LEMMA ServesWire ==
  ASSUME RInv, NEW m, NEW s, Serves(m, s)
  PROVE  Wire'
<1>1. /\ OneAnswer /\ Apart /\ HeldAnswered /\ Known
      /\ flood' = flood /\ migration' = migration /\ pending' = pending
      /\ \A t \in out : Heard(t) => Heard(t)'
  BY DEF RInv, Wire, Serves, Heard
<1>2. /\ m \in net /\ net' = net \ {m} /\ out' = out \cup {s} /\ s.id = m.id /\ s.req = m.req
      /\ \A t \in out : t.sid # s.sid /\ t.id # s.id
      /\ \A n \in net' : n.id # s.id
      /\ \A i \in DOMAIN flood \cup DOMAIN migration : i # s.id
  BY ServesFact
<1>3. OneAnswer'
  <2>1. \A n, k \in net' : n.id = k.id => n = k
    BY <1>1, <1>2 DEF OneAnswer
  <2>2. \A n \in net', t \in out' : n.id # t.id
    BY <1>1, <1>2 DEF OneAnswer
  <2>3. \A t, u \in out' : t.id = u.id \/ t.sid = u.sid => t = u
    BY <1>1, <1>2 DEF OneAnswer
  <2>. QED
    BY <2>1, <2>2, <2>3 DEF OneAnswer
<1>4. Apart'
  BY <1>1 DEF Apart
<1>5. HeldAnswered'
  BY <1>1, <1>2 DEF HeldAnswered
<1>6. Known'
  BY <1>1, <1>2 DEF Known
<1>. QED
  BY <1>3, <1>4, <1>5, <1>6 DEF Wire

\* What is taken out leaves the rest as it was.
LEMMA ForgetsWire ==
  ASSUME RInv, Forgets
  PROVE  Wire'
<1>1. /\ OneAnswer /\ Apart /\ HeldAnswered /\ Known
      /\ flood' = flood /\ migration' = migration /\ net' \subseteq net
      /\ \A t \in out' : t \in out /\ (Heard(t) => Heard(t)')
      /\ \A i \in DOMAIN pending' : i \in DOMAIN pending /\ pending'[i] = pending[i]
  BY StillHeard DEF RInv, Wire, Forgets
<1>2. OneAnswer' /\ Apart' /\ Known'
  BY <1>1 DEF OneAnswer, Apart, Known
<1>3. HeldAnswered'
  BY <1>1 DEF HeldAnswered
<1>. QED
  BY <1>2, <1>3 DEF Wire

\* A request is held under the id its refusal, now heard, was about.
LEMMA HoldsWire ==
  ASSUME RInv, NEW s, Holds(s)
  PROVE  Wire'
<1>1. /\ OneAnswer /\ Apart /\ HeldAnswered /\ Known /\ net' \subseteq net
      /\ \A t \in out' : t \in out /\ (Heard(t) => Heard(t)')
  BY StillHeard DEF RInv, Wire, Holds
<1>2. /\ s.id \notin DOMAIN flood /\ s.id \notin DOMAIN migration
      /\ DOMAIN pending' = DOMAIN pending \ {s.id}
      /\ \A i \in DOMAIN pending' : pending'[i] = pending[i]
      /\ DOMAIN flood' \subseteq DOMAIN flood \cup {s.id}
      /\ DOMAIN migration' \subseteq DOMAIN migration \cup {s.id}
      /\ \A i \in DOMAIN flood : flood'[i] = flood[i]
      /\ s.id \in DOMAIN flood' => /\ s.id \notin DOMAIN migration'
                                   /\ flood'[s.id] = At(pending, s.id)
      /\ \A m \in net : m.id # s.id
      /\ \A t \in out : t.id = s.id => t = s
  BY HoldsFact
<1>3. /\ s.id \in DOMAIN flood' => s.kind = "flood" /\ (At(pending, s.id) # None => Heard(s)')
      /\ s.id \in DOMAIN migration' => out' = {}
  BY <1>2 DEF Holds
<1>4. OneAnswer' /\ Known'
  BY <1>1, <1>2 DEF OneAnswer, Known
<1>5. Apart'
  BY <1>1, <1>2 DEF Apart
<1>6. HeldAnswered'
  <2>1. ASSUME NEW i \in DOMAIN flood'
        PROVE  /\ \A m \in net' : m.id # i
               /\ \A t \in out' : t.id = i => t.kind = "flood" /\ (flood'[i] # None => Heard(t)')
    <3>1. CASE i = s.id
      BY <1>1, <1>2, <1>3, <3>1
    <3>2. CASE i \in DOMAIN flood
      BY <1>1, <1>2, <3>2 DEF HeldAnswered
    <3>. QED
      BY <1>2, <3>1, <3>2
  <2>2. ASSUME NEW i \in DOMAIN migration'
        PROVE  (\A m \in net' : m.id # i) /\ (\A t \in out' : t.id # i)
    <3>1. CASE i = s.id
      BY <1>1, <1>2, <1>3, <3>1
    <3>2. CASE i \in DOMAIN migration
      BY <1>1, <3>2 DEF HeldAnswered
    <3>. QED
      BY <1>2, <3>1, <3>2
  <2>. QED
    BY <2>1, <2>2 DEF HeldAnswered
<1>. QED
  BY <1>4, <1>5, <1>6 DEF Wire

\* What is held no longer leaves its id, about which nothing else is said.
LEMMA ErasesWire ==
  ASSUME RInv, NEW s, Erases(s)
  PROVE  Wire'
<1>1. /\ OneAnswer /\ Apart /\ HeldAnswered /\ Known
      /\ migration' = migration /\ net' \subseteq net
      /\ \A t \in out' : t \in out /\ (Heard(t) => Heard(t)')
      /\ \A i \in DOMAIN pending' : i \in DOMAIN pending /\ pending'[i] = pending[i]
  BY StillHeard DEF RInv, Wire, Erases
<1>2. /\ DOMAIN flood' = DOMAIN flood /\ flood'[s.id] = None
      /\ \A i \in DOMAIN flood : i # s.id => flood'[i] = flood[i]
  BY ErasesFact
<1>3. OneAnswer' /\ Apart' /\ Known'
  BY <1>1, <1>2 DEF OneAnswer, Apart, Known
<1>4. HeldAnswered'
  BY <1>1, <1>2 DEF HeldAnswered
<1>. QED
  BY <1>3, <1>4 DEF Wire

-----------------------------------------------------------------------------
(***************************************************************************)
(* Who waits for what.                                                     *)
(***************************************************************************)
\* Whoever follows changes of id waits for i, if x is a packet of its own.
Waits(x, i) ==
  /\ x \in Reqs \ Proofs => awaits[x] = i
  /\ x = Check(checks) => authCheck = i

\* The hashes and the replies are about ids that are waited for.
LEMMA WaitsFact ==
  /\ Followed <=> /\ \A i \in DOMAIN pending : Waits(pending[i], i)
                  /\ \A i \in DOMAIN flood : Waits(flood[i], i)
                  /\ \A i \in DOMAIN migration : Waits(migration[i], i)
  /\ RepliesFindTheirIssuer <=> /\ \A m \in net : Waits(m.req, m.id)
                                /\ \A s \in out : s.kind = "result" => Waits(s.req, s.id)
<1>1. Followed <=> /\ \A i \in DOMAIN pending : Waits(pending[i], i)
                   /\ \A i \in DOMAIN flood : Waits(flood[i], i)
                   /\ \A i \in DOMAIN migration : Waits(migration[i], i)
  BY DEF Followed, Follows, Waits
<1>2. RepliesFindTheirIssuer <=> /\ \A m \in net : Waits(m.req, m.id)
                                 /\ \A s \in out : s.kind = "result" => Waits(s.req, s.id)
  BY DEF RepliesFindTheirIssuer, Waits
<1>. QED
  BY <1>1, <1>2

\* The same of the next state.
LEMMA WaitsNext ==
  ASSUME /\ \A i \in DOMAIN pending' : Waits(pending[i], i)'
         /\ \A i \in DOMAIN flood' : Waits(flood[i], i)'
         /\ \A i \in DOMAIN migration' : Waits(migration[i], i)'
         /\ \A m \in net' : Waits(m.req, m.id)'
         /\ \A s \in out' : s.kind = "result" => Waits(s.req, s.id)'
  PROVE  Followed' /\ RepliesFindTheirIssuer'
<1>1. Followed'
  BY DEF Followed, Follows, Waits
<1>2. RepliesFindTheirIssuer'
  BY DEF RepliesFindTheirIssuer, Waits
<1>. QED
  BY <1>1, <1>2

\* A change of id reaches whoever waits for the old one.
LEMMA RenamedWaits ==
  ASSUME RInv, NEW ids, BroadcastMessageChange(ids), checks' = checks,
         NEW x, NEW i, Waits(x, i), NEW k, Renamed(ids, i) = k
  PROVE  Waits(x, k)'
<1>1. /\ awaits' = [r \in Reqs |-> IF r \in Proofs THEN awaits[r] ELSE Renamed(ids, awaits[r])]
      /\ authCheck' = Renamed(ids, authCheck)
  BY DEF BroadcastMessageChange, HandleMessageChanged
<1>. QED
  BY <1>1 DEF Waits

\* Requests sent again are followed.
LEMMA RetriesFollowed ==
  ASSUME RInv, NEW h, NEW kept, NEW ids, Retries(h, kept, ids)
  PROVE  Followed' /\ RepliesFindTheirIssuer'
<1>1. /\ \A i \in DOMAIN pending : Waits(pending[i], i)
      /\ \A i \in DOMAIN flood : Waits(flood[i], i)
      /\ \A i \in DOMAIN migration : Waits(migration[i], i)
      /\ \A m \in net : Waits(m.req, m.id)
      /\ \A s \in out : s.kind = "result" => Waits(s.req, s.id)
  BY WaitsFact DEF RInv
<1>2. \A j \in Sendable(h) : Waits(h[j], j)
  BY DEF Retries, Follows, Waits, Sendable
<1>3. /\ \A i : i \notin Sendable(h) => Renamed(ids, i) = i
      /\ \A j \in Sendable(h) : Renamed(ids, j) = ids[j]
  BY DEF Retries, Resent, Renamed
<1>4. ASSUME NEW x, NEW i, i \notin Sendable(h), Waits(x, i)
      PROVE  Waits(x, i)'
  BY <1>3, <1>4, RenamedWaits DEF Retries
<1>5. ASSUME NEW j \in Sendable(h)
      PROVE  Waits(h[j], ids[j])'
  <2>1. Waits(h[j], j) /\ Renamed(ids, j) = ids[j]
    BY <1>2, <1>3
  <2>. QED
    BY <2>1, RenamedWaits DEF Retries
<1>6. ASSUME NEW i \in DOMAIN pending'
      PROVE  Waits(pending[i], i)'
  <2>1. CASE i \in DOMAIN pending /\ i \notin Sendable(h) /\ pending'[i] = pending[i]
    <3>1. Waits(pending[i], i)
      BY <1>1, <2>1
    <3>2. \A x : Waits(x, i) => Waits(x, i)'
      BY <1>4, <2>1
    <3>. QED
      BY <2>1, <3>1, <3>2 DEF Waits
  <2>2. CASE \E j \in Sendable(h) : ids[j] = i /\ pending'[i] = h[j]
    <3>1. PICK j \in Sendable(h) : ids[j] = i /\ pending'[i] = h[j]
      BY <2>2
    <3>2. Waits(h[j], ids[j])'
      BY <1>5
    <3>. QED
      BY <3>1, <3>2 DEF Waits
  <2>. QED
    BY <2>1, <2>2, RetriesFact
<1>7. \A i \in DOMAIN flood' : Waits(flood[i], i)'
  <2>1. ASSUME NEW i \in DOMAIN flood'
        PROVE  Waits(flood[i], i)'
    <3>1. i \in DOMAIN flood /\ flood'[i] = flood[i] /\ i \notin Sendable(h)
      BY RetriesFact
    <3>2. \A x : Waits(x, i) => Waits(x, i)'
      BY <1>4, <3>1
    <3>. QED
      BY <1>1, <3>1, <3>2 DEF Waits
  <2>. QED
    BY <2>1
<1>8. \A i \in DOMAIN migration' : Waits(migration[i], i)'
  <2>1. ASSUME NEW i \in DOMAIN migration'
        PROVE  Waits(migration[i], i)'
    <3>1. i \in DOMAIN migration /\ migration'[i] = migration[i] /\ i \notin Sendable(h)
      BY RetriesFact
    <3>2. \A x : Waits(x, i) => Waits(x, i)'
      BY <1>4, <3>1
    <3>. QED
      BY <1>1, <3>1, <3>2 DEF Waits
  <2>. QED
    BY <2>1
<1>9. ASSUME NEW m \in net'
      PROVE  Waits(m.req, m.id)'
  <2>1. CASE m \in net /\ m.id \notin Sendable(h)
    BY <1>1, <1>4, <2>1
  <2>2. CASE \E j \in Sendable(h) : m = [id |-> ids[j], req |-> h[j]]
    BY <1>5, <2>2
  <2>. QED
    BY <2>1, <2>2, RetriesFact
<1>10. ASSUME NEW s \in out', s.kind = "result"
       PROVE  Waits(s.req, s.id)'
  <2>1. s \in out /\ s.id \notin Sendable(h)
    BY <1>10, StillHeard DEF Retries, Free
  <2>. QED
    BY <1>1, <1>4, <1>10, <2>1
<1>. QED
  BY <1>6, <1>7, <1>8, <1>9, <1>10, WaitsNext

\* A new request, or a new check, changes nothing for the others.
LEMMA SendsWaits ==
  ASSUME RInv, NEW r, NEW id, Sends(r, id)
  PROVE  /\ Waits(r, id)'
         /\ \A x \in Packets \cup {None}, i \in 1 .. last : Waits(x, i) => Waits(x, i)'
<1>1. /\ awaits \in [Reqs -> 0 .. last] /\ checks \in Nat /\ last \in Nat
      /\ id = last + 1
  BY TypedFacts DEF RInv, Sends
<1>2. CASE /\ r \in Reqs /\ awaits[r] = 0 /\ awaits' = [awaits EXCEPT ![r] = id]
           /\ authCheck' = authCheck /\ checks' = checks
  <2>1. /\ awaits'[r] = id
        /\ \A x \in Reqs : x # r => awaits'[x] = awaits[x]
    BY <1>1, <1>2
  <2>2. r # Check(checks)
    BY <1>1, <1>2, PacketsApart
  <2>3. Waits(r, id)'
    BY <1>2, <2>1, <2>2 DEF Waits
  <2>4. ASSUME NEW x, NEW i \in 1 .. last, Waits(x, i)
        PROVE  Waits(x, i)'
    BY <1>1, <1>2, <2>1, <2>4 DEF Waits
  <2>. QED
    BY <2>3, <2>4
<1>3. CASE r = Check(checks + 1) /\ checks' = checks + 1 /\ authCheck' = id /\ awaits' = awaits
  <2>1. r \notin Reqs /\ checks + 1 \in Nat
    BY <1>1, <1>3, PacketsApart
  <2>2. \A x \in Packets \cup {None} : x # Check(checks + 1)
    <3>1. \A n \in 1 .. checks : Check(n) # Check(checks + 1)
      BY <1>1, PacketsApart
    <3>. QED
      BY <2>1, <1>3, <3>1, PacketsApart DEF Packets
  <2>3. Waits(r, id)'
    BY <1>3, <2>1 DEF Waits
  <2>4. ASSUME NEW x \in Packets \cup {None}, NEW i \in 1 .. last, Waits(x, i)
        PROVE  Waits(x, i)'
    BY <1>3, <2>2, <2>4 DEF Waits
  <2>. QED
    BY <2>3, <2>4
<1>. QED
  BY <1>2, <1>3 DEF Sends

\* So a new request is followed, and the others still are.
LEMMA SendsFollowed ==
  ASSUME RInv, NEW r, NEW id, Sends(r, id)
  PROVE  Followed' /\ RepliesFindTheirIssuer'
<1>1. /\ \A i \in DOMAIN pending : Waits(pending[i], i)
      /\ \A i \in DOMAIN flood : Waits(flood[i], i)
      /\ \A i \in DOMAIN migration : Waits(migration[i], i)
      /\ \A m \in net : Waits(m.req, m.id)
      /\ \A s \in out : s.kind = "result" => Waits(s.req, s.id)
  BY WaitsFact DEF RInv
<1>2. /\ Waits(r, id)'
      /\ \A x \in Packets \cup {None}, i \in 1 .. last : Waits(x, i) => Waits(x, i)'
  BY SendsWaits
<1>3. /\ DOMAIN pending' = DOMAIN pending \cup {id} /\ pending'[id] = r
      /\ \A i \in DOMAIN pending : i \in 1 .. last /\ pending'[i] = pending[i]
      /\ \A m \in net' : m \in net \/ m = [id |-> id, req |-> r]
      /\ flood' = flood /\ migration' = migration
      /\ \A s \in out' : s \in out
  BY SendsFact, StillHeard DEF Sends
<1>4. /\ \A i \in DOMAIN pending : pending[i] \in Packets \cup {None}
      /\ \A i \in DOMAIN flood : i \in 1 .. last /\ flood[i] \in Packets \cup {None}
      /\ \A i \in DOMAIN migration : i \in 1 .. last /\ migration[i] \in Packets \cup {None}
      /\ \A m \in net : m.id \in 1 .. last /\ m.req \in Packets
      /\ \A s \in out : s.id \in 1 .. last /\ s.req \in Packets
  BY TypedFacts, HashFact DEF RInv
<1>5. ASSUME NEW i \in DOMAIN pending'
      PROVE  Waits(pending[i], i)'
  <2>1. CASE i = id
    BY <1>2, <1>3, <2>1 DEF Waits
  <2>2. CASE i \in DOMAIN pending
    <3>1. Waits(pending[i], i)'
      BY <1>1, <1>2, <1>3, <1>4, <2>2 DEF Waits
    <3>. QED
      BY <1>3, <2>2, <3>1 DEF Waits
  <2>. QED
    BY <1>3, <2>1, <2>2
<1>6. \A i \in DOMAIN flood' : Waits(flood[i], i)'
  BY <1>1, <1>2, <1>3, <1>4 DEF Waits
<1>7. \A i \in DOMAIN migration' : Waits(migration[i], i)'
  BY <1>1, <1>2, <1>3, <1>4 DEF Waits
<1>8. \A m \in net' : Waits(m.req, m.id)'
  BY <1>1, <1>2, <1>3, <1>4 DEF Waits
<1>9. \A s \in out' : s.kind = "result" => Waits(s.req, s.id)'
  BY <1>1, <1>2, <1>3, <1>4 DEF Waits
<1>. QED
  BY <1>5, <1>6, <1>7, <1>8, <1>9, WaitsNext

\* The other steps give nothing a new id.
LEMMA QuietFollowed ==
  ASSUME RInv, Forgets \/ (\E s : Holds(s)) \/ (\E s : Erases(s)) \/ (\E m, s : Serves(m, s))
  PROVE  Followed' /\ RepliesFindTheirIssuer'
<1>1. /\ \A i \in DOMAIN pending : Waits(pending[i], i)
      /\ \A i \in DOMAIN flood : Waits(flood[i], i)
      /\ \A i \in DOMAIN migration : Waits(migration[i], i)
      /\ \A m \in net : Waits(m.req, m.id)
      /\ \A s \in out : s.kind = "result" => Waits(s.req, s.id)
  BY WaitsFact DEF RInv
<1>2. Quiet
  BY DEF Forgets, Holds, Erases, Serves
<1>3. \A x, i : Waits(x, i) => Waits(x, i)'
  BY <1>2 DEF Quiet, Waits
<1>4. Waits(None, 0) /\ \A i : Waits(None, i)
  <2>1. checks \in Nat
    BY TypedFacts DEF RInv
  <2>. QED
    BY <2>1, PacketsApart DEF Waits
<1>5. CASE Forgets
  <2>1. /\ \A i \in DOMAIN pending' : i \in DOMAIN pending /\ pending'[i] = pending[i]
        /\ flood' = flood /\ migration' = migration /\ net' \subseteq net
        /\ \A s \in out' : s \in out
    BY <1>5, StillHeard DEF Forgets
  <2>2. \A i \in DOMAIN pending' : Waits(pending[i], i)'
    BY <1>1, <1>2, <2>1 DEF Waits, Quiet
  <2>3. \A i \in DOMAIN flood' : Waits(flood[i], i)'
    BY <1>1, <1>2, <2>1 DEF Waits, Quiet
  <2>4. \A i \in DOMAIN migration' : Waits(migration[i], i)'
    BY <1>1, <1>2, <2>1 DEF Waits, Quiet
  <2>5. \A m \in net' : Waits(m.req, m.id)'
    BY <1>1, <1>3, <2>1
  <2>6. \A s \in out' : s.kind = "result" => Waits(s.req, s.id)'
    BY <1>1, <1>3, <2>1
  <2>. QED
    BY <2>2, <2>3, <2>4, <2>5, <2>6, WaitsNext
<1>6. ASSUME NEW m, NEW s, Serves(m, s)
      PROVE  Followed' /\ RepliesFindTheirIssuer'
  <2>1. /\ pending' = pending /\ flood' = flood /\ migration' = migration /\ net' \subseteq net
        /\ m \in net /\ s.id = m.id /\ s.req = m.req /\ out' = out \cup {s}
    BY <1>6, ServesFact DEF Serves
  <2>2. \A i \in DOMAIN pending' : Waits(pending[i], i)'
    BY <1>1, <1>2, <2>1 DEF Waits, Quiet
  <2>3. \A i \in DOMAIN flood' : Waits(flood[i], i)'
    BY <1>1, <1>2, <2>1 DEF Waits, Quiet
  <2>4. \A i \in DOMAIN migration' : Waits(migration[i], i)'
    BY <1>1, <1>2, <2>1 DEF Waits, Quiet
  <2>5. \A n \in net' : Waits(n.req, n.id)'
    BY <1>1, <1>3, <2>1
  <2>6. Waits(s.req, s.id)'
    BY <1>1, <1>3, <2>1
  <2>7. \A t \in out' : t.kind = "result" => Waits(t.req, t.id)'
    BY <1>1, <1>3, <2>1, <2>6
  <2>. QED
    BY <2>2, <2>3, <2>4, <2>5, <2>7, WaitsNext
<1>7. ASSUME NEW s, Holds(s)
      PROVE  Followed' /\ RepliesFindTheirIssuer'
  <2>1. /\ DOMAIN pending' = DOMAIN pending \ {s.id}
        /\ \A i \in DOMAIN pending' : pending'[i] = pending[i]
        /\ DOMAIN flood' \subseteq DOMAIN flood \cup {s.id}
        /\ DOMAIN migration' \subseteq DOMAIN migration \cup {s.id}
        /\ \A i \in DOMAIN flood : flood'[i] = flood[i]
        /\ \A i \in DOMAIN migration : migration'[i] = migration[i]
        /\ s.id \in DOMAIN flood' => flood'[s.id] = At(pending, s.id)
        /\ s.id \in DOMAIN migration' => migration'[s.id] = At(pending, s.id)
    BY <1>7, HoldsFact
  <2>2. net' \subseteq net /\ \A t \in out' : t \in out
    BY <1>7, StillHeard DEF Holds
  <2>3. Waits(At(pending, s.id), s.id)
    BY <1>1, <1>4 DEF At
  <2>4. \A i \in DOMAIN pending' : Waits(pending[i], i)'
    BY <1>1, <1>2, <2>1 DEF Waits, Quiet
  <2>5. \A i \in DOMAIN flood' : Waits(flood[i], i)'
    BY <1>1, <1>2, <2>1, <2>3 DEF Waits, Quiet
  <2>6. \A i \in DOMAIN migration' : Waits(migration[i], i)'
    BY <1>1, <1>2, <2>1, <2>3 DEF Waits, Quiet
  <2>7. \A m \in net' : Waits(m.req, m.id)'
    BY <1>1, <1>3, <2>2
  <2>8. \A t \in out' : t.kind = "result" => Waits(t.req, t.id)'
    BY <1>1, <1>3, <2>2
  <2>. QED
    BY <2>4, <2>5, <2>6, <2>7, <2>8, WaitsNext
<1>8. ASSUME NEW s, Erases(s)
      PROVE  Followed' /\ RepliesFindTheirIssuer'
  <2>1. /\ DOMAIN flood' = DOMAIN flood /\ flood'[s.id] = None
        /\ \A i \in DOMAIN flood : i # s.id => flood'[i] = flood[i]
    BY <1>8, ErasesFact
  <2>2. /\ \A i \in DOMAIN pending' : i \in DOMAIN pending /\ pending'[i] = pending[i]
        /\ migration' = migration /\ net' \subseteq net /\ \A t \in out' : t \in out
    BY <1>8, StillHeard DEF Erases
  <2>3. \A i \in DOMAIN pending' : Waits(pending[i], i)'
    BY <1>1, <1>2, <2>2 DEF Waits, Quiet
  <2>4. \A i \in DOMAIN flood' : Waits(flood[i], i)'
    BY <1>1, <1>2, <1>4, <2>1 DEF Waits, Quiet
  <2>5. \A i \in DOMAIN migration' : Waits(migration[i], i)'
    BY <1>1, <1>2, <2>2 DEF Waits, Quiet
  <2>6. \A m \in net' : Waits(m.req, m.id)'
    BY <1>1, <1>3, <2>2
  <2>7. \A t \in out' : t.kind = "result" => Waits(t.req, t.id)'
    BY <1>1, <1>3, <2>2
  <2>. QED
    BY <2>3, <2>4, <2>5, <2>6, <2>7, WaitsNext
<1>. QED
  BY <1>5, <1>6, <1>7, <1>8

-----------------------------------------------------------------------------
(***************************************************************************)
(* Proofs of a password.                                                   *)
(***************************************************************************)
\* A registered proof stays so while it is pending; it is not held.
LEMMA StaysRegistered ==
  ASSUME RInv, Shapes
  PROVE  Registered' /\ ProofHeldOnlyRenamed'
<1>1. /\ last \in Nat /\ awaits \in [Reqs -> 0 .. last] /\ Registered /\ ProofHeldOnlyRenamed
      /\ Proofs \subseteq Reqs /\ None \notin Proofs
      /\ \A i \in DOMAIN pending : i \in 1 .. last
      /\ \A i \in DOMAIN flood : i \in 1 .. last
  BY TypedFacts, HashFact, RequestsAssumption DEF RInv
<1>2. ASSUME NEW h, NEW kept, NEW ids, Retries(h, kept, ids)
      PROVE  Registered' /\ ProofHeldOnlyRenamed'
  <2>1. \A p \in Proofs : awaits'[p] = awaits[p]
    BY <1>1, <1>2 DEF Retries, BroadcastMessageChange, HandleMessageChanged
  <2>2. ASSUME NEW i \in DOMAIN pending', pending'[i] \in Proofs, i = awaits'[pending'[i]]
        PROVE  i \in noReplay'
    <3>1. i = awaits[pending'[i]] /\ i \in 0 .. last
      BY <1>1, <2>1, <2>2
    <3>2. CASE i \in DOMAIN pending /\ i \in DOMAIN kept /\ pending'[i] = pending[i]
      BY <1>1, <1>2, <2>2, <3>1, <3>2 DEF Registered, Retries
    <3>3. CASE \E j \in Sendable(h) : ids[j] = i
      BY <1>1, <1>2, <3>1, <3>3, RetriesFact
    <3>. QED
      BY <1>2, <3>2, <3>3, RetriesFact
  <2>3. \A i \in DOMAIN flood' : i \in DOMAIN flood /\ flood'[i] = flood[i]
    BY <1>2, RetriesFact
  <2>4. Registered'
    BY <2>2 DEF Registered
  <2>5. ProofHeldOnlyRenamed'
    BY <1>1, <2>1, <2>3 DEF ProofHeldOnlyRenamed
  <2>. QED
    BY <2>4, <2>5
<1>3. ASSUME NEW r, NEW id, Sends(r, id)
      PROVE  Registered' /\ ProofHeldOnlyRenamed'
  <2>1. /\ id = last + 1 /\ id \notin 1 .. last
        /\ DOMAIN pending' = DOMAIN pending \cup {id} /\ pending'[id] = r
        /\ \A i \in DOMAIN pending : pending'[i] = pending[i]
        /\ flood' = flood
    BY <1>3, SendsFact DEF Sends
  <2>2. noReplay \subseteq noReplay'
    BY <1>3 DEF Sends, DoNotReplay
  <2>3. /\ r \in Proofs => id \in noReplay'
        /\ \A p \in Proofs : awaits'[p] = awaits[p] \/ awaits'[p] = id
    <3>1. CASE r \in Reqs /\ awaits' = [awaits EXCEPT ![r] = id] /\ DoNotReplay(r, id)
      BY <1>1, <3>1 DEF DoNotReplay
    <3>2. CASE r = Check(checks + 1) /\ awaits' = awaits
      <4>1. checks + 1 \in Nat
        BY TypedFacts DEF RInv
      <4>2. r \notin Reqs
        BY <3>2, <4>1, PacketsApart
      <4>. QED
        BY <1>1, <3>2, <4>2
    <3>. QED
      BY <1>3, <3>1, <3>2 DEF Sends
  <2>4. Registered'
    BY <1>1, <2>1, <2>2, <2>3 DEF Registered
  <2>5. ProofHeldOnlyRenamed'
    BY <1>1, <2>1, <2>3 DEF ProofHeldOnlyRenamed
  <2>. QED
    BY <2>4, <2>5
<1>4. ASSUME NEW m, NEW s, Serves(m, s)
      PROVE  Registered' /\ ProofHeldOnlyRenamed'
  BY <1>1, <1>4 DEF Serves, Quiet, Registered, ProofHeldOnlyRenamed
<1>5. CASE Forgets
  BY <1>1, <1>5 DEF Forgets, Quiet, Registered, ProofHeldOnlyRenamed
<1>6. ASSUME NEW s, Holds(s)
      PROVE  Registered' /\ ProofHeldOnlyRenamed'
  <2>1. awaits' = awaits /\ noReplay' = noReplay
    BY <1>6 DEF Holds, Quiet
  <2>2. /\ DOMAIN pending' = DOMAIN pending \ {s.id}
        /\ \A i \in DOMAIN pending' : pending'[i] = pending[i]
        /\ DOMAIN flood' \subseteq DOMAIN flood \cup {s.id}
        /\ \A i \in DOMAIN flood : flood'[i] = flood[i]
        /\ s.id \in DOMAIN flood' => flood'[s.id] = At(pending, s.id) /\ s.id \notin noReplay
    BY <1>6, HoldsFact
  <2>3. Registered'
    BY <1>1, <2>1, <2>2 DEF Registered
  <2>4. s.id \notin noReplay /\ At(pending, s.id) \in Proofs => s.id # awaits[At(pending, s.id)]
    BY <1>1 DEF Registered, At
  <2>5. ProofHeldOnlyRenamed'
    BY <1>1, <2>1, <2>2, <2>4 DEF ProofHeldOnlyRenamed
  <2>. QED
    BY <2>3, <2>5
<1>7. ASSUME NEW s, Erases(s)
      PROVE  Registered' /\ ProofHeldOnlyRenamed'
  <2>1. /\ DOMAIN flood' = DOMAIN flood /\ flood'[s.id] = None
        /\ \A i \in DOMAIN flood : i # s.id => flood'[i] = flood[i]
    BY <1>7, ErasesFact
  <2>2. /\ awaits' = awaits /\ noReplay' = noReplay
        /\ \A i \in DOMAIN pending' : i \in DOMAIN pending /\ pending'[i] = pending[i]
    BY <1>7 DEF Erases, Quiet
  <2>3. Registered'
    BY <1>1, <2>2 DEF Registered
  <2>4. ProofHeldOnlyRenamed'
    BY <1>1, <2>1, <2>2 DEF ProofHeldOnlyRenamed
  <2>. QED
    BY <2>3, <2>4
<1>. QED
  BY <1>2, <1>3, <1>4, <1>5, <1>6, <1>7 DEF Shapes

-----------------------------------------------------------------------------
(***************************************************************************)
(* What is owed.                                                           *)
(***************************************************************************)
\* A held request stays in its hash until it is sent again, or is displaced.
LEMMA StaysOwed ==
  ASSUME RInv, Shapes
  PROVE  Owed'
<1>. SUFFICES ASSUME NEW r \in owes'
     PROVE  \/ \E i \in DOMAIN flood' : flood'[i] = r
            \/ \E i \in DOMAIN migration' : migration'[i] = r
            \/ r \in displaced'
  BY DEF Owed, Held
<1>0. r \in owes => \/ \E i \in DOMAIN flood : flood[i] = r
                    \/ \E i \in DOMAIN migration : migration[i] = r
                    \/ r \in displaced
  BY DEF RInv, Owed, Held
<1>1. CASE Owing
  BY <1>0, <1>1 DEF Owing
<1>2. CASE \E s : Holds(s)
  <2>. PICK s : Holds(s)
    BY <1>2
  <2>1. /\ \A i \in DOMAIN flood : i \in DOMAIN flood' /\ flood'[i] = flood[i]
        /\ \A i \in DOMAIN migration : i \in DOMAIN migration' /\ migration'[i] = migration[i]
        /\ s.id \in DOMAIN flood' => flood'[s.id] = At(pending, s.id)
        /\ s.id \in DOMAIN migration' => migration'[s.id] = At(pending, s.id)
        /\ s.id \in DOMAIN flood' \/ s.id \in DOMAIN migration'
    BY HoldsFact
  <2>2. r \in owes \/ r = At(pending, s.id)
    BY DEF Holds
  <2>3. displaced \subseteq displaced'
    BY DEF Holds
  <2>. QED
    BY <1>0, <2>1, <2>2, <2>3
<1>3. CASE \E s : Erases(s)
  <2>. PICK s : Erases(s)
    BY <1>3
  <2>1. /\ s.id \in DOMAIN flood /\ DOMAIN flood' = DOMAIN flood /\ flood'[s.id] = None
        /\ \A i \in DOMAIN flood : i # s.id => flood'[i] = flood[i]
    BY ErasesFact
  <2>2. /\ owes' = owes /\ displaced \subseteq displaced' /\ migration' = migration
        /\ flood[s.id] = None \/ flood[s.id] \in displaced'
    BY DEF Erases
  <2>. QED
    BY <1>0, <2>1, <2>2
<1>. QED
  BY <1>1, <1>2, <1>3 DEF Shapes, Retries, Sends, Serves, Forgets

-----------------------------------------------------------------------------
(***************************************************************************)
(* A request is in one place.                                              *)
(***************************************************************************)
\* The ids of tokens.
LEMMA TokenId ==
  ASSUME Typed, NEW r, NEW i, Token(r, i)
  PROVE  i \in 1 .. last
BY TypedFacts, HashFact DEF Token

\* Sent again, a token is where it was, or under the new id of its entry.
LEMMA RetriesTokens ==
  ASSUME RInv, NEW h, NEW kept, NEW ids, Retries(h, kept, ids),
         NEW r \in Reqs, NEW i, Token(r, i)'
  PROVE  \/ Token(r, i) /\ i \notin Sendable(h)
         \/ \E j \in Sendable(h) : ids[j] = i /\ Token(r, j)
<1>1. CASE \E m \in net' : m.id = i /\ m.req = r
  <2>1. PICK m \in net' : m.id = i /\ m.req = r
    BY <1>1
  <2>2. CASE m \in net /\ m.id \notin Sendable(h)
    BY <2>1, <2>2 DEF Token
  <2>3. CASE \E j \in Sendable(h) : m = [id |-> ids[j], req |-> h[j]]
    <3>1. PICK j \in Sendable(h) : m = [id |-> ids[j], req |-> h[j]]
      BY <2>3
    <3>2. ids[j] = i /\ h[j] = r
      BY <2>1, <3>1
    <3>3. Token(h[j], j)
      BY <3>2 DEF Retries, Free
    <3>. QED
      BY <3>2, <3>3
  <2>. QED
    BY <2>2, <2>3, RetriesFact
<1>2. CASE \E s \in out' : s.id = i /\ s.req = r /\ s.kind # "result" /\ i \in DOMAIN pending'
  <2>1. PICK s \in out' : s.id = i /\ s.req = r /\ s.kind # "result" /\ i \in DOMAIN pending'
    BY <1>2
  <2>2. s \in out /\ s.id \in 1 .. last
    BY <2>1, StillHeard, TypedFacts DEF Retries, RInv
  <2>3. i \notin Sendable(h) /\ i \in DOMAIN pending
    BY <2>1, <2>2, RetriesFact
  <2>. QED
    BY <2>1, <2>2, <2>3 DEF Token
<1>3. CASE i \in DOMAIN flood' /\ flood'[i] = r
  <2>1. i \in DOMAIN flood /\ flood[i] = r /\ i \notin Sendable(h)
    BY <1>3, RetriesFact
  <2>. QED
    BY <2>1 DEF Token
<1>4. CASE i \in DOMAIN migration' /\ migration'[i] = r
  <2>1. i \in DOMAIN migration /\ migration[i] = r /\ i \notin Sendable(h)
    BY <1>4, RetriesFact
  <2>. QED
    BY <2>1 DEF Token
<1>. QED
  BY <1>1, <1>2, <1>3, <1>4 DEF Token

\* A new request is a new token; the others are where they were.
LEMMA SendsTokens ==
  ASSUME RInv, NEW r, NEW id, Sends(r, id), NEW x \in Reqs, NEW i, Token(x, i)'
  PROVE  Token(x, i) \/ (i = id /\ x = r)
<1>1. /\ \A m \in net' : m \in net \/ m = [id |-> id, req |-> r]
      /\ flood' = flood /\ migration' = migration
      /\ id \notin 1 .. last /\ DOMAIN pending' = DOMAIN pending \cup {id}
      /\ \A s \in out' : s \in out
  BY SendsFact, StillHeard DEF Sends
<1>2. \A s \in out : s.id \in 1 .. last
  BY TypedFacts DEF RInv
<1>. QED
  BY <1>1, <1>2 DEF Token

\* A refusal is a token in the place of the request it refuses; a reply is none.
LEMMA ServesTokens ==
  ASSUME RInv, NEW m, NEW s, Serves(m, s), NEW x \in Reqs, NEW i, Token(x, i)'
  PROVE  Token(x, i) /\ (s.kind = "result" => i # m.id)
<1>1. /\ m \in net /\ net' = net \ {m} /\ out' = out \cup {s} /\ s.id = m.id /\ s.req = m.req
      /\ \A t \in out : t.id # s.id
      /\ \A n \in net' : n.id # s.id
      /\ \A k \in DOMAIN flood \cup DOMAIN migration : k # s.id
  BY ServesFact
<1>2. flood' = flood /\ migration' = migration /\ pending' = pending
  BY DEF Serves
<1>3. CASE \E n \in net' : n.id = i /\ n.req = x
  BY <1>1, <1>3 DEF Token
<1>4. CASE \E t \in out' : t.id = i /\ t.req = x /\ t.kind # "result" /\ i \in DOMAIN pending'
  <2>1. PICK t \in out' : t.id = i /\ t.req = x /\ t.kind # "result" /\ i \in DOMAIN pending'
    BY <1>4
  <2>2. CASE t = s
    BY <1>1, <2>1, <2>2 DEF Token
  <2>3. CASE t \in out
    BY <1>1, <1>2, <2>1, <2>3 DEF Token
  <2>. QED
    BY <1>1, <2>2, <2>3
<1>5. CASE i \in DOMAIN flood' /\ flood'[i] = x
  BY <1>1, <1>2, <1>5 DEF Token
<1>6. CASE i \in DOMAIN migration' /\ migration'[i] = x
  BY <1>1, <1>2, <1>6 DEF Token
<1>. QED
  BY <1>3, <1>4, <1>5, <1>6 DEF Token

\* A refusal that is heard hands its token to the hash.
LEMMA HoldsTokens ==
  ASSUME RInv, NEW s, Holds(s), NEW x \in Reqs, NEW i, Token(x, i)'
  PROVE  Token(x, i)
<1>1. /\ DOMAIN flood' \subseteq DOMAIN flood \cup {s.id}
      /\ DOMAIN migration' \subseteq DOMAIN migration \cup {s.id}
      /\ \A k \in DOMAIN flood : flood'[k] = flood[k]
      /\ \A k \in DOMAIN migration : migration'[k] = migration[k]
      /\ s.id \in DOMAIN flood' => flood'[s.id] = At(pending, s.id)
      /\ s.id \in DOMAIN migration' => migration'[s.id] = At(pending, s.id)
      /\ At(pending, s.id) = s.req \/ At(pending, s.id) = None
  BY HoldsFact
<1>2. /\ s \in out /\ s.kind # "result" /\ net' \subseteq net
      /\ \A t \in out' : t \in out
      /\ \A k \in DOMAIN pending' : k \in DOMAIN pending
  BY StillHeard, HoldsFact DEF Holds
<1>3. x # None
  BY PacketsApart
<1>4. At(pending, s.id) = x => Token(x, s.id)
  BY <1>1, <1>2, <1>3 DEF Token, At
<1>. QED
  BY <1>1, <1>2, <1>3, <1>4 DEF Token

\* What is held no longer is no token.
LEMMA ErasesTokens ==
  ASSUME NEW s, Erases(s), NEW x \in Reqs, NEW i, Token(x, i)'
  PROVE  Token(x, i)
<1>1. /\ DOMAIN flood' = DOMAIN flood /\ flood'[s.id] = None
      /\ \A k \in DOMAIN flood : k # s.id => flood'[k] = flood[k]
  BY ErasesFact
<1>2. /\ net' \subseteq net /\ migration' = migration
      /\ \A t \in out' : t \in out
      /\ \A k \in DOMAIN pending' : k \in DOMAIN pending
  BY StillHeard DEF Erases
<1>. QED
  BY <1>1, <1>2, PacketsApart DEF Token

\* A taken answer moves no token.
LEMMA ForgetsTokens ==
  ASSUME Forgets, NEW x, NEW i, Token(x, i)'
  PROVE  Token(x, i)
<1>1. /\ net' \subseteq net /\ flood' = flood /\ migration' = migration
      /\ \A t \in out' : t \in out
      /\ \A k \in DOMAIN pending' : k \in DOMAIN pending
  BY StillHeard DEF Forgets
<1>. QED
  BY <1>1 DEF Token

\* No request is in two places, and none is sent again after it was carried out.
LEMMA StaysOnce ==
  ASSUME RInv, Typed', Orderly, Shapes
  PROVE  Once' /\ AtMostOnce'
<1>1. /\ last \in Nat /\ awaits \in [Reqs -> 0 .. last] /\ executed \in [Reqs -> Nat]
      /\ Typed /\ Once /\ AtMostOnce
  BY TypedFacts DEF RInv
<1>2. \A r \in Reqs : \A i : Token(r, i) => executed[r] = 0 /\ awaits[r] # 0
  BY <1>1, TokenId DEF Once
<1>3. \A r \in Reqs : \A i, j : Token(r, i) /\ Token(r, j) => i = j
  BY <1>1, TokenId DEF Once
<1>4. SUFFICES ASSUME NEW r \in Reqs
      PROVE  /\ \A i, j : Token(r, i)' /\ Token(r, j)' => i = j
             /\ \A i : Token(r, i)' => executed'[r] = 0 /\ awaits'[r] # 0
             /\ awaits'[r] = 0 => executed'[r] = 0
             /\ executed'[r] <= 1
  <2>1. Once'
    BY <1>4 DEF Once
  <2>2. AtMostOnce'
    BY <1>4 DEF AtMostOnce
  <2>. QED
    BY <2>1, <2>2
<1>5. executed[r] <= 1 /\ (awaits[r] = 0 => executed[r] = 0)
  BY <1>1 DEF Once, AtMostOnce
<1>6. ASSUME NEW h, NEW kept, NEW ids, Retries(h, kept, ids)
      PROVE  /\ \A i, j : Token(r, i)' /\ Token(r, j)' => i = j
             /\ \A i : Token(r, i)' => executed'[r] = 0 /\ awaits'[r] # 0
             /\ awaits'[r] = 0 => executed'[r] = 0
             /\ executed'[r] <= 1
  <2>1. \A i : Token(r, i)' => \/ Token(r, i) /\ i \notin Sendable(h)
                              \/ \E j \in Sendable(h) : ids[j] = i /\ Token(r, j)
    BY <1>6, RetriesTokens
  <2>2. executed' = executed
    BY <1>6 DEF Retries
  <2>3. awaits'[r] = 0 => awaits[r] = 0
    <3>1. awaits'[r] = IF r \in Proofs THEN awaits[r] ELSE Renamed(ids, awaits[r])
      BY <1>6 DEF Retries, BroadcastMessageChange, HandleMessageChanged
    <3>2. \A j \in Sendable(h) : ids[j] # 0
      BY <1>6, <1>1, RetriesFact
    <3>3. DOMAIN ids = Sendable(h)
      BY <1>6 DEF Retries, Resent
    <3>. QED
      BY <3>1, <3>2, <3>3 DEF Renamed
  <2>4. \A i, j : Token(r, i)' /\ Token(r, j)' => i = j
    BY <1>3, <2>1
  <2>. QED
    BY <1>2, <1>5, <2>1, <2>2, <2>3, <2>4
<1>7. ASSUME NEW x, NEW id, Sends(x, id)
      PROVE  /\ \A i, j : Token(r, i)' /\ Token(r, j)' => i = j
             /\ \A i : Token(r, i)' => executed'[r] = 0 /\ awaits'[r] # 0
             /\ awaits'[r] = 0 => executed'[r] = 0
             /\ executed'[r] <= 1
  <2>1. \A i : Token(r, i)' => Token(r, i) \/ (i = id /\ r = x)
    BY <1>7, SendsTokens
  <2>2. executed' = executed /\ id = last + 1
    BY <1>7 DEF Sends
  <2>3. CASE r = x
    <3>1. awaits[r] = 0 /\ awaits' = [awaits EXCEPT ![r] = id]
      <4>1. checks + 1 \in Nat
        BY <1>1, TypedFacts
      <4>2. r # Check(checks + 1)
        BY <4>1, PacketsApart
      <4>. QED
        BY <1>7, <2>3, <4>2 DEF Sends
    <3>2. \A i : ~Token(r, i)
      BY <1>2, <3>1
    <3>3. executed[r] = 0 /\ awaits'[r] # 0
      BY <1>1, <1>5, <2>2, <3>1
    <3>. QED
      BY <1>5, <2>1, <2>2, <3>2, <3>3
  <2>4. CASE r # x
    <3>1. awaits'[r] = awaits[r]
      BY <1>1, <1>7, <2>4 DEF Sends
    <3>. QED
      BY <1>2, <1>3, <1>5, <2>1, <2>2, <2>4, <3>1
  <2>. QED
    BY <2>3, <2>4
<1>8. ASSUME NEW m, NEW s, Serves(m, s)
      PROVE  /\ \A i, j : Token(r, i)' /\ Token(r, j)' => i = j
             /\ \A i : Token(r, i)' => executed'[r] = 0 /\ awaits'[r] # 0
             /\ awaits'[r] = 0 => executed'[r] = 0
             /\ executed'[r] <= 1
  <2>1. \A i : Token(r, i)' => Token(r, i) /\ (s.kind = "result" => i # m.id)
    BY <1>8, ServesTokens
  <2>2. awaits' = awaits /\ m \in net
    BY <1>8 DEF Serves, Quiet
  <2>3. CASE s.kind = "result" /\ m.req = r
    <3>1. Token(r, m.id)
      BY <2>2, <2>3 DEF Token
    <3>2. executed[r] = 0 /\ awaits[r] # 0
      BY <1>2, <3>1
    <3>3. executed'[r] = 1
      BY <1>1, <1>8, <2>3, <3>2 DEF Serves
    <3>4. \A i : ~Token(r, i)'
      BY <1>3, <2>1, <2>3, <3>1
    <3>. QED
      BY <2>2, <3>2, <3>3, <3>4
  <2>4. CASE ~(s.kind = "result" /\ m.req = r)
    <3>1. executed'[r] = executed[r]
      BY <1>1, <1>8, <2>4 DEF Serves
    <3>. QED
      BY <1>2, <1>3, <1>5, <2>1, <2>2, <3>1
  <2>. QED
    BY <2>3, <2>4
<1>9. ASSUME Forgets \/ (\E s : Holds(s)) \/ (\E s : Erases(s))
      PROVE  /\ \A i, j : Token(r, i)' /\ Token(r, j)' => i = j
             /\ \A i : Token(r, i)' => executed'[r] = 0 /\ awaits'[r] # 0
             /\ awaits'[r] = 0 => executed'[r] = 0
             /\ executed'[r] <= 1
  <2>1. \A i : Token(r, i)' => Token(r, i)
    BY <1>9, ForgetsTokens, HoldsTokens, ErasesTokens
  <2>2. executed' = executed /\ awaits' = awaits
    BY <1>9 DEF Forgets, Holds, Erases, Quiet
  <2>. QED
    BY <1>2, <1>3, <1>5, <2>1, <2>2
<1>. QED
  BY <1>6, <1>7, <1>8, <1>9 DEF Shapes

-----------------------------------------------------------------------------
(***************************************************************************)
(* The theorems.                                                           *)
(***************************************************************************)
\* The client starts with nothing pending and nothing held.
LEMMA InitRInv ==
  ASSUME Init
  PROVE  RInv
<1>1. /\ last = 0 /\ pending = Empty /\ flood = Empty /\ migration = Empty /\ noReplay = {}
      /\ authCheck = 0 /\ awaits = [r \in Reqs |-> 0] /\ seen = <<>> /\ net = {} /\ out = {}
      /\ sent = 0 /\ recent = <<>> /\ faults = 0 /\ checks = 0
      /\ executed = [r \in Reqs |-> 0] /\ owes = {} /\ DOMAIN Empty = {}
      /\ link = "down" /\ user \in BOOLEAN
  BY EmptyFact DEF Init
<1>2. seen \in Seq(1 .. sent) /\ Len(seen) <= Ring
  BY <1>1, RequestsAssumption
<1>3. awaits \in [Reqs -> 0 .. last] /\ executed \in [Reqs -> Nat]
  BY <1>1
<1>4. Typed
  BY <1>1, <1>2, <1>3 DEF Typed, RequestsTypeOK, Hash
<1>5. Wire
  BY <1>1 DEF Wire, OneAnswer, Apart, HeldAnswered, Known
<1>6. Followed /\ RepliesFindTheirIssuer /\ Registered /\ ProofHeldOnlyRenamed
  BY <1>1 DEF Followed, Follows, RepliesFindTheirIssuer, Registered, ProofHeldOnlyRenamed
<1>7. Once /\ AtMostOnce /\ Owed
  BY <1>1 DEF Once, Token, AtMostOnce, Owed
<1>. QED
  BY <1>4, <1>5, <1>6, <1>7 DEF RInv

\* Every step keeps the invariant.
LEMMA StepRInv ==
  ASSUME RInv, [Next]_vars
  PROVE  RInv'
<1>1. Orderly /\ Shapes
  BY EveryShape
<1>2. Typed'
  BY <1>1, RetriesTyped, SendsTyped, ServesTyped, ForgetsTyped DEF Shapes
<1>3. Wire'
  BY <1>1, RetriesWire, SendsWire, ServesWire, ForgetsWire, HoldsWire, ErasesWire DEF Shapes
<1>4. Followed' /\ RepliesFindTheirIssuer'
  BY <1>1, RetriesFollowed, SendsFollowed, QuietFollowed DEF Shapes
<1>5. Registered' /\ ProofHeldOnlyRenamed' /\ Owed' /\ Once' /\ AtMostOnce'
  BY <1>1, <1>2, StaysRegistered, StaysOwed, StaysOnce
<1>. QED
  BY <1>2, <1>3, <1>4, <1>5 DEF RInv

(***************************************************************************)
(* Every request is in one place, under an id its issuer knows, in every   *)
(* reachable state: the inductive invariant the theorems below rest on.    *)
(***************************************************************************)
THEOREM TokensInductive == Spec => []RInv
<1>1. Init => RInv
  BY InitRInv
<1>2. RInv /\ [Next]_vars => RInv'
  BY StepRInv
<1>. QED
  BY <1>1, <1>2, PTL DEF Spec

(***************************************************************************)
(* However refusals, reconnects, keepalives and migrations interleave, the *)
(* server carries out no request twice.                                    *)
(***************************************************************************)
THEOREM AtMostOnceHolds == Spec => []AtMostOnce
<1>1. RInv => AtMostOnce
  BY DEF RInv
<1>. QED
  BY <1>1, TokensInductive, PTL

(***************************************************************************)
(* A request refused for now stays in floodMessages or migrationMessages   *)
(* until it is sent again, unless a FLOOD_WAIT that came inside a          *)
(* container came again (handleMsgContainer() knows no ring); and every    *)
(* variable keeps its type.                                                *)
(***************************************************************************)
THEOREM HeldUntilSentHolds == Spec => []HeldUntilSent
<1>1. RInv => HeldUntilSent
  BY DEF RInv, Typed, Owed, HeldUntilSent
<1>. QED
  BY <1>1, TokensInductive, PTL

(***************************************************************************)
(* broadcastMessageChange() leaves nobody behind: what is on its way, and  *)
(* every reply, is under the id its issuer waits for.                      *)
(***************************************************************************)
THEOREM RepliesFindTheirIssuerHolds == Spec => []RepliesFindTheirIssuer
<1>1. RInv => RepliesFindTheirIssuer
  BY DEF RInv
<1>. QED
  BY <1>1, TokensInductive, PTL

(***************************************************************************)
(* doNotReplay() keeps a proof out of floodMessages unless it was sent     *)
(* under another id since.                                                 *)
(***************************************************************************)
THEOREM ProofHeldOnlyRenamedHolds == Spec => []ProofHeldOnlyRenamed
<1>1. RInv => ProofHeldOnlyRenamed
  BY DEF RInv
<1>. QED
  BY <1>1, TokensInductive, PTL
=============================================================================
