------------------------------ MODULE Requests ------------------------------
(***************************************************************************)
(* The message bookkeeping of TgTransport (libkg/tgtransport.cpp):         *)
(* requests kept until answered, refused and sent again under a new id     *)
(* (bad salt, FLOOD_WAIT, MIGRATE), the ids others know them by, and the   *)
(* ring of server message ids.                                             *)
(*                                                                         *)
(* The three hashes pendingMessages, floodMessages and migrationMessages   *)
(* are functions from message ids to the request they hold; a hash read at *)
(* an absent key yields an empty packet (None), which sendMTMessage() does *)
(* not send.  Message ids grow.  The server and the network are external:  *)
(* a request in net is served, refused or lost; a message the server sent  *)
(* is delivered in any order, and again, acknowledged or not: alone as     *)
(* long as it is one of the last Ring ones delivered so, inside a          *)
(* container or a msg_copy always, for nothing acknowledges or remembers   *)
(* what is inside.  Acknowledgements and pings therefore change nothing    *)
(* here and are left out, and so are the ids of the containers themselves; *)
(* so is the key exchange (see Connection): a connection opens with its    *)
(* key.                                                                    *)
(***************************************************************************)
EXTENDS Integers, Sequences, FiniteSets

CONSTANTS
  Reqs,        \* requests of the updates manager and the files, and Proofs
  Proofs,      \* password checks: registered with doNotReplay()
  CheckReq,    \* the transport's own users.getUsers, numbered by connection
  None,        \* an empty packet
  Ring,        \* size of _seenMessageIds (64)
  TooMany,     \* pending messages the keepalive gives up at (40)
  MaxIds,      \* bound: no request and no check is issued past this id
  MaxFaults,   \* bound: requests refused and connections lost
  Refusals     \* how the server refuses: of "flood", "bad", "migrate"

ASSUME RequestsAssumption ==
  /\ Proofs \subseteq Reqs
  /\ None \notin Reqs
  /\ (Reqs \cup {None}) \cap [check : {CheckReq}, connection : Nat] = {}
  /\ Ring \in Nat \ {0} /\ TooMany \in Nat \ {0}
  /\ MaxIds \in Nat /\ MaxFaults \in Nat
  /\ Refusals \subseteq {"flood", "bad", "migrate"}

VARIABLES
  link,       \* "down", "open" (connected), "up" (initialized)
  user,       \* signed in: migrates no more, checks its authorization
  last,       \* lastMessageId
  pending, flood, migration,   \* the three hashes
  noReplay,   \* noFloodReplay
  authCheck,  \* authCheckMsgId
  awaits,     \* the id the issuer of each request waits for; 0 before
  seen,       \* _seenMessageIds
  \* the server and the network
  net,        \* requests on their way: [id, req]
  out,        \* messages the server delivers: [sid, kind, id, req]
  sent,       \* how many it sent
  recent,     \* the last Ring it delivered
  faults,     \* refusals and lost connections so far
  \* history
  checks,     \* authorization checks so far
  executed,   \* how often the server carried out each request
  owes,       \* refused requests the transport holds for a retry
  inside,     \* refusals to hold that came inside a container
  displaced   \* held requests that a repeat of such a refusal displaced

hashes == <<pending, flood, migration>>
server == <<sent, executed>>
history == <<checks, owes, inside, displaced>>
vars == <<link, user, last, hashes, noReplay, authCheck, awaits, seen,
          net, out, recent, server, faults, history>>

Check(n) == [check |-> CheckReq, connection |-> n]
Empty == [i \in {} |-> None]

\* QHash: value(), insert(), remove().
At(h, i) == IF i \in DOMAIN h THEN h[i] ELSE None
Put(h, i, r) == [j \in DOMAIN h \cup {i} |-> IF j = i THEN r ELSE h[j]]
Del(h, i) == [j \in DOMAIN h \ {i} |-> h[j]]

-----------------------------------------------------------------------------
(***************************************************************************)
(* Sending.  sendMTMessage() on the entries of a hash, each under a new    *)
(* id: ids maps the old ids to the new ones.  The caller has taken the     *)
(* entries out; kept is what pendingMessages holds by then.                *)
(***************************************************************************)
Sendable(h) == {i \in DOMAIN h : h[i] # None}

\* One new id per entry, in the order the hash happens to have.
Renamings(h) ==
  {f \in [Sendable(h) -> last + 1 .. last + Cardinality(Sendable(h))] :
     \A i, j \in Sendable(h) : f[i] = f[j] => i = j}

Renamed(ids, i) == IF i \in DOMAIN ids THEN ids[i] ELSE i

\* The entries of h under their new ids.
Moved(h, ids) ==
  [i \in {ids[j] : j \in DOMAIN ids} |-> h[CHOOSE j \in DOMAIN ids : ids[j] = i]]

Joined(g, h) ==
  [i \in DOMAIN g \cup DOMAIN h |-> IF i \in DOMAIN h THEN h[i] ELSE g[i]]

\* TgClient::handleMessageChanged(): the updates manager and the files follow;
\* the password check, like the models of the user interface, does not.
HandleMessageChanged(ids) ==
  awaits' = [r \in Reqs |->
               IF r \in Proofs THEN awaits[r] ELSE Renamed(ids, awaits[r])]

\* Only the client is told.
RenameAwaits(ids) == HandleMessageChanged(ids) /\ UNCHANGED authCheck

\* broadcastMessageChange(): whoever waits for the old id waits for the new.
BroadcastMessageChange(ids) ==
  /\ HandleMessageChanged(ids)
  /\ authCheck' = Renamed(ids, authCheck)

\* What is written to a socket that is not connected is lost.
Written(h) ==
  IF link = "down" THEN {} ELSE {[id |-> i, req |-> h[i]] : i \in DOMAIN h}

Resend(h, kept, ids) ==
  /\ pending' = Joined(kept, Moved(h, ids))
  /\ last' = last + Cardinality(DOMAIN ids)
  /\ BroadcastMessageChange(ids)
  /\ net' = net \cup Written(Moved(h, ids))

\* The id drawn before it is registered.
DoNotReplayBefore(r, id) ==
  noReplay' = noReplay \cup IF r \in Proofs THEN {id - 1} ELSE {}

\* doNotReplay(): handleSrpProved() registers the id a proof was sent under.
DoNotReplay(r, id) ==
  noReplay' = noReplay \cup IF r \in Proofs THEN {id} ELSE {}

\* A request of the client.
Issue(r) ==
  /\ awaits[r] = 0 /\ last < MaxIds
  /\ last' = last + 1
  /\ pending' = Put(pending, last + 1, r)
  /\ awaits' = [awaits EXCEPT ![r] = last + 1]
  /\ DoNotReplay(r, last + 1)
  /\ net' = net \cup Written([i \in {last + 1} |-> r])
  /\ UNCHANGED <<link, user, flood, migration, authCheck, seen, out, recent,
                 server, faults, history>>

-----------------------------------------------------------------------------
(***************************************************************************)
(* The server carries a request out, or refuses it.                        *)
(***************************************************************************)
Says(kind, m) == [sid |-> sent + 1, kind |-> kind, id |-> m.id, req |-> m.req]

Serve(m) ==
  /\ link # "down" /\ m \in net
  /\ net' = net \ {m} /\ sent' = sent + 1
  /\ \/ /\ out' = out \cup {Says("result", m)}
        /\ executed' = IF m.req \in Reqs THEN [executed EXCEPT ![m.req] = @ + 1]
                       ELSE executed
        /\ UNCHANGED faults
     \/ /\ faults < MaxFaults /\ faults' = faults + 1
        /\ \E kind \in Refusals :
             /\ kind = "migrate" => ~user
             /\ out' = out \cup {Says(kind, m)}
        /\ UNCHANGED executed
  /\ UNCHANGED <<link, user, last, hashes, noReplay, authCheck, awaits, seen,
                 recent, history>>

-----------------------------------------------------------------------------
(***************************************************************************)
(* Receiving.  processMessage() runs acceptMessageId(), notes the          *)
(* acknowledgement and calls the handler; handleMsgContainer() and         *)
(* handleMsgCopy() call it at once, for each message inside.               *)
(***************************************************************************)
Elements(q) == {q[k] : k \in DOMAIN q}
Pushed(q, n, x) == IF Len(q) >= n THEN Append(Tail(q), x) ELSE Append(q, x)

\* One id too few is remembered.
RememberShort(sid) == seen' = Pushed(seen, Ring - 1, sid)

Remember(sid) == seen' = Pushed(seen, Ring, sid)

Alone(s) ==
  /\ s.sid \notin Elements(seen)
  /\ Remember(s.sid)
  /\ recent' = Pushed(recent, Ring, s.sid)

InContainer == UNCHANGED <<seen, recent>>

Accept(s, kind) ==
  /\ link # "down" /\ s.kind = kind
  /\ Alone(s) \/ InContainer

\* What the network may still deliver.
Deliverable == {t \in out : t.sid \notin Elements(recent) \ Elements(recent')}

\* A reply, or an error that is final.
HandleRpcResult(s) ==
  /\ Accept(s, "result")
  /\ out' = Deliverable
  /\ pending' = Del(pending, s.id)
  /\ UNCHANGED <<link, user, last, flood, migration, noReplay, authCheck,
                 awaits, net, server, faults, history>>

\* The packet is taken from pendingMessages, and owed a retry if there is one.
Owe(s) == owes' = owes \cup ({At(pending, s.id)} \ {None})

\* The refusal came inside a container, which the ring knows nothing of: it is
\* handled when it comes again.  There is nothing left to take then, and nothing
\* is what is held from then on.
Displace(s) ==
  LET again == At(pending, s.id) = None
      unseen == seen' = seen IN
  /\ inside' = IF ~again /\ unseen THEN inside \cup {s.sid} ELSE inside
  /\ displaced' = IF again /\ (unseen \/ s.sid \in inside)
                  THEN displaced \cup ({At(flood, s.id)} \ {None}) ELSE displaced

\* FLOOD_WAIT: held for the next keepalive, unless it must not be.
HandleFloodWait(s) ==
  /\ Accept(s, "flood")
  /\ out' = Deliverable
  /\ pending' = Del(pending, s.id)
  /\ \/ /\ s.id \in noReplay
        /\ noReplay' = noReplay \ {s.id}
        /\ UNCHANGED <<flood, owes, inside, displaced>>
     \/ /\ s.id \notin noReplay
        /\ flood' = Put(flood, s.id, At(pending, s.id))
        /\ Owe(s) /\ Displace(s)
        /\ UNCHANGED noReplay
  /\ UNCHANGED <<link, user, last, migration, authCheck, awaits, net, server,
                 faults, checks>>

\* bad_msg_notification, bad_server_salt: taken out and sent again at once.
HandleBadMsg(s) ==
  LET h == [i \in {s.id} |-> At(pending, s.id)] IN
  /\ Accept(s, "bad")
  /\ out' = Deliverable
  /\ \E ids \in Renamings(h) : Resend(h, Del(pending, s.id), ids)
  /\ UNCHANGED <<link, user, flood, migration, noReplay, server, faults, history>>

\* x_MIGRATE_n: held for the new data centre.  migrateTo() stops and starts
\* there; what was in flight is lost.
HandleMigrate(s) ==
  /\ Accept(s, "migrate")
  /\ pending' = Del(pending, s.id)
  /\ migration' = Put(migration, s.id, At(pending, s.id))
  /\ Owe(s)
  /\ link' = "down" /\ net' = {} /\ out' = {}
  /\ UNCHANGED <<user, last, flood, noReplay, authCheck, awaits, server, faults,
                 checks, inside, displaced>>

-----------------------------------------------------------------------------
(***************************************************************************)
(* The connection.                                                         *)
(***************************************************************************)
Connect ==
  /\ link = "down"
  /\ link' = "open"
  /\ UNCHANGED <<user, last, hashes, noReplay, authCheck, awaits, seen,
                 net, out, recent, server, faults, history>>

\* handleConfig() without a user: the held requests are sent.
HandleConfig ==
  /\ link = "open" /\ ~user
  /\ link' = "up"
  /\ \E ids \in Renamings(migration) : Resend(migration, pending, ids)
  /\ migration' = Empty
  /\ owes' = owes \ {migration[i] : i \in DOMAIN migration}
  /\ UNCHANGED <<user, flood, noReplay, seen, out, recent, server, faults,
                 checks, inside, displaced>>

\* handleConfig() and checkAuthorization() of a user, who holds nothing for
\* another data centre.
HandleConfigCheck ==
  /\ link = "open" /\ user /\ last < MaxIds
  /\ link' = "up"
  /\ checks' = checks + 1
  /\ last' = last + 1 /\ authCheck' = last + 1
  /\ pending' = Put(pending, last + 1, Check(checks'))
  /\ net' = net \cup Written([i \in {last + 1} |-> Check(checks')])
  /\ UNCHANGED <<user, flood, migration, noReplay, awaits, seen, out, recent,
                 server, faults, owes, inside, displaced>>

\* notifyDisconnected(): nothing here is cleared; what the server has not got
\* yet may be lost.
Disconnect ==
  /\ link # "down" /\ faults < MaxFaults
  /\ faults' = faults + 1
  /\ link' = "down"
  /\ net' \in {{}, net}
  /\ UNCHANGED <<user, last, hashes, noReplay, authCheck, awaits, seen,
                 out, recent, server, history>>

\* The flooded requests are sent again, and kept.
PingTimerKeeps ==
  /\ link # "down" /\ flood # Empty
  /\ \E ids \in Renamings(flood) : Resend(flood, pending, ids)
  /\ owes' = owes \ {flood[i] : i \in DOMAIN flood}
  /\ UNCHANGED <<link, user, flood, migration, noReplay, seen, out, recent,
                 server, faults, checks, inside, displaced>>

\* Nothing is sent again while requests are pending.
PingTimerWaits ==
  /\ link # "down" /\ pending = Empty
  /\ flood # Empty
  /\ \E ids \in Renamings(flood) : Resend(flood, pending, ids)
  /\ flood' = Empty
  /\ owes' = owes \ {flood[i] : i \in DOMAIN flood}
  /\ UNCHANGED <<link, user, migration, noReplay, seen, out, recent, server,
                 faults, checks, inside, displaced>>

\* The keepalive: too many pending requests are given up, the flooded ones
\* are sent again.
PingTimer ==
  LET many == Cardinality(DOMAIN pending) >= TooMany IN
  /\ link # "down"
  /\ many \/ flood # Empty
  /\ noReplay' = IF many THEN {} ELSE noReplay
  /\ \E ids \in Renamings(flood) :
       Resend(flood, IF many THEN Empty ELSE pending, ids)
  /\ flood' = Empty
  /\ owes' = owes \ {flood[i] : i \in DOMAIN flood}
  /\ UNCHANGED <<link, user, migration, seen, out, recent, server, faults,
                 checks, inside, displaced>>

-----------------------------------------------------------------------------
Init ==
  /\ link = "down" /\ user \in BOOLEAN /\ last = 0
  /\ pending = Empty /\ flood = Empty /\ migration = Empty
  /\ noReplay = {} /\ authCheck = 0 /\ awaits = [r \in Reqs |-> 0]
  /\ seen = <<>>
  /\ net = {} /\ out = {} /\ sent = 0 /\ recent = <<>>
  /\ faults = 0 /\ checks = 0
  /\ executed = [r \in Reqs |-> 0]
  /\ owes = {} /\ inside = {} /\ displaced = {}

Handle(s) ==
  HandleRpcResult(s) \/ HandleFloodWait(s) \/ HandleBadMsg(s) \/ HandleMigrate(s)

Next ==
  \/ \E r \in Reqs : Issue(r)
  \/ \E m \in net : Serve(m)
  \/ \E s \in out : Handle(s)
  \/ Connect \/ HandleConfig \/ HandleConfigCheck \/ Disconnect \/ PingTimer

Spec == Init /\ [][Next]_vars

\* The socket comes back, the connection is initialized, the keepalive fires.
Fairness ==
  WF_vars(Connect) /\ WF_vars(HandleConfig) /\ WF_vars(PingTimer)

FairSpec == Spec /\ Fairness

-----------------------------------------------------------------------------
(***************************************************************************)
(* Properties.                                                             *)
(***************************************************************************)
Packets == Reqs \cup {Check(n) : n \in 1 .. checks}
Held(r) == \/ \E i \in DOMAIN flood : flood[i] = r
           \/ \E i \in DOMAIN migration : migration[i] = r
Hash(h) == DOMAIN h \subseteq 1 .. last /\ \A i \in DOMAIN h : h[i] \in Packets \cup {None}

\* The types of the hashes, the ring and the network.
RequestsTypeOK ==
  /\ link \in {"down", "open", "up"} /\ user \in BOOLEAN /\ last \in Nat
  /\ Hash(pending) /\ Hash(flood) /\ Hash(migration)
  /\ noReplay \subseteq 1 .. last /\ authCheck \in 0 .. last
  /\ awaits \in [Reqs -> 0 .. last]
  /\ seen \in Seq(1 .. sent) /\ Len(seen) <= Ring
  /\ net \subseteq [id : 1 .. last, req : Packets]

(***************************************************************************)
(* A request is sent again only after it was refused, and once per         *)
(* refusal: however often the refusals are delivered, the server carries   *)
(* out nothing twice.                                                      *)
(***************************************************************************)
AtMostOnce == \A r \in Reqs : executed[r] <= 1

(***************************************************************************)
(* "TgTransport::handleRpcError parks the message in floodMessages and     *)
(* re-sends it from timerEvent" (tests/e2e/runner.cpp:11): a request       *)
(* refused for now is held until it is sent again.  No late error, no      *)
(* reconnect and no other request displaces it, and no repeated refusal    *)
(* but one that came inside a container, which the ring does not see: an   *)
(* empty packet takes its place then.  (With the types of the variables.)  *)
(***************************************************************************)
HeldUntilSent ==
  /\ RequestsTypeOK
  /\ \A r \in owes : Held(r) \/ r \in displaced

(***************************************************************************)
(* Who follows a change of id waits for the id it was last sent under, so  *)
(* the reply finds it; so does the transport for its newest authorization  *)
(* check.                                                                  *)
(***************************************************************************)
RepliesFindTheirIssuer ==
  \A m \in net \cup {s \in out : s.kind = "result"} :
    /\ m.req \in Reqs \ Proofs => m.id = awaits[m.req]
    /\ m.req = Check(checks) => m.id = authCheck

\* What was refused for now is sent again, over reconnects and migrations,
\* unless a refusal repeated inside a container displaced it.
RefusedIsRetried == \A r \in Reqs : (r \in owes) ~> (r \notin owes \/ r \in displaced)

(***************************************************************************)
(* "auth.checkPassword is excluded from the transport's FLOOD_WAIT         *)
(* replay": a proof is held for one only if it had been sent again under   *)
(* another id before, which doNotReplay() does not know (awaits has the    *)
(* id it was registered under).                                            *)
(***************************************************************************)
ProofHeldOnlyRenamed ==
  \A i \in DOMAIN flood : flood[i] \in Proofs => i # awaits[flood[i]]
=============================================================================
