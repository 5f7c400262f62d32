------------------------------ MODULE Messages ------------------------------
(***************************************************************************)
(* The open chat: MessagesModel (src/messagesmodel.cpp).  Rows come from   *)
(* two places: answers to messages.getHistory, in pages of BATCH_SIZE      *)
(* below and above the read mark the chat was opened at, and the updates   *)
(* the client hands over.                                                  *)
(*                                                                         *)
(* There is a private chat, whose updates are in the common sequence, a    *)
(* broadcast channel and a supergroup, each with its own sequence; the     *)
(* message ids of all start at 1, as they may.  The update pipeline hands  *)
(* over what it has of each sequence in order, at any later time, or tells *)
(* that it jumped; it may also leave updates out silently, and hand over   *)
(* again what it did before (see lapse and the positions taken back in     *)
(* Updates).  A message is its id: what a row shows of it, edits of a      *)
(* message, uploads and selections are left out.                           *)
(***************************************************************************)
EXTENDS Integers, Sequences, FiniteSets, SequencesExt, FiniteSetsExt

CONSTANTS
  Chats,       \* the chats there are: of "user", "channel" (broadcast), "supergroup"
  Batch,       \* BATCH_SIZE
  First,       \* messages each chat has to begin with
  MaxEvents    \* bound on messages published, sent and deleted, connections lost,
               \* requests refused or renamed, jumps of a sequence, updates left
               \* out or repeated and, counted twice, chats opened

\* BATCH_SIZE is 40.  With pages of one message, the first page below would begin and
\* end at the offset and be taken for the last one.
ASSUME MessagesAssumption ==
  /\ "user" \in Chats /\ Chats \subseteq {"user", "channel", "supergroup"}
  /\ Batch \in Nat /\ Batch > 1 /\ First \in Nat \ {0}
  /\ MaxEvents \in Nat

None == "none"

VARIABLES
  \* the server
  log,      \* newest id of each chat
  gone,     \* ids deleted in each
  requests, \* getHistory requests it has not answered
  answers,  \* answers under way
  unsent,   \* sendMessage requests it has not taken, by whether their id was renamed
  \* the update pipeline: what of each sequence was not handed over yet
  queue,
  \* MessagesModel
  peer,     \* _peer and _inputPeer: the open chat
  mark,     \* its read mark, as it was when it was opened
  rows,     \* _history: chat and id of each row
  offset,   \* _upOffset and _downOffset
  pending,  \* _upRequestId and _downRequestId
  readUpTo, \* _readUpTo
  userId,   \* _userId is the account's
  link,     \* isAuthorized() of the client
  \* events
  events,
  \* history, read by the properties only: see Amiss
  amiss

server == <<log, gone>>
wire   == <<requests, answers, unsent>>
vars   == <<server, wire, queue, peer, mark, rows, offset, pending, readUpTo,
            userId, link, events, amiss>>

Ways == {"up", "down"}
Neither == [w \in Ways |-> 0]
Row(c, i) == [chat |-> c, id |-> i]
Sends == {"sent", "unclaimed"}
Update(kind, i) == [kind |-> kind, id |-> i]

(***************************************************************************)
(* What goes wrong with rows of the open chat, since it was opened:        *)
(*   overtaken  messages an update was about that came while an answer     *)
(*              computed before it was under way;                          *)
(*   struck     rows of a channel that were removed because a message      *)
(*              with that id was deleted in a private chat;                *)
(*   strays     rows that are of another chat;                             *)
(*   unclaimed  messages sent from here whose id the transport changed, so *)
(*              that their acknowledgement is dropped;                     *)
(*   late       rows from an update about a message that was no news: what *)
(*              the pipeline hands over may be older than the last page;   *)
(*   skipped    messages the pipeline left out without a word, after the   *)
(*              last page was read;                                        *)
(*   jumped     the same, but it told of the jump, and the chat was not    *)
(*              reloaded;                                                  *)
(*   severed    a request that belongs to the chat will not be answered    *)
(*              under the id the model waits for.                          *)
(***************************************************************************)
Fine == [overtaken |-> {}, struck |-> {}, strays |-> {}, late |-> {},
         unclaimed |-> {}, skipped |-> {}, jumped |-> {}, severed |-> FALSE]

Init ==
  /\ log = [c \in Chats |-> First] /\ gone = [c \in Chats |-> {}]
  /\ requests = {} /\ answers = {} /\ unsent = [k \in Sends |-> 0]
  /\ queue = [c \in Chats |-> <<>>]
  /\ peer = None /\ mark = 0 /\ rows = <<>> /\ offset = Neither /\ pending = Neither
  /\ readUpTo = 0 /\ userId = FALSE /\ link = FALSE
  /\ events = 0
  /\ amiss = Fine

Awaited(S) == \E r \in S : r.id \in {pending["up"], pending["down"]}

-----------------------------------------------------------------------------
(***************************************************************************)
(* Opening a chat.                                                         *)
(***************************************************************************)
\* An id is unique: here, the least two that nobody has or waits for.
Used == {r.id : r \in requests \cup answers} \cup {pending[w] : w \in Ways}
Unused == 1 .. Cardinality(Used) + 2 \ Used
NextId == Min(Unused)

Request(w, c, o, id) == [id |-> id, way |-> w, chat |-> c, offset |-> o]

\* resetState()
ResetState ==
  /\ peer' = None /\ mark' = 0 /\ rows' = <<>> /\ offset' = Neither
  /\ pending' = Neither /\ readUpTo' = 0 /\ amiss' = Fine

\* setPeer(): both requests go out at once, whether anyone is there or not.
SetPeer(c, m) ==
  LET up == NextId
      down == Min(Unused \ {up})
  IN
  /\ peer' = c /\ mark' = m /\ rows' = <<>> /\ readUpTo' = 0
  /\ offset' = [w \in Ways |-> m]
  /\ pending' = [up |-> up, down |-> down]
  /\ requests' = IF link THEN requests \cup {Request("up", c, m, up),
                                             Request("down", c, m, down)}
                 ELSE requests
  /\ amiss' = [Fine EXCEPT !.severed = ~link]

\* A row of the list of chats, whose read mark may be any that it was told.
OpenDialog(c) ==
  /\ events + 2 <= MaxEvents
  /\ events' = events + 2
  /\ \E m \in 1 .. log[c] : SetPeer(c, m)
  /\ UNCHANGED <<server, answers, unsent, queue, userId, link>>

\* reloadHistory()
ReloadHistory == SetPeer(peer, mark)

-----------------------------------------------------------------------------
(***************************************************************************)
(* Pages.  A list that was scrolled to one of its ends asks for the next.  *)
(***************************************************************************)
CanFetchMore(w) == link /\ peer # None /\ pending[w] = 0 /\ offset[w] # -1

FetchMore(w) ==
  /\ CanFetchMore(w)
  /\ pending' = [pending EXCEPT ![w] = NextId]
  /\ requests' = requests \cup {Request(w, peer, offset[w], NextId)}
  /\ UNCHANGED <<server, answers, unsent, queue, peer, mark, rows, offset, readUpTo,
                 userId, link, events, amiss>>

\* The server answers with the messages below the offset, the newest of them, or
\* with those from the offset on, the oldest of them.
Has(c) == 1 .. log[c] \ gone[c]
Newest(S) == {i \in S : Cardinality({j \in S : j > i}) < Batch}
Oldest(S) == {i \in S : Cardinality({j \in S : j < i}) < Batch}
Page(r) == IF r.way = "up" THEN Newest({i \in Has(r.chat) : i < r.offset})
           ELSE Oldest({i \in Has(r.chat) : i >= r.offset})

Answer(r) ==
  /\ requests' = requests \ {r}
  /\ answers' = answers \cup {[id |-> r.id, chat |-> r.chat, ids |-> Page(r)]}
  /\ UNCHANGED <<server, unsent, queue, peer, mark, rows, offset, pending, readUpTo,
                 userId, link, events, amiss>>

\* The rows of an answer, oldest first.
Nth(S, k) == CHOOSE i \in S : Cardinality({j \in S : j < i}) = k - 1
NewRows(a) == [k \in 1 .. Cardinality(a.ids) |-> Row(a.chat, Nth(a.ids, k))]

\* A full page is taken for the last one, and a short one is not.
NextOffsetShort(old, new, ids) == IF old # new /\ Cardinality(ids) # Batch THEN new ELSE -1

\* Where the next page begins: at the far end of a full one.
NextOffset(old, new, ids) == IF old # new /\ Cardinality(ids) = Batch THEN new ELSE -1

\* handleHistoryResponse()
HandleHistoryResponse(a) ==
  IF a.ids = {} THEN offset' = [offset EXCEPT !["down"] = -1] /\ UNCHANGED rows
  ELSE /\ offset' = [offset EXCEPT !["down"] = NextOffset(@, Max(a.ids), a.ids)]
       /\ rows' = rows \o NewRows(a)

\* handleHistoryResponseUpwards()
HandleHistoryResponseUpwards(a) ==
  IF a.ids = {} THEN offset' = [offset EXCEPT !["up"] = -1] /\ UNCHANGED rows
  ELSE /\ offset' = [offset EXCEPT !["up"] = NextOffset(@, Min(a.ids), a.ids)]
       /\ rows' = NewRows(a) \o rows

\* The answered request is still waited for.
Waited(w) == pending

Answered(w) == [pending EXCEPT ![w] = 0]

\* messagesGetHistoryResponse(): an answer to nobody's question is dropped.
MessagesGetHistoryResponse(a) ==
  /\ link
  /\ answers' = answers \ {a}
  /\ \/ /\ a.id = pending["down"]
        /\ HandleHistoryResponse(a)
        /\ pending' = Answered("down")
     \/ /\ a.id = pending["up"]
        /\ HandleHistoryResponseUpwards(a)
        /\ pending' = Answered("up")
     \/ /\ a.id \notin {pending["up"], pending["down"]}
        /\ UNCHANGED <<rows, offset, pending>>
  /\ UNCHANGED <<server, requests, unsent, queue, peer, mark, readUpTo, userId, link, events, amiss>>

-----------------------------------------------------------------------------
(***************************************************************************)
(* What happens at the server, and the update about it.                    *)
(***************************************************************************)
Publish(c) ==
  /\ events < MaxEvents
  /\ events' = events + 1
  /\ log' = [log EXCEPT ![c] = @ + 1]
  /\ queue' = [queue EXCEPT ![c] = Append(@, Update("new", log[c] + 1))]
  /\ UNCHANGED <<gone, wire, peer, mark, rows, offset, pending, readUpTo, userId, link, amiss>>

Delete(c, i) ==
  /\ i \in Has(c) /\ events < MaxEvents
  /\ events' = events + 1
  /\ gone' = [gone EXCEPT ![c] = @ \cup {i}]
  /\ queue' = [queue EXCEPT ![c] = Append(@, Update("delete", i))]
  /\ UNCHANGED <<log, wire, peer, mark, rows, offset, pending, readUpTo, userId, link, amiss>>

\* sendMessage() in the private chat.  One to the channel comes back as an update
\* like anybody's (Publish).
SendMessage ==
  /\ link /\ peer = "user" /\ events < MaxEvents
  /\ events' = events + 1
  /\ unsent' = [unsent EXCEPT !["sent"] = @ + 1]
  /\ UNCHANGED <<server, requests, answers, queue, peer, mark, rows, offset, pending,
                 readUpTo, userId, link, amiss>>

\* The server takes it.  Its answer has a place in the common sequence.
Take(k) ==
  /\ unsent[k] > 0
  /\ unsent' = [unsent EXCEPT ![k] = @ - 1]
  /\ log' = [log EXCEPT !["user"] = @ + 1]
  /\ queue' = [queue EXCEPT !["user"] = Append(@, Update(k, log["user"] + 1))]
  /\ UNCHANGED <<gone, requests, answers, peer, mark, rows, offset, pending, readUpTo,
                 userId, link, events, amiss>>

-----------------------------------------------------------------------------
(***************************************************************************)
(* Updates that are handed over.                                           *)
(***************************************************************************)
\* New messages are taken in any case.
CompleteOrNot == TRUE

\* They are taken only after the last page, in which they are otherwise.
Complete == offset["down"] = -1

\* ... unless an answer without them is under way: then they are in none.
Overtaking(i) ==
  \E a \in answers : a.id = pending["down"] /\ i \notin a.ids
Overtaken(i) == [amiss EXCEPT !.overtaken = IF Overtaking(i) THEN @ \cup {i} ELSE @]

\* A message the chat was opened at, or below one it has.
Late(i) ==
  [amiss EXCEPT !.late = IF i <= mark \/ \E k \in DOMAIN rows : rows[k].chat = peer /\ rows[k].id >= i
                         THEN @ \cup {i} ELSE @]

\* Whatever chat it is from.
AnyIsOpen(c) == peer # None

\* peersEqual()
IsOpen(c) == peer = c

\* UpdateNewMessage, UpdateNewChannelMessage, UpdateShortMessage
NewMessage(c, i) ==
  IF ~IsOpen(c) THEN UNCHANGED <<rows, amiss>>
  ELSE IF ~Complete THEN amiss' = Overtaken(i) /\ UNCHANGED rows
  ELSE rows' = Append(rows, Row(c, i)) /\ amiss' = Late(i)

\* UpdateShortSentMessage, which does not say which chat it is from.
SentMessage(i) ==
  IF ~Complete
  THEN /\ amiss' = IF peer = "user" THEN Overtaken(i) ELSE amiss
       /\ UNCHANGED rows
  ELSE /\ rows' = Append(rows, Row("user", i))
       /\ amiss' = IF peer = "user" THEN Late(i) ELSE [amiss EXCEPT !.strays = @ \cup {i}]

\* Messages S of a chat that become no rows.
Missed(way, c, S) ==
  amiss' = IF ~IsOpen(c) THEN amiss
           ELSE IF Complete THEN [amiss EXCEPT ![way] = @ \cup S]
           ELSE [amiss EXCEPT !.overtaken = @ \cup {i \in S : Overtaking(i)}]

\* The same to an id that _sentMessages does not have.
Unclaimed(i) == Missed("unclaimed", "user", {i}) /\ UNCHANGED rows

\* UpdateDeleteMessages and UpdateDeleteChannelMessages: the first row with that
\* id, of any chat in the first case.
RemovedRow(i) ==
  IF \E k \in DOMAIN rows : rows[k].id = i
  THEN LET k == Min({n \in DOMAIN rows : rows[n].id = i}) IN RemoveAt(rows, k)
  ELSE rows

DeleteMessages(c, i) ==
  IF c # "user" /\ ~IsOpen(c) THEN UNCHANGED <<rows, amiss>>
  ELSE /\ rows' = RemovedRow(i)
       /\ amiss' = [amiss EXCEPT
            !.overtaken = IF IsOpen(c) /\ Awaited({a \in answers : i \in a.ids})
                          THEN @ \cup {i} ELSE @,
            !.struck = IF peer # "user" /\ c = "user" THEN @ \cup {i} ELSE @]

GotUpdate(c) ==
  /\ queue[c] # <<>> /\ link
  /\ queue' = [queue EXCEPT ![c] = Tail(@)]
  /\ LET u == Head(queue[c]) IN
     \/ u.kind = "new" /\ NewMessage(c, u.id)
     \/ u.kind = "sent" /\ SentMessage(u.id)
     \/ u.kind = "unclaimed" /\ Unclaimed(u.id)
     \/ u.kind = "delete" /\ DeleteMessages(c, u.id)
  /\ UNCHANGED <<server, wire, peer, mark, offset, pending, readUpTo, userId, link, events>>

\* The messages among updates.
Announces(q) == {q[k].id : k \in {n \in DOMAIN q : q[n].kind # "delete"}}

\* A jump to where the server is, that the model is told of.  (One over nothing is
\* left out: it is like opening the chat again, or nothing at all.)
JumpTo(c) ==
  /\ queue[c] # <<>> /\ link /\ events < MaxEvents
  /\ events' = events + 1
  /\ queue' = [queue EXCEPT ![c] = <<>>]
  /\ UNCHANGED <<server, answers, unsent, userId, link>>

NotReloaded == UNCHANGED <<peer, mark, rows, offset, pending, readUpTo, requests>>

\* TgClient::isChannel(): a supergroup is none.
IsChannel(c) == c = "channel"

\* updatesReset(): the common sequence jumped.
UpdatesReset ==
  /\ JumpTo("user")
  /\ IF peer # None /\ ~IsChannel(peer) THEN ReloadHistory ELSE NotReloaded /\ UNCHANGED amiss

\* channelReset(): the sequence of a channel or a supergroup did.
ChannelReset(c) ==
  /\ c # "user" /\ JumpTo(c)
  /\ IF IsOpen(c) /\ IsChannel(c) THEN ReloadHistory
     ELSE NotReloaded /\ Missed("jumped", c, Announces(queue[c]))

\* A jump nobody is told of, over the next n updates.
Skip(c, n) ==
  /\ link /\ events < MaxEvents
  /\ events' = events + 1
  /\ queue' = [queue EXCEPT ![c] = SubSeq(@, n + 1, Len(@))]
  /\ Missed("skipped", c, Announces(SubSeq(queue[c], 1, n)))
  /\ UNCHANGED <<server, wire, peer, mark, rows, offset, pending, readUpTo, userId, link>>

\* What was handed over once is handed over again, after a position went back.
Repeat(c, i) ==
  /\ link /\ events < MaxEvents
  /\ events' = events + 1
  /\ i \notin Announces(queue[c]) /\ Update("delete", i) \notin Range(queue[c])
  /\ \/ IF Complete THEN NewMessage(c, i) ELSE UNCHANGED <<rows, amiss>>
     \/ i \in gone[c] /\ DeleteMessages(c, i)
  /\ UNCHANGED <<server, wire, queue, peer, mark, offset, pending, readUpTo, userId, link>>

-----------------------------------------------------------------------------
(***************************************************************************)
(* Read marks.                                                             *)
(***************************************************************************)
\* The list was scrolled to its end.
MarkRead ==
  /\ link /\ rows # <<>>
  /\ LET newest == Last(rows).id IN newest > readUpTo /\ readUpTo' = newest
  /\ UNCHANGED <<server, wire, queue, peer, mark, rows, offset, pending, userId, link, events, amiss>>

-----------------------------------------------------------------------------
(***************************************************************************)
(* The connection.                                                         *)
(***************************************************************************)
\* What was asked is not answered any more; answers under way may come after the
\* reconnect; what was taken is an update like any.
Disconnected ==
  /\ link /\ events < MaxEvents
  /\ events' = events + 1
  /\ link' = FALSE
  /\ requests' = {} /\ answers' \in {{}, answers} /\ unsent' = [k \in Sends |-> 0]
  /\ queue' = [queue EXCEPT !["user"] =
                 [k \in DOMAIN @ |-> IF @[k].kind \in Sends THEN Update("new", @[k].id) ELSE @[k]]]
  /\ amiss' = [amiss EXCEPT !.severed = @ \/ Awaited(requests \cup (answers \ answers'))]
  /\ UNCHANGED <<server, peer, mark, rows, offset, pending, readUpTo, userId>>

\* authorized(): the first time, a chat that was opened from the cache is closed.
Authorized ==
  /\ ~link
  /\ link' = TRUE /\ userId' = TRUE
  /\ IF userId THEN UNCHANGED <<peer, mark, rows, offset, pending, readUpTo, amiss>>
     ELSE ResetState
  /\ UNCHANGED <<server, wire, queue, events>>

\* An error, which the model does not listen for.
Refused(r) ==
  /\ events < MaxEvents
  /\ events' = events + 1
  /\ requests' = requests \ {r}
  /\ amiss' = [amiss EXCEPT !.severed = @ \/ Awaited({r})]
  /\ UNCHANGED <<server, answers, unsent, queue, peer, mark, rows, offset, pending,
                 readUpTo, userId, link>>

\* The transport sends it again under a new id, which the model is not told.
Renamed(r) ==
  /\ events < MaxEvents
  /\ events' = events + 1
  /\ requests' = (requests \ {r}) \cup {[r EXCEPT !.id = NextId]}
  /\ amiss' = [amiss EXCEPT !.severed = @ \/ Awaited({r})]
  /\ UNCHANGED <<server, answers, unsent, queue, peer, mark, rows, offset, pending,
                 readUpTo, userId, link>>

RenamedSend ==
  /\ unsent["sent"] > 0 /\ events < MaxEvents
  /\ events' = events + 1
  /\ unsent' = [unsent EXCEPT !["sent"] = @ - 1, !["unclaimed"] = @ + 1]
  /\ UNCHANGED <<server, requests, answers, queue, peer, mark, rows, offset, pending,
                 readUpTo, userId, link, amiss>>

-----------------------------------------------------------------------------
System ==
  \/ \E r \in requests : Answer(r)
  \/ \E a \in answers : MessagesGetHistoryResponse(a)
  \/ \E k \in Sends : Take(k)
  \/ \E c \in Chats : GotUpdate(c)
  \/ Authorized

Others ==
  \/ \E c \in Chats : \/ Publish(c) \/ ChannelReset(c)
                      \/ \E i \in 1 .. log[c] : Delete(c, i) \/ Repeat(c, i)
                      \/ \E n \in DOMAIN queue[c] : Skip(c, n)
  \/ UpdatesReset
  \/ \E r \in requests : Refused(r) \/ Renamed(r)
  \/ RenamedSend
  \/ Disconnected

User ==
  \/ \E c \in Chats : OpenDialog(c)
  \/ \E w \in Ways : FetchMore(w)
  \/ SendMessage \/ MarkRead

Next == System \/ Others \/ User

Spec == Init /\ [][Next]_vars

\* Answers and updates arrive and lost connections come back; nobody has to
\* scroll.  No run of System's steps alone is endless.
FairSpec == Spec /\ WF_vars(System)

-----------------------------------------------------------------------------
(***************************************************************************)
(* What the open chat promises.                                            *)
(***************************************************************************)
OwnIds == {rows[k].id : k \in {n \in DOMAIN rows : rows[n].chat = peer}}
Excused == gone[peer] \cup amiss.overtaken \cup amiss.struck \cup amiss.unclaimed
             \cup amiss.skipped \cup amiss.jumped

\* The types of the model's variables; without a chat nothing is shown or awaited.
MessagesTypeOK ==
  /\ log \in [Chats -> First .. First + MaxEvents]
  /\ \A c \in Chats : gone[c] \subseteq 1 .. log[c]
  /\ peer \in Chats \cup {None} /\ mark \in 0 .. First + MaxEvents
  /\ \A k \in DOMAIN rows : rows[k] \in [chat : Chats, id : 1 .. First + MaxEvents]
  /\ offset \in [Ways -> -1 .. First + MaxEvents] /\ pending \in [Ways -> Nat]
  /\ readUpTo \in 0 .. First + MaxEvents /\ {userId, link} \subseteq BOOLEAN
  /\ peer = None => rows = <<>> /\ pending = Neither /\ offset = Neither

(***************************************************************************)
(* Rows are of the open chat: an answer to what another chat had asked, or *)
(* an update about it, is not shown here.  Only the acknowledgement of a   *)
(* message sent from a chat that was left since is.                        *)
(* (With the types of the variables.)                                      *)
(***************************************************************************)
RowsBelong ==
  /\ MessagesTypeOK
  /\ \A k \in DOMAIN rows : rows[k].chat = peer \/ rows[k].id \in amiss.strays

(***************************************************************************)
(* Between the oldest and the newest row no message is missing: pages join *)
(* each other at the read mark and at their ends, in whichever order they  *)
(* come, and the first update that is taken joins the last page.  Missing  *)
(* are only deleted messages, those an update and an answer passed each    *)
(* other about, those a deletion in another chat struck, own messages      *)
(* whose request was renamed, what the pipeline left out silently after    *)
(* the last page, and what a supergroup's sequence jumped over:            *)
(* docs/updates.md:69-72 wants the open chat reloaded then, "the same for  *)
(* one channel", and channelReset() does so for a broadcast channel only.  *)
(* Rows that came late count as neither end.                               *)
(***************************************************************************)
NoHole ==
  LET ends == OwnIds \ amiss.late IN
  ends # {} => \A i \in Min(ends) .. Max(ends) : i \in OwnIds \cup Excused

(***************************************************************************)
(* markRead() marks all up to the last row: each of them, from the mark    *)
(* the chat was opened at, was a row, or is missing for one of the reasons *)
(* above.  (A stray row has an id of another chat, and what is marked then *)
(* is anyone's guess.)                                                     *)
(***************************************************************************)
ReadWasShown ==
  peer # None /\ amiss.strays = {} =>
    \A i \in mark .. readUpTo : i \in OwnIds \cup Excused

(***************************************************************************)
(* A chat that is open comes to show all messages there are from its read  *)
(* mark on, or waits to be scrolled down; unless one of its requests was   *)
(* lost, refused or renamed, after which it asks nothing until it is       *)
(* opened again.                                                           *)
(***************************************************************************)
AllShown == \A i \in mark .. log[peer] : i \in OwnIds \cup Excused

Settles ==
  peer # None ~> \/ peer = None \/ amiss.severed
                 \/ offset["down"] # -1 /\ pending["down"] = 0
                 \/ AllShown
=============================================================================
