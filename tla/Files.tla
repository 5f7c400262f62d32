------------------------------- MODULE Files -------------------------------
(***************************************************************************)
(* Downloads and uploads of TgClient (libkg/tgc_files.cpp), the clients of *)
(* other data centres that serve them (libkg/tgclient.cpp), and what       *)
(* handleRpcError(), handleMessageChanged() and handleAuthorized() do for  *)
(* them.                                                                   *)
(*                                                                         *)
(* There are two data centres: the account's, with the main client, and    *)
(* another with a child client, made when a file first needs it.  A file   *)
(* is known by the id its TgFileCtx drew.  Lengths are counted in half     *)
(* parts, so a part is 2 and a file may end inside one or at its end; a    *)
(* length of 0 is one the caller did not know.  A file that was opened     *)
(* once is taken to open again when it migrates.                           *)
(*                                                                         *)
(* The fields a download handler touches are one record, dl: a handler     *)
(* that ends in downloadNextFilePart() hands on the fields it has changed. *)
(***************************************************************************)
EXTENDS Integers, Sequences, FiniteSets

CONSTANTS
  Downloads, Uploads,   \* the files, each transferred once
  Abroad,               \* the downloads the other data centre keeps
  None,                 \* the file id 0
  Serials,              \* enough to keep message ids about one file apart
  Sizes,                \* lengths of downloads, in half parts
  UploadSize,           \* length of every upload
  MaxFaults             \* bound: connections lost, requests sent again or refused

ASSUME FilesAssumption ==
  /\ Downloads \cap Uploads = {} /\ Abroad \subseteq Downloads
  /\ None \notin Downloads \cup Uploads
  /\ Serials \subseteq Nat /\ Serials # {} /\ Sizes \cup {UploadSize} \subseteq Nat \ {0}
  /\ MaxFaults \in Nat

Clients == {"main", "child"}
Part == 2   \* FILE_PART_SIZE
Parts(n) == (n + Part - 1) \div Part

VARIABLES
  link,      \* of each client: "none" (not made), "down", "up" (initialized) or "auth"
  signed,    \* hasUserId() of the child
  importing, \* importMethod is set, to be sent when the child is initialized
  exports,   \* migrationForDc of the main client: ids of export requests
  calls,     \* requests the server has, or the transport holds
  size,      \* actual length of each file
  length,    \* TgFileCtx::length
  dl,        \* downloads: see NoDownloads
  ul,        \* uploads: files under way, parts sent and what is left
  alive,     \* the process has not died of a division by zero
  begun,     \* files a transfer was begun of
  drops, renames, errors,
  \* history, read by the properties only
  told,      \* what was emitted about each file, in order
  disk,      \* parts written to each download, in order
  stored     \* parts of each upload the server acknowledged, in order

bounds  == <<drops, renames, errors>>
auth    == <<signed, importing, exports>>
history == <<told, disk, stored>>
vars    == <<link, auth, calls, size, length, dl, ul, alive, begun, bounds, history>>

Files == Downloads \cup Uploads

\* A message id is unique; here it names the file it is about, too.
Ids == (Files \cup {None}) \X Serials
Call == [id : Ids, at : Clients, kind : {"get", "save", "export", "import"},
         file : Files \cup {None}, part : Nat, held : BOOLEAN]

\* processedDownloadFiles, currentDownloading and filePackets of each client;
\* queue, currentPart and bytesLeft of each context.
NoDownloads ==
  [files |-> [c \in Clients |-> {}], cur |-> [c \in Clients |-> None],
   packets |-> [c \in Clients |-> {}],
   queue |-> [f \in Downloads |-> {}], part |-> [f \in Downloads |-> 0],
   left |-> [f \in Downloads |-> 0]]

Init ==
  /\ link = [main |-> "auth", child |-> "none"]
  /\ signed = FALSE /\ importing = FALSE /\ exports = {} /\ calls = {}
  /\ size \in {n \in [Files -> Sizes \cup {UploadSize}] :
                \A f \in Files : n[f] \in IF f \in Uploads THEN {UploadSize} ELSE Sizes}
  /\ length = [f \in Files |-> 0]
  /\ dl = NoDownloads
  /\ ul = [files |-> {}, part |-> [f \in Uploads |-> 0], left |-> [f \in Uploads |-> 0]]
  /\ alive = TRUE /\ begun = {} /\ drops = 0 /\ renames = 0 /\ errors = 0
  /\ told = [f \in Files |-> <<>>] /\ disk = [f \in Downloads |-> <<>>]
  /\ stored = [f \in Uploads |-> <<>>]

-----------------------------------------------------------------------------
(***************************************************************************)
(* The state a handler hands on: the transfers, the requests and what was  *)
(* emitted.                                                                *)
(***************************************************************************)
Here == [d |-> dl, u |-> ul, calls |-> calls, told |-> told]
Become(w) == dl' = w.d /\ ul' = w.u /\ calls' = w.calls /\ told' = w.told

Connected(c) == link[c] \in {"up", "auth"}
Authorized(c) == link[c] = "auth"

Used(w) == {m.id : m \in w.calls} \cup exports
           \cup {p.id : p \in w.d.packets["main"] \cup w.d.packets["child"]}
           \cup UNION {w.d.queue[f] : f \in Downloads}
Fresh(w, f) ==
  LET ids == {f} \X Serials
  IN CHOOSE id \in ids : id \notin Used(w) \/ ids \subseteq Used(w)

\* A request written to a connected socket.
Sent(w, id, c, kind, k) ==
  w.calls \cup {[id |-> id, at |-> c, kind |-> kind, file |-> id[1], part |-> k,
                 held |-> FALSE]}

Without(m) == [Here EXCEPT !.calls = @ \ {m}]

\* The file filePackets knows a request of, or 0, and filePackets.take().
FileOf(m) ==
  IF \E p \in dl.packets[m.at] : p.id = m.id
  THEN (CHOOSE p \in dl.packets[m.at] : p.id = m.id).file ELSE None
Taken(m) == [Without(m) EXCEPT !.d.packets[m.at] = {p \in @ : p.id # m.id}]

\* The context stays in processedDownloadFiles.
EndedKept(w, c, f, how) == [w EXCEPT !.told[f] = Append(@, how)]

Ended(w, c, f, how) ==
  [w EXCEPT !.d.files[c] = @ \ {f}, !.told[f] = Append(@, how)]

-----------------------------------------------------------------------------
(***************************************************************************)
(* downloadNextFilePart().  Which file is begun next is up to the hash.    *)
(***************************************************************************)
AllReceived(w, f) == length[f] # 0 /\ w.d.left[f] <= 0

RequestPart(w, c, f) ==
  LET id == Fresh(w, f) IN
  [w EXCEPT !.d.part[f] = @ + 1, !.d.queue[f] = @ \cup {id},
            !.d.packets[c] = @ \cup {[id |-> id, file |-> f]},
            !.calls = Sent(w, id, c, "get", w.d.part[f])]

\* Without looking at the queue.
WithCurrentTwice(w, c) ==
  LET f == w.d.cur[c] IN
  IF f \notin w.d.files[c] THEN w
  ELSE IF AllReceived(w, f) THEN Ended(w, c, f, "done")
  ELSE RequestPart(w, c, f)

WithCurrent(w, c) ==
  LET f == w.d.cur[c] IN
  IF f \notin w.d.files[c] THEN w
  ELSE IF w.d.queue[f] # {} THEN w
  ELSE IF AllReceived(w, f) THEN Ended(w, c, f, "done")
  ELSE RequestPart(w, c, f)

DownloadNext(w, c, authorized) ==
  IF ~authorized THEN {w}
  ELSE IF w.d.files[c] = {} THEN {[w EXCEPT !.d.cur[c] = None]}
  ELSE {WithCurrent([w EXCEPT !.d.cur[c] = f], c) :
          f \in IF w.d.cur[c] = None THEN w.d.files[c] ELSE {w.d.cur[c]}}

\* currentDownloading still names the file that ended.
SameFile(w, c) == DownloadNext(w, c, Authorized(c))

\* How a handler ends that has finished with a file: "currentDownloading = 0".
NextFile(w, c) == DownloadNext([w EXCEPT !.d.cur[c] = None], c, Authorized(c))

\* handleAuthorized() leaves the downloads alone.
NoResume(w, c) == {w}

\* handleAuthorized(): only if something waits.
Resume(w, c) == IF w.d.files[c] = {} THEN {w} ELSE DownloadNext(w, c, TRUE)

-----------------------------------------------------------------------------
(***************************************************************************)
(* downloadFile(), asked of client c with a length that may be unknown.    *)
(* Its callers want the main client authorized.                            *)
(***************************************************************************)
Opened(w, c, f, n) == [w EXCEPT !.d.files[c] = @ \cup {f}, !.d.left[f] = n,
                                !.d.part[f] = 0, !.d.queue[f] = {}]

Made == [link EXCEPT !["child"] = IF @ = "none" THEN "down" ELSE @]

Download(f, c) ==
  /\ Authorized("main") /\ f \notin begun
  /\ begun' = begun \cup {f}
  /\ link' = IF c = "child" THEN Made ELSE link
  /\ \E n \in {0, size[f]} :
       /\ length' = [length EXCEPT ![f] = n]
       /\ \E w \in DownloadNext(Opened(Here, c, f, n), c, Authorized(c)) : Become(w)
  /\ UNCHANGED <<auth, size, alive, bounds, disk, stored>>

\* cancelDownload(), which only the main client is asked for.
Stopped(w, c, f) == NextFile(Ended(w, c, f, "cancel"), c)

CancelDownload(f) ==
  /\ f \in dl.files["main"]
  /\ \E w \in Stopped(Here, "main", f) : Become(w)
  /\ disk' = [disk EXCEPT ![f] = <<>>]
  /\ UNCHANGED <<link, auth, size, length, alive, begun, bounds, stored>>

-----------------------------------------------------------------------------
(***************************************************************************)
(* Replies about a part.  The server sends what it has of it, or refuses   *)
(* an offset at or past the end, and only for a file of its data centre.   *)
(***************************************************************************)
MayFail == drops + renames + errors < MaxFaults
Replied(m, kind) == m \in calls /\ m.kind = kind /\ ~m.held /\ Connected(m.at)
AtHome(m) == (m.file \in Abroad) <=> (m.at = "child")
Rest(m) == size[m.file] - Part * m.part

\* handleDownloadingFile()
Received(m, f, n) == [Taken(m) EXCEPT !.d.left[f] = @ - n, !.d.queue[f] = @ \ {m.id}]

HandleDownloadingFile(m) ==
  LET f == FileOf(m)
      n == IF Rest(m) > Part THEN Part ELSE IF Rest(m) < 0 THEN 0 ELSE Rest(m)
  IN
  /\ Replied(m, "get") /\ AtHome(m)
  /\ \/ /\ f \notin dl.files[m.at]
        /\ \E w \in DownloadNext(Taken(m), m.at, Authorized(m.at)) : Become(w)
        /\ UNCHANGED <<alive, disk>>
     \/ /\ f \in dl.files[m.at] /\ n # Part
        /\ \E w \in NextFile(Ended(Received(m, f, n), m.at, f, "done"), m.at) : Become(w)
        /\ disk' = IF n = 0 THEN disk ELSE [disk EXCEPT ![f] = Append(@, m.part)]
        /\ UNCHANGED alive
     \/ /\ f \in dl.files[m.at] /\ n = Part
        /\ \E w \in DownloadNext(Received(m, f, n), m.at, Authorized(m.at)) : Become(w)
        /\ disk' = [disk EXCEPT ![f] = Append(@, m.part)]
        \* the progress in per cent of a length of 0
        /\ alive' \in IF length[f] = 0 THEN BOOLEAN ELSE {TRUE}
  /\ UNCHANGED <<link, auth, size, length, begun, bounds, stored>>

\* OFFSET_INVALID: fileProbablyDownloaded()
FileProbablyDownloaded(m) ==
  LET f == FileOf(m) IN
  /\ Replied(m, "get") /\ AtHome(m) /\ Rest(m) <= 0
  /\ IF f \in dl.files[m.at]
     THEN \E w \in NextFile(Ended(Taken(m), m.at, f, "done"), m.at) : Become(w)
     ELSE Become(Taken(m))
  /\ UNCHANGED <<link, auth, size, length, alive, begun, bounds, disk, stored>>

\* FILE_MIGRATE: migrateFileTo(), through downloadFile() of the main client.
MigrateFileTo(m) ==
  LET f == FileOf(m)
      to == IF m.file \in Abroad THEN "child" ELSE "main"
      Moved == Opened([Taken(m) EXCEPT !.d.files[m.at] = @ \ {f}], to, f, length[f])
  IN
  /\ Replied(m, "get") /\ ~AtHome(m)
  /\ IF f \in dl.files[m.at]
     THEN /\ \E v \in DownloadNext(Moved, to, Authorized(to)) :
               \E w \in NextFile(v, m.at) : Become(w)
          /\ link' = IF to = "child" THEN Made ELSE link
          /\ disk' = [disk EXCEPT ![f] = <<>>]
     ELSE Become(Taken(m)) /\ UNCHANGED <<link, disk>>
  /\ UNCHANGED <<auth, size, length, alive, begun, bounds, stored>>

\* FILE_ID_INVALID: cancelDownload() of the client that asked.
FileIdInvalid(m) ==
  LET f == FileOf(m) IN
  /\ Replied(m, "get") /\ MayFail
  /\ errors' = errors + 1
  /\ IF f \in dl.files[m.at]
     THEN /\ \E w \in Stopped(Taken(m), m.at, f) : Become(w)
          /\ disk' = [disk EXCEPT ![f] = <<>>]
     ELSE Become(Taken(m)) /\ UNCHANGED disk
  /\ UNCHANGED <<link, auth, size, length, alive, begun, drops, renames, stored>>

\* Any other error of any request here: nobody handles it.
Refused(m) ==
  /\ m \in calls /\ ~m.held /\ Connected(m.at) /\ MayFail
  /\ errors' = errors + 1
  /\ Become(Without(m))
  /\ UNCHANGED <<link, auth, size, length, alive, begun, drops, renames, disk, stored>>

-----------------------------------------------------------------------------
(***************************************************************************)
(* Uploads, of the main client.  Each has one part under way; its queue is *)
(* written and never read, and left out.                                   *)
(***************************************************************************)
EndedUpload(w, f, how) ==
  [w EXCEPT !.u.files = @ \ {f}, !.told[f] = Append(@, how)]

UploadPart(w, f) ==
  LET id == Fresh(w, f) IN
  [w EXCEPT !.u.part[f] = @ + 1,
            !.u.left[f] = IF @ > Part THEN @ - Part ELSE 0,
            !.d.packets["main"] = @ \cup {[id |-> id, file |-> f]},
            !.calls = Sent(w, id, "main", "save", w.u.part[f])]

\* Done when the last part is about to be sent.
UploadNextEarly(w, f) ==
  IF ~Authorized("main") \/ f \notin w.u.files THEN w
  ELSE IF w.u.left[f] < Part THEN EndedUpload(w, f, "done")
  ELSE UploadPart(w, f)

UploadNext(w, f) ==
  IF ~Authorized("main") \/ f \notin w.u.files THEN w
  ELSE IF w.u.left[f] <= 0 THEN EndedUpload(w, f, "done")
  ELSE UploadPart(w, f)

UploadFile(f) ==
  /\ f \notin begun
  /\ begun' = begun \cup {f}
  /\ length' = [length EXCEPT ![f] = size[f]]
  /\ Become(UploadNext([Here EXCEPT !.u.files = @ \cup {f}, !.u.left[f] = size[f]], f))
  /\ UNCHANGED <<link, auth, size, alive, bounds, disk, stored>>

CancelUpload(f) ==
  /\ f \in ul.files
  /\ Become(EndedUpload(Here, f, "cancel"))
  /\ UNCHANGED <<link, auth, size, length, alive, begun, bounds, disk, stored>>

\* handleBool(), and handleUploadingFile()
HandleUploadingFile(m, response) ==
  LET f == FileOf(m) IN
  /\ Replied(m, "save")
  /\ IF response
     THEN /\ Become(UploadNext(Taken(m), f))
          /\ stored' = [stored EXCEPT ![m.file] = Append(@, m.part)]
          /\ UNCHANGED errors
     ELSE /\ MayFail /\ errors' = errors + 1
          /\ Become(IF f \in ul.files THEN EndedUpload(Taken(m), f, "cancel") ELSE Taken(m))
          /\ UNCHANGED stored
  /\ UNCHANGED <<link, auth, size, length, alive, begun, drops, renames, disk>>

-----------------------------------------------------------------------------
(***************************************************************************)
(* A request is sent again under a new id: at once after a refused salt,   *)
(* at the keepalive after a flood wait.  handleMessageChanged() renames.   *)
(***************************************************************************)
RenamedIn(S, m, id) == {IF p.id = m.id THEN [p EXCEPT !.id = id] ELSE p : p \in S}

Resend(m) ==
  LET id == Fresh(Here, m.file)
      f == FileOf(m)
  IN
  /\ m \in calls /\ Connected(m.at)
  /\ IF m.held THEN UNCHANGED renames ELSE MayFail /\ renames' = renames + 1
  /\ calls' = (calls \ {m}) \cup {[m EXCEPT !.id = id, !.held = FALSE]}
  /\ exports' = IF m.id \in exports THEN (exports \ {m.id}) \cup {id} ELSE exports
  /\ dl' = [dl EXCEPT !.packets[m.at] = RenamedIn(@, m, id),
                      !.queue = [g \in Downloads |->
                        IF g = f /\ f \in dl.files[m.at]
                        THEN (@[g] \ {m.id}) \cup {id} ELSE @[g]]]
  /\ UNCHANGED <<link, signed, importing, size, length, ul, alive, begun, drops, errors, history>>

\* FLOOD_WAIT: the transport holds the request, also while it is disconnected.
FloodWait(m) ==
  /\ m \in calls /\ ~m.held /\ Connected(m.at) /\ MayFail
  /\ renames' = renames + 1
  /\ calls' = (calls \ {m}) \cup {[m EXCEPT !.held = TRUE]}
  /\ UNCHANGED <<link, auth, size, length, dl, ul, alive, begun, drops, errors, history>>

-----------------------------------------------------------------------------
(***************************************************************************)
(* Connections.  What was not answered when one is lost may never be, or   *)
(* be answered on the next one.                                            *)
(***************************************************************************)
Disconnected(c) ==
  /\ Connected(c) /\ MayFail
  /\ drops' = drops + 1
  /\ link' = [link EXCEPT ![c] = "down"]
  /\ \E lost \in SUBSET {m \in calls : m.at = c /\ ~m.held} : calls' = calls \ lost
  /\ UNCHANGED <<auth, size, length, dl, ul, alive, begun, renames, errors, history>>

MainInitialized ==
  /\ link["main"] = "down"
  /\ link' = [link EXCEPT !["main"] = "up"]
  /\ UNCHANGED <<auth, calls, size, length, dl, ul, alive, begun, bounds, history>>

MainAuthorized ==
  /\ link["main"] = "up"
  /\ link' = [link EXCEPT !["main"] = "auth"]
  /\ \E w \in Resume(Here, "main") : Become(w)
  /\ UNCHANGED <<auth, size, length, alive, begun, bounds, disk, stored>>

\* handleInitialized() of the child: a saved import goes out; without an account
\* it asks the main client for one; with one it is authorized at once.
Export(w) == IF Connected("main") THEN [w EXCEPT !.calls = Sent(w, Fresh(w, None), "main", "export", 0)]
             ELSE w
Import(w) == [w EXCEPT !.calls = Sent(w, Fresh(w, None), "child", "import", 0)]

ChildInitialized ==
  LET w == IF importing THEN Import(Here) ELSE Here IN
  /\ link["child"] = "down"
  /\ importing' = FALSE
  /\ IF signed
     THEN /\ link' = [link EXCEPT !["child"] = "auth"]
          /\ \E v \in Resume(w, "child") : Become(v)
          /\ UNCHANGED exports
     ELSE /\ link' = [link EXCEPT !["child"] = "up"]
          /\ exports' = exports \cup {Fresh(w, None)}
          /\ Become(Export(w))
  /\ UNCHANGED <<signed, size, length, alive, begun, bounds, disk, stored>>

\* The exported authorization arrives; importAuthorization() of the child.
HandleExported(m) ==
  /\ Replied(m, "export")
  /\ exports' = exports \ {m.id}
  /\ IF m.id \in exports /\ Connected("child")
     THEN Become(Import(Without(m))) /\ UNCHANGED importing
     ELSE Become(Without(m)) /\ importing' = (importing \/ m.id \in exports)
  /\ UNCHANGED <<link, signed, size, length, alive, begun, bounds, disk, stored>>

\* The imported one is accepted; handleAuthorized() of the child.
HandleImported(m) ==
  /\ Replied(m, "import")
  /\ signed' = TRUE
  /\ link' = [link EXCEPT !["child"] = "auth"]
  /\ \E w \in Resume(Without(m), "child") : Become(w)
  /\ UNCHANGED <<importing, exports, size, length, alive, begun, bounds, disk, stored>>

-----------------------------------------------------------------------------
Reply == \E m \in calls :
  \/ HandleDownloadingFile(m) \/ FileProbablyDownloaded(m) \/ MigrateFileTo(m)
  \/ HandleUploadingFile(m, TRUE) \/ HandleExported(m) \/ HandleImported(m)

System ==
  \/ Reply
  \/ (\E m \in calls : m.held /\ Resend(m))
  \/ MainInitialized \/ MainAuthorized \/ ChildInitialized

User ==
  \/ \E f \in Downloads : CancelDownload(f) \/ \E c \in Clients : Download(f, c)
  \/ \E f \in Uploads : UploadFile(f) \/ CancelUpload(f)

Faults ==
  \/ \E c \in Clients : Disconnected(c)
  \/ \E m \in calls : \/ ~m.held /\ Resend(m)
                      \/ FloodWait(m) \/ FileIdInvalid(m) \/ Refused(m)
                      \/ HandleUploadingFile(m, FALSE)

Next == alive /\ (System \/ User \/ Faults)

Spec == Init /\ [][Next]_vars

\* The server answers, the keepalive ticks and lost connections come back.  No
\* run of System's steps alone is endless, so one condition serves them all.
FairSpec == Spec /\ WF_vars(alive /\ System)

-----------------------------------------------------------------------------
(***************************************************************************)
(* What the transfers promise.                                             *)
(***************************************************************************)
Waiting == dl.files["main"] \cup dl.files["child"]
Upto(k) == [i \in 1 .. k |-> i - 1]

\* The types of all variables of the transfers.
FilesTypeOK ==
  /\ link \in [Clients -> {"none", "down", "up", "auth"}]
  /\ {signed, importing, alive} \subseteq BOOLEAN
  /\ exports \subseteq Ids /\ calls \subseteq Call /\ begun \subseteq Files
  /\ length \in [Files -> Nat] /\ size \in [Files -> Nat]
  /\ dl \in [files : [Clients -> SUBSET Downloads],
             cur : [Clients -> Downloads \cup {None}],
             packets : [Clients -> SUBSET [id : Ids, file : Files]],
             queue : [Downloads -> SUBSET Ids], part : [Downloads -> Nat],
             left : [Downloads -> Int]]
  /\ ul \in [files : SUBSET Uploads, part : [Uploads -> Nat], left : [Uploads -> Nat]]
  /\ told \in [Files -> Seq({"done", "cancel"})]
  /\ disk \in [Downloads -> Seq(Nat)] /\ stored \in [Uploads -> Seq(Nat)]

(***************************************************************************)
(* The parts of a file are appended as they come, without their offset: at *)
(* every moment the file on disk is a beginning of the real one, and all   *)
(* of it when the interface is told so, through renames, migrations,       *)
(* cancels and a current file that changes under a part in flight.         *)
(***************************************************************************)
DiskIsPrefix ==
  \A f \in Downloads :
    /\ disk[f] = Upto(Len(disk[f]))
    /\ told[f] = <<"done">> => Len(disk[f]) = Parts(size[f])

\* The same for what the server holds of an upload when it is reported done.
UploadIsWhole ==
  \A f \in Uploads : told[f] = <<"done">> => stored[f] = Upto(Parts(size[f]))

(***************************************************************************)
(* A file that was begun is with one client until the one signal about its *)
(* end, and nothing is emitted about it afterwards: who waits for a file   *)
(* drops its mark at that signal and at no other time.                     *)
(* (With the types of the variables.)                                      *)
(***************************************************************************)
ToldOnce ==
  /\ FilesTypeOK
  /\ dl.files["main"] \cap dl.files["child"] = {}
  /\ \A f \in begun : Len(told[f]) = IF f \in Waiting \cup ul.files THEN 0 ELSE 1

(***************************************************************************)
(* Why downloads of an authorized client stand still.  Deaf: the file in   *)
(* turn waits for a part nobody will answer.  Dangling: the file in turn   *)
(* ended when a full part completed it, and nothing chose another.         *)
(***************************************************************************)
Deaf(c) ==
  /\ dl.cur[c] \in dl.files[c] /\ dl.queue[dl.cur[c]] # {}
  /\ \A m \in calls : m.id \notin dl.queue[dl.cur[c]]

Dangling(c) == /\ dl.cur[c] \in Downloads \ dl.files[c]
               /\ told[dl.cur[c]] = <<"done">>
               /\ length[dl.cur[c]] # 0 /\ size[dl.cur[c]] % Part = 0

(***************************************************************************)
(* These are the only reasons: otherwise an authorized client with files   *)
(* to fetch has a part of one of them in flight.                           *)
(***************************************************************************)
NeverIdle ==
  alive => \A c \in Clients : Authorized(c) /\ dl.files[c] # {} =>
    \/ \E m \in calls : m.at = c /\ m.kind = "get" /\ m.file \in dl.files[c]
    \/ Deaf(c) \/ Dangling(c)

(***************************************************************************)
(* Every transfer ends, in one of the ways the interface hears of.  The    *)
(* exceptions: a client whose downloads stand still for one of the two     *)
(* reasons, another data centre that was not signed in to because an       *)
(* answer was lost, an upload that lost an answer, and the division.       *)
(***************************************************************************)
Lost == drops + errors > 0
Stuck ==
  \/ ~alive
  \/ \E c \in Clients : Deaf(c) \/ Dangling(c)
  \/ Lost /\ ul.files # {}
  \/ Lost /\ dl.files["child"] # {} /\ ~signed

TransfersEnd == (Waiting \cup ul.files # {}) ~> (Waiting \cup ul.files = {} \/ Stuck)
=============================================================================
