---------------------------- MODULE FilesProofs ----------------------------
(***************************************************************************)
(* Files on disk and on the server are whole when the interface hears so,  *)
(* every transfer is reported once, and downloads stand still for two      *)
(* reasons only, for any files, lengths and faults.                        *)
(***************************************************************************)
EXTENDS Files, TLAPS

(***************************************************************************)
(* The state handed from one step of a handler to the next, w, with what   *)
(* the properties compare it to: the sizes z, the lengths l, the disk k,   *)
(* what the server stored s and the files begun b.                         *)
(***************************************************************************)
DownState ==
  [files : [Clients -> SUBSET Downloads], cur : [Clients -> Downloads \cup {None}],
   packets : [Clients -> SUBSET [id : Ids, file : Files]],
   queue : [Downloads -> SUBSET Ids], part : [Downloads -> Nat],
   left : [Downloads -> Int]]

UpState == [files : SUBSET Uploads, part : [Uploads -> Nat], left : [Uploads -> Nat]]

Handed == [d : DownState, u : UpState, calls : SUBSET Call,
           told : [Files -> Seq({"done", "cancel"})]]

Reported == {<<"done">>, <<"cancel">>}

\* No file has two requests under way, and filePackets knows each of them.
Asked(w) ==
  /\ \A m \in w.calls :
       /\ m.id[1] = m.file
       /\ m.kind = "get" <=> m.file \in Downloads
       /\ m.kind = "save" <=> m.file \in Uploads
       /\ m.file # None => [id |-> m.id, file |-> m.file] \in w.d.packets[m.at]
  /\ \A m, n \in w.calls : m.file = n.file /\ m.file # None => m = n
  /\ \A c \in Clients : \A p \in w.d.packets[c] : p.id[1] = p.file

Unasked(w, f) == \A m \in w.calls : m.file # f

Held(w, f) == \E c \in Clients : f \in w.d.files[c]

\* A download: what is on disk is a beginning of the file, the part in flight
\* is the one that comes next, and nothing happens to it before or after.
Fetched(z, w, l, k, b, f) ==
  LET q == w.d.queue[f]
      n == Len(k[f])
  IN
  /\ l[f] \in {0, z[f]} /\ k[f] = Upto(n)
  /\ f \notin b => /\ ~Held(w, f) /\ Unasked(w, f)
                   /\ w.told[f] = <<>> /\ n = 0 /\ l[f] = 0
  /\ ~(f \in w.d.files["main"] /\ f \in w.d.files["child"])
  /\ \A i, j \in q : i = j /\ i[1] = f
  /\ \A c \in Clients : f \in w.d.files[c] =>
       /\ w.told[f] = <<>> /\ Part * n <= z[f]
       /\ w.d.left[f] = l[f] - Part * n
       /\ w.d.part[f] = IF q = {} THEN n ELSE n + 1
       /\ \A m \in w.calls : m.file = f => m.at = c /\ m.id \in q /\ m.part = n
  /\ f \in b /\ ~Held(w, f) => w.told[f] \in Reported
  /\ w.told[f] = <<"done">> => n = Parts(z[f])

\* An upload: the server holds the parts before the one under way.
Sending(z, w, s, b, f) ==
  LET n == w.u.part[f] IN
  /\ f \notin b => /\ f \notin w.u.files /\ Unasked(w, f)
                   /\ w.told[f] = <<>> /\ s[f] = <<>> /\ n = 0
  /\ f \in w.u.files =>
       /\ w.told[f] = <<>>
       /\ w.u.left[f] = IF z[f] > Part * n THEN z[f] - Part * n ELSE 0
       /\ n # 0 => Part * (n - 1) < z[f]
       /\ \A m \in w.calls : m.file = f =>
            m.at = "main" /\ m.part + 1 = n /\ s[f] = Upto(m.part)
  /\ f \in b \ w.u.files => w.told[f] \in Reported
  /\ w.told[f] = <<"done">> => Unasked(w, f) /\ s[f] = Upto(Parts(z[f]))

World(z, l, k, s, b) ==
  /\ z \in [Files -> Nat \ {0}] /\ l \in [Files -> Nat] /\ b \subseteq Files
  /\ k \in [Downloads -> Seq(Nat)] /\ s \in [Uploads -> Seq(Nat)]

InOrder(z, w, l, k, s, b) ==
  /\ World(z, l, k, s, b) /\ w \in Handed /\ Asked(w)
  /\ \A f \in Downloads : Fetched(z, w, l, k, b, f)
  /\ \A f \in Uploads : Sending(z, w, s, b, f)

-----------------------------------------------------------------------------
(***************************************************************************)
(* Parts, ids and the fields of what is handed on.                         *)
(***************************************************************************)
\* The parts of a beginning, in order.
LEMMA UptoFact ==
  ASSUME NEW n \in Nat
  PROVE  /\ Upto(n) \in Seq(Nat) /\ Len(Upto(n)) = n
         /\ Append(Upto(n), n) = Upto(n + 1)
<1>1. Upto(n) \in Seq(Nat) /\ Len(Upto(n)) = n
  BY DEF Upto
<1>2. Upto(n + 1) \in Seq(Nat) /\ Len(Upto(n + 1)) = n + 1
  BY DEF Upto
<1>3. Append(Upto(n), n) \in Seq(Nat) /\ Len(Append(Upto(n), n)) = n + 1
  BY <1>1
<1>4. ASSUME NEW i \in 1 .. n + 1 PROVE Append(Upto(n), n)[i] = Upto(n + 1)[i]
  BY <1>1 DEF Upto
<1>. QED
  BY <1>1, <1>2, <1>3, <1>4

\* Nothing on disk is the beginning of no parts.
LEMMA UptoNone ==
  /\ Upto(0) = <<>> /\ Len(<<>>) = 0 /\ <<>> \in Seq(Nat)
  /\ \A q \in Seq(Nat) : Len(q) = 0 => q = <<>>
BY DEF Upto

\* A message id drawn for a file names it.
LEMMA FreshFact ==
  ASSUME FilesAssumption, NEW w, NEW f \in Files \cup {None}
  PROVE  Fresh(w, f) \in Ids /\ Fresh(w, f)[1] = f
<1>. DEFINE ids == {f} \X Serials
            P(id) == id \notin Used(w) \/ ids \subseteq Used(w)
<1>1. \E id \in ids : P(id)
  <2>1. PICK k \in Serials : TRUE
    BY DEF FilesAssumption
  <2>2. <<f, k>> \in ids
    OBVIOUS
  <2>3. ids \subseteq Used(w) \/ \E id \in ids : id \notin Used(w)
    OBVIOUS
  <2>. QED
    BY <2>2, <2>3
<1>. HIDE DEF P
<1>2. (CHOOSE id \in ids : P(id)) \in ids
  BY <1>1
<1>3. Fresh(w, f) \in ids
  BY <1>2 DEF Fresh, P
<1>. QED
  BY <1>3 DEF Ids

\* The fields of the state handed on.
LEMMA HandedFields ==
  ASSUME NEW w \in Handed
  PROVE  /\ w.d.files \in [Clients -> SUBSET Downloads]
         /\ w.d.cur \in [Clients -> Downloads \cup {None}]
         /\ w.d.packets \in [Clients -> SUBSET [id : Ids, file : Files]]
         /\ w.d.queue \in [Downloads -> SUBSET Ids]
         /\ w.d.part \in [Downloads -> Nat] /\ w.d.left \in [Downloads -> Int]
         /\ w.u.files \in SUBSET Uploads /\ w.u.part \in [Uploads -> Nat]
         /\ w.u.left \in [Uploads -> Nat]
         /\ w.calls \in SUBSET Call /\ w.told \in [Files -> Seq({"done", "cancel"})]
BY DEF Handed, DownState, UpState

\* What has been reported about a file is one signal.
LEMMA ReportFact ==
  ASSUME NEW how \in {"done", "cancel"}
  PROVE  /\ Append(<<>>, how) = <<how>> /\ <<how>> \in Reported
         /\ <<how>> \in Seq({"done", "cancel"}) /\ Len(<<how>>) = 1
         /\ (<<how>> = <<"done">> => how = "done") /\ <<>> # <<"done">>
BY DEF Reported

-----------------------------------------------------------------------------
(***************************************************************************)
(* What a step leaves alone.                                               *)
(***************************************************************************)
SameDown(w, v, f) ==
  /\ \A c \in Clients : f \in v.d.files[c] <=> f \in w.d.files[c]
  /\ v.d.queue[f] = w.d.queue[f] /\ v.d.part[f] = w.d.part[f]
  /\ v.d.left[f] = w.d.left[f] /\ v.told[f] = w.told[f]
  /\ \A m \in v.calls : m.file = f => m \in w.calls

SameUp(w, v, f) ==
  /\ f \in v.u.files <=> f \in w.u.files
  /\ v.u.part[f] = w.u.part[f] /\ v.u.left[f] = w.u.left[f] /\ v.told[f] = w.told[f]
  /\ \A m \in v.calls : m.file = f => m \in w.calls

\* A download that a step leaves alone stays in order.
LEMMA FetchedSame ==
  ASSUME NEW z, NEW w, NEW v, NEW l, NEW l2, NEW k, NEW k2, NEW b, NEW b2, NEW f,
         Fetched(z, w, l, k, b, f), SameDown(w, v, f),
         l2[f] = l[f], k2[f] = k[f], f \in b2 <=> f \in b
  PROVE  Fetched(z, v, l2, k2, b2, f)
<1>1. (Held(v, f) <=> Held(w, f)) /\ (Unasked(w, f) => Unasked(v, f))
  BY DEF SameDown, Held, Unasked
<1>. QED
  BY <1>1 DEF Fetched, SameDown, Clients

\* So does an upload.
LEMMA SendingSame ==
  ASSUME NEW z, NEW w, NEW v, NEW s, NEW s2, NEW b, NEW b2, NEW f,
         Sending(z, w, s, b, f), SameUp(w, v, f),
         s2[f] = s[f], f \in b2 <=> f \in b
  PROVE  Sending(z, v, s2, b2, f)
<1>1. Unasked(w, f) => Unasked(v, f)
  BY DEF SameUp, Unasked
<1>. QED
  BY <1>1 DEF Sending, SameUp

\* A step about one download.
LEMMA OneDownload ==
  ASSUME NEW z, NEW w, NEW l, NEW k, NEW s, NEW b, InOrder(z, w, l, k, s, b),
         NEW v \in Handed, NEW l2, NEW k2, NEW b2, World(z, l2, k2, s, b2), Asked(v),
         NEW f \in Downloads, Fetched(z, v, l2, k2, b2, f),
         \A g \in Downloads \ {f} : /\ SameDown(w, v, g) /\ l2[g] = l[g] /\ k2[g] = k[g]
                                   /\ (g \in b2 <=> g \in b),
         \A g \in Uploads : SameUp(w, v, g) /\ (g \in b2 <=> g \in b)
  PROVE  InOrder(z, v, l2, k2, s, b2)
<1>1. ASSUME NEW g \in Downloads PROVE Fetched(z, v, l2, k2, b2, g)
  <2>1. CASE g # f
    <3>1. /\ SameDown(w, v, g) /\ l2[g] = l[g] /\ k2[g] = k[g] /\ (g \in b2 <=> g \in b)
      BY <2>1
    <3>2. Fetched(z, w, l, k, b, g)
      BY DEF InOrder
    <3>. QED
      BY <3>1, <3>2, FetchedSame
  <2>. QED
    BY <2>1
<1>2. ASSUME NEW g \in Uploads PROVE Sending(z, v, s, b2, g)
  BY SendingSame DEF InOrder
<1>. QED
  BY <1>1, <1>2 DEF InOrder

\* A step about one upload.
LEMMA OneUpload ==
  ASSUME NEW z, NEW w, NEW l, NEW k, NEW s, NEW b, InOrder(z, w, l, k, s, b),
         NEW v \in Handed, NEW l2, NEW s2, NEW b2, World(z, l2, k, s2, b2), Asked(v),
         NEW f \in Uploads, Sending(z, v, s2, b2, f),
         \A g \in Uploads \ {f} : /\ SameUp(w, v, g) /\ s2[g] = s[g]
                                 /\ (g \in b2 <=> g \in b),
         \A g \in Downloads : SameDown(w, v, g) /\ l2[g] = l[g] /\ (g \in b2 <=> g \in b)
  PROVE  InOrder(z, v, l2, k, s2, b2)
<1>1. ASSUME NEW g \in Uploads PROVE Sending(z, v, s2, b2, g)
  <2>1. CASE g # f
    <3>1. /\ SameUp(w, v, g) /\ s2[g] = s[g] /\ (g \in b2 <=> g \in b)
      BY <2>1
    <3>2. Sending(z, w, s, b, g)
      BY DEF InOrder
    <3>. QED
      BY <3>1, <3>2, SendingSame
  <2>. QED
    BY <2>1
<1>2. ASSUME NEW g \in Downloads PROVE Fetched(z, v, l2, k, b2, g)
  BY FetchedSame DEF InOrder
<1>. QED
  BY <1>1, <1>2 DEF InOrder

\* A step about no file.
LEMMA NoFile ==
  ASSUME NEW z, NEW w, NEW l, NEW k, NEW s, NEW b, InOrder(z, w, l, k, s, b),
         NEW v \in Handed, Asked(v),
         \A g \in Downloads : SameDown(w, v, g), \A g \in Uploads : SameUp(w, v, g)
  PROVE  InOrder(z, v, l, k, s, b)
<1>1. ASSUME NEW g \in Downloads PROVE Fetched(z, v, l, k, b, g)
  BY FetchedSame DEF InOrder
<1>2. ASSUME NEW g \in Uploads PROVE Sending(z, v, s, b, g)
  BY SendingSame DEF InOrder
<1>. QED
  BY <1>1, <1>2 DEF InOrder

-----------------------------------------------------------------------------
(***************************************************************************)
(* The steps the download handlers are made of.  For each operator: what   *)
(* the state v it returns has changed of w, and that v is in order.        *)
(***************************************************************************)
\* Only the current file of a client changes.
SameButCur(w, v) ==
  /\ v.d.files = w.d.files /\ v.d.packets = w.d.packets /\ v.d.queue = w.d.queue
  /\ v.d.part = w.d.part /\ v.d.left = w.d.left
  /\ v.u = w.u /\ v.calls = w.calls /\ v.told = w.told

Chooses(w, v, c, f) == SameButCur(w, v) /\ v.d.cur = [w.d.cur EXCEPT ![c] = f]

\* A file is made the current one.
LEMMA CurFact ==
  ASSUME NEW w \in Handed, NEW c \in Clients, NEW f \in Downloads \cup {None}
  PROVE  [w EXCEPT !.d.cur[c] = f] \in Handed /\ Chooses(w, [w EXCEPT !.d.cur[c] = f], c, f)
<1>. DEFINE x == [w.d.cur EXCEPT ![c] = f]
            y == [w.d EXCEPT !.cur = x]
            v == [w EXCEPT !.d.cur[c] = f]
<1>1. v = [w EXCEPT !.d = y]
  BY DEF Handed, DownState
<1>. HIDE DEF v
<1>2. x \in [Clients -> Downloads \cup {None}]
  BY HandedFields
<1>. HIDE DEF x
<1>3. /\ y \in DownState
      /\ y.files = w.d.files /\ y.cur = x /\ y.packets = w.d.packets
      /\ y.queue = w.d.queue /\ y.part = w.d.part /\ y.left = w.d.left
  <2>1. w.d \in DownState
    BY DEF Handed
  <2>. QED
    BY <1>2, <2>1 DEF DownState
<1>. HIDE DEF y
<1>4. v \in Handed /\ SameButCur(w, v) /\ v.d.cur = x
  BY <1>1, <1>3 DEF Handed, SameButCur
<1>. QED
  BY <1>4 DEF v, x, Chooses

\* The current file changes.
LEMMA CurOrder ==
  ASSUME NEW z, NEW w, NEW l, NEW k, NEW s, NEW b, InOrder(z, w, l, k, s, b),
         NEW v \in Handed, SameButCur(w, v)
  PROVE  InOrder(z, v, l, k, s, b)
<1>1. Asked(v)
  BY DEF InOrder, Asked, SameButCur
<1>2. \A g \in Downloads : SameDown(w, v, g)
  BY DEF SameButCur, SameDown
<1>3. \A g \in Uploads : SameUp(w, v, g)
  BY DEF SameButCur, SameUp
<1>. QED
  BY <1>1, <1>2, <1>3, NoFile

EndsIt(w, v, c, f, how) ==
  /\ v.d.files = [w.d.files EXCEPT ![c] = @ \ {f}] /\ v.d.cur = w.d.cur
  /\ v.d.packets = w.d.packets /\ v.d.queue = w.d.queue
  /\ v.d.part = w.d.part /\ v.d.left = w.d.left /\ v.u = w.u /\ v.calls = w.calls
  /\ v.told = [w.told EXCEPT ![f] = <<how>>]

\* The end of a download.
LEMMA EndedFact ==
  ASSUME FilesAssumption, NEW w \in Handed, NEW c \in Clients, NEW f \in Downloads,
         NEW how \in {"done", "cancel"}, w.told[f] = <<>>
  PROVE  Ended(w, c, f, how) \in Handed /\ EndsIt(w, Ended(w, c, f, how), c, f, how)
<1>. DEFINE x == [w.d.files EXCEPT ![c] = @ \ {f}]
            y == [w.d EXCEPT !.files = x]
            t == [w.told EXCEPT ![f] = Append(@, how)]
            v == Ended(w, c, f, how)
<1>1. v = [w EXCEPT !.d = y, !.told = t]
  BY DEF Ended, Handed, DownState
<1>. HIDE DEF v
<1>2. x \in [Clients -> SUBSET Downloads]
  BY HandedFields
<1>3. f \in Files /\ t = [w.told EXCEPT ![f] = <<how>>]
  BY HandedFields, ReportFact DEF Files
<1>4. t \in [Files -> Seq({"done", "cancel"})]
  BY <1>3, HandedFields, ReportFact
<1>. HIDE DEF x, t
<1>5. /\ y \in DownState
      /\ y.files = x /\ y.cur = w.d.cur /\ y.packets = w.d.packets
      /\ y.queue = w.d.queue /\ y.part = w.d.part /\ y.left = w.d.left
  <2>1. w.d \in DownState
    BY DEF Handed
  <2>. QED
    BY <1>2, <2>1 DEF DownState
<1>. HIDE DEF y
<1>6. v \in Handed /\ v.d = y /\ v.u = w.u /\ v.calls = w.calls /\ v.told = t
  BY <1>1, <1>4, <1>5 DEF Handed
<1>7. v \in Handed
  BY <1>6
<1>8. /\ v.d.files = x /\ v.d.cur = w.d.cur /\ v.d.packets = w.d.packets
      /\ v.d.queue = w.d.queue /\ v.d.part = w.d.part /\ v.d.left = w.d.left
      /\ v.u = w.u /\ v.calls = w.calls /\ v.told = t
  BY <1>5, <1>6
<1>. QED
  BY <1>3, <1>7, <1>8 DEF v, x, EndsIt

GetCall(w, c, f) ==
  [id |-> Fresh(w, f), at |-> c, kind |-> "get", file |-> f, part |-> w.d.part[f],
   held |-> FALSE]

AsksIt(w, v, c, f) ==
  /\ v.d.files = w.d.files /\ v.d.cur = w.d.cur
  /\ v.d.packets = [w.d.packets EXCEPT ![c] = @ \cup {[id |-> Fresh(w, f), file |-> f]}]
  /\ v.d.queue = [w.d.queue EXCEPT ![f] = @ \cup {Fresh(w, f)}]
  /\ v.d.part = [w.d.part EXCEPT ![f] = @ + 1] /\ v.d.left = w.d.left
  /\ v.u = w.u /\ v.told = w.told /\ v.calls = w.calls \cup {GetCall(w, c, f)}

\* A part is asked for.
LEMMA RequestFact ==
  ASSUME FilesAssumption, NEW w \in Handed, NEW c \in Clients, NEW f \in Downloads
  PROVE  RequestPart(w, c, f) \in Handed /\ AsksIt(w, RequestPart(w, c, f), c, f)
<1>. DEFINE id == Fresh(w, f)
            p == [w.d.packets EXCEPT ![c] = @ \cup {[id |-> id, file |-> f]}]
            q == [w.d.queue EXCEPT ![f] = @ \cup {id}]
            n == [w.d.part EXCEPT ![f] = @ + 1]
            m == w.calls \cup
                   {[id |-> id, at |-> c, kind |-> "get", file |-> f, part |-> w.d.part[f],
                     held |-> FALSE]}
            y == [w.d EXCEPT !.part = n, !.queue = q, !.packets = p]
            v == RequestPart(w, c, f)
<1>1. id \in Ids /\ id[1] = f /\ f \in Files
  BY FreshFact DEF Files
<1>2. Sent(w, id, c, "get", w.d.part[f]) = m
  BY <1>1 DEF Sent
<1>3. v = [w EXCEPT !.d = y, !.calls = m]
  BY <1>2 DEF RequestPart, Handed, DownState
<1>. HIDE DEF v, id
<1>4. /\ p \in [Clients -> SUBSET [id : Ids, file : Files]]
      /\ q \in [Downloads -> SUBSET Ids] /\ n \in [Downloads -> Nat]
  BY <1>1, HandedFields
<1>5. m \in SUBSET Call
  <2>1. w.d.part[f] \in Nat /\ w.calls \in SUBSET Call
    BY HandedFields
  <2>. DEFINE a == [id |-> id, at |-> c, kind |-> "get", file |-> f, part |-> w.d.part[f],
                    held |-> FALSE]
  <2>2. a \in Call
    BY <1>1, <2>1 DEF Call
  <2>. QED
    BY <2>1, <2>2
<1>. HIDE DEF p, q, n, m
<1>6. /\ y \in DownState
      /\ y.files = w.d.files /\ y.cur = w.d.cur /\ y.packets = p
      /\ y.queue = q /\ y.part = n /\ y.left = w.d.left
  <2>1. w.d \in DownState
    BY DEF Handed
  <2>. QED
    BY <1>4, <2>1 DEF DownState
<1>. HIDE DEF y
<1>7. v \in Handed /\ v.d = y /\ v.u = w.u /\ v.calls = m /\ v.told = w.told
  BY <1>3, <1>5, <1>6 DEF Handed
<1>8. v \in Handed
  BY <1>7
<1>9. /\ v.d.files = w.d.files /\ v.d.cur = w.d.cur /\ v.d.packets = p
      /\ v.d.queue = q /\ v.d.part = n /\ v.d.left = w.d.left
      /\ v.u = w.u /\ v.calls = m /\ v.told = w.told
  BY <1>6, <1>7
<1>. QED
  BY <1>8, <1>9 DEF v, id, p, q, n, m, AsksIt, GetCall

\* What x has changed of w is what is left of f and is under way of it.
Half(w, x, f) ==
  /\ x.d.files = w.d.files /\ x.d.packets = w.d.packets
  /\ x.u = w.u /\ x.calls = w.calls /\ x.told = w.told
  /\ \A g \in Downloads \ {f} :
       /\ x.d.queue[g] = w.d.queue[g] /\ x.d.part[g] = w.d.part[g]
       /\ x.d.left[g] = w.d.left[g]
  /\ x.d.queue[f] \subseteq w.d.queue[f]

\* A download ends, whole or cancelled.
LEMMA EndedOrder ==
  ASSUME FilesAssumption,
         NEW z, NEW w, NEW l, NEW k, NEW s, NEW b, InOrder(z, w, l, k, s, b),
         NEW c \in Clients, NEW f \in w.d.files[c], NEW how \in {"done", "cancel"},
         NEW x \in Handed, Half(w, x, f),
         NEW k2 \in [Downloads -> Seq(Nat)],
         \A g \in Downloads \ {f} : k2[g] = k[g],
         k2[f] = Upto(Len(k2[f])), how = "done" => Len(k2[f]) = Parts(z[f])
  PROVE  /\ InOrder(z, Ended(x, c, f, how), l, k2, s, b)
         /\ EndsIt(x, Ended(x, c, f, how), c, f, how)
<1>1. f \in Downloads /\ w \in Handed
  BY HandedFields DEF InOrder
<1>2. Fetched(z, w, l, k, b, f)
  BY <1>1 DEF InOrder
<1>3. w.told[f] = <<>> /\ x.told[f] = <<>>
  BY <1>2 DEF Fetched, Half
<1>. DEFINE v == Ended(x, c, f, how)
<1>0. v \in Handed /\ EndsIt(x, v, c, f, how)
  BY <1>1, <1>3, EndedFact
<1>. HIDE DEF v
<1>4. /\ v \in Handed
      /\ v.d.files = [x.d.files EXCEPT ![c] = @ \ {f}] /\ v.d.cur = x.d.cur
      /\ v.d.packets = x.d.packets /\ v.d.queue = x.d.queue
      /\ v.d.part = x.d.part /\ v.d.left = x.d.left /\ v.u = x.u /\ v.calls = x.calls
      /\ v.told = [x.told EXCEPT ![f] = <<how>>]
  BY <1>0 DEF EndsIt
<1>5. /\ w.d.files \in [Clients -> SUBSET Downloads]
      /\ w.told \in [Files -> Seq({"done", "cancel"})]
  BY <1>1, HandedFields
<1>6. \A g \in Downloads \ {f} : SameDown(w, v, g)
  BY <1>4, <1>5 DEF SameDown, Half, Files
<1>7. \A g \in Uploads : SameUp(w, v, g)
  BY <1>1, <1>4, <1>5 DEF SameUp, Half, Files, FilesAssumption
<1>8. Asked(v)
  <2>1. v.calls = w.calls /\ v.d.packets = w.d.packets
    BY <1>4 DEF Half
  <2>. QED
    BY <2>1 DEF InOrder, Asked
<1>9. Fetched(z, v, l, k2, b, f)
  <2>1. ~Held(v, f)
    BY <1>2, <1>4, <1>5 DEF Held, Fetched, Half, Clients
  <2>2. v.told[f] = <<how>>
    BY <1>1, <1>4, <1>5 DEF Half, Files
  <2>3. v.told[f] \in Reported /\ (v.told[f] = <<"done">> => how = "done")
    BY <2>2, ReportFact
  <2>4. f \in b /\ l[f] \in {0, z[f]}
    BY <1>2 DEF Fetched, Held
  <2>5. ~(f \in v.d.files["main"] /\ f \in v.d.files["child"])
    BY <2>1 DEF Held, Clients
  <2>6. \A i, j \in v.d.queue[f] : i = j /\ i[1] = f
    BY <1>2, <1>4 DEF Fetched, Half
  <2>7. \A d \in Clients : f \notin v.d.files[d]
    BY <2>1 DEF Held
  <2>. QED
    BY <2>1, <2>3, <2>4, <2>5, <2>6, <2>7 DEF Fetched
<1>10. World(z, l, k2, s, b)
  BY DEF InOrder, World
<1>11. InOrder(z, v, l, k2, s, b)
  BY <1>1, <1>4, <1>6, <1>7, <1>8, <1>9, <1>10, OneDownload
<1>. QED
  BY <1>0, <1>11 DEF v

\* Nothing is asked about a download with an empty queue.
LEMMA QueueEmpty ==
  ASSUME NEW z, NEW w, NEW l, NEW k, NEW s, NEW b, InOrder(z, w, l, k, s, b),
         NEW c \in Clients, NEW f \in w.d.files[c], w.d.queue[f] = {}
  PROVE  Unasked(w, f) /\ f \in Downloads
<1>1. f \in Downloads
  BY HandedFields DEF InOrder
<1>2. Fetched(z, w, l, k, b, f)
  BY <1>1 DEF InOrder
<1>. QED
  BY <1>1, <1>2 DEF Fetched, Unasked

\* The next part of a download is asked for.
LEMMA RequestOrder ==
  ASSUME FilesAssumption,
         NEW z, NEW w, NEW l, NEW k, NEW s, NEW b, InOrder(z, w, l, k, s, b),
         NEW c \in Clients, NEW f \in w.d.files[c], w.d.queue[f] = {}
  PROVE  InOrder(z, RequestPart(w, c, f), l, k, s, b)
<1>1. f \in Downloads /\ w \in Handed /\ Unasked(w, f)
  BY QueueEmpty DEF InOrder
<1>2. Fetched(z, w, l, k, b, f)
  BY <1>1 DEF InOrder
<1>. DEFINE v == RequestPart(w, c, f)
            id == Fresh(w, f)
            a == GetCall(w, c, f)
            p == [id |-> id, file |-> f]
<1>3. /\ v \in Handed
      /\ v.d.files = w.d.files
      /\ v.d.packets = [w.d.packets EXCEPT ![c] = @ \cup {p}]
      /\ v.d.queue = [w.d.queue EXCEPT ![f] = @ \cup {id}]
      /\ v.d.part = [w.d.part EXCEPT ![f] = @ + 1] /\ v.d.left = w.d.left
      /\ v.u = w.u /\ v.told = w.told /\ v.calls = w.calls \cup {a}
  <2>1. v \in Handed /\ AsksIt(w, v, c, f)
    BY <1>1, RequestFact
  <2>. QED
    BY <2>1 DEF AsksIt
<1>4. id[1] = f /\ id \in Ids
  BY <1>1, FreshFact DEF Files
<1>. HIDE DEF v, id
<1>5. /\ w.d.packets \in [Clients -> SUBSET [id : Ids, file : Files]]
      /\ w.d.queue \in [Downloads -> SUBSET Ids] /\ w.d.part \in [Downloads -> Nat]
  BY <1>1, HandedFields
<1>6. /\ a.id = id /\ a.at = c /\ a.kind = "get" /\ a.file = f /\ a.part = w.d.part[f]
      /\ p.id = id /\ p.file = f
  BY DEF GetCall, id
<1>7. p = [id |-> a.id, file |-> a.file]
  BY DEF GetCall, id
<1>. HIDE DEF a, p
<1>8. \A d \in Clients : w.d.packets[d] \subseteq v.d.packets[d]
  BY <1>3, <1>5
<1>9. p \in v.d.packets[c]
  BY <1>3, <1>5
<1>10. Asked(v)
  <2>1. ASSUME NEW m \in v.calls
        PROVE  /\ m.id[1] = m.file
               /\ m.kind = "get" <=> m.file \in Downloads
               /\ m.kind = "save" <=> m.file \in Uploads
               /\ m.file # None => [id |-> m.id, file |-> m.file] \in v.d.packets[m.at]
    <3>1. CASE m = a
      BY <1>1, <1>4, <1>6, <1>7, <1>9, <3>1 DEF FilesAssumption
    <3>2. CASE m \in w.calls
      <4>1. m.at \in Clients
        BY <1>1, <3>2, HandedFields DEF Call
      <4>. QED
        BY <1>8, <3>2, <4>1 DEF InOrder, Asked
    <3>. QED
      BY <1>3, <3>1, <3>2
  <2>2. ASSUME NEW m \in v.calls, NEW n \in v.calls, m.file = n.file, m.file # None
        PROVE  m = n
    BY <1>1, <1>3, <1>6, <2>2 DEF Unasked, InOrder, Asked
  <2>3. ASSUME NEW d \in Clients, NEW i \in v.d.packets[d] PROVE i.id[1] = i.file
    BY <1>3, <1>4, <1>5, <1>6, <2>3 DEF InOrder, Asked
  <2>. QED
    BY <2>1, <2>2, <2>3 DEF Asked
<1>11. \A g \in Downloads \ {f} : SameDown(w, v, g)
  BY <1>3, <1>5, <1>6 DEF SameDown
<1>12. \A g \in Uploads : SameUp(w, v, g)
  BY <1>1, <1>3, <1>6 DEF SameUp, FilesAssumption
<1>13. Fetched(z, v, l, k, b, f)
  <2>1. f \in b /\ Held(v, f)
    BY <1>2, <1>3 DEF Fetched, Held
  <2>2. v.d.queue[f] = {id} /\ v.d.part[f] = w.d.part[f] + 1
    BY <1>1, <1>3, <1>5
  <2>3. \A m \in v.calls : m.file = f => m = a
    BY <1>1, <1>3 DEF Unasked
  <2>4. \A d \in Clients : f \in v.d.files[d] => d = c
    BY <1>2, <1>3 DEF Fetched, Clients
  <2>5. a.at = c /\ a.id \in v.d.queue[f] /\ a.part = Len(k[f])
    BY <1>2, <1>6, <2>2 DEF Fetched
  <2>6. v.d.part[f] = Len(k[f]) + 1
    BY <1>2, <2>2 DEF Fetched
  <2>. QED
    BY <1>2, <1>3, <1>4, <2>1, <2>2, <2>3, <2>4, <2>5, <2>6 DEF Fetched
<1>14. World(z, l, k, s, b)
  BY DEF InOrder
<1>. QED
  BY <1>1, <1>3, <1>10, <1>11, <1>12, <1>13, <1>14, OneDownload DEF v

-----------------------------------------------------------------------------
(***************************************************************************)
(* downloadNextFilePart().  Whose turn it is: the current file is one of   *)
(* the client's, or none, or one that a full part completed; and while the *)
(* client is authorized the current file has a part under way.             *)
(***************************************************************************)
Settled(z, w, l, c) ==
  \/ w.d.cur[c] \in w.d.files[c] \cup {None}
  \/ /\ w.d.cur[c] \in Downloads \ w.d.files[c]
     /\ w.told[w.d.cur[c]] = <<"done">>
     /\ l[w.d.cur[c]] # 0 /\ z[w.d.cur[c]] % Part = 0

Busy(w, c) ==
  w.d.files[c] # {} =>
    /\ w.d.cur[c] # None
    /\ w.d.cur[c] \in w.d.files[c] => w.d.queue[w.d.cur[c]] # {}

\* All clients but those in D are settled, and busy if authorized by the links n.
Turned(z, w, l, n, D) ==
  \A c \in Clients \ D : Settled(z, w, l, c) /\ (n[c] = "auth" => Busy(w, c))

\* What a step leaves of the turns of clients outside E.
Elsewhere(w, v, l, l2, E) ==
  /\ \A c \in Clients \ E :
       /\ v.d.files[c] = w.d.files[c] /\ v.d.cur[c] = w.d.cur[c]
       /\ \A g \in w.d.files[c] : w.d.queue[g] # {} => v.d.queue[g] # {}
  /\ \A g \in Downloads : w.told[g] = <<"done">> => v.told[g] = <<"done">> /\ l2[g] = l[g]

\* What a client going on with its downloads leaves of the rest.
Onward(w, v, c) ==
  /\ \A d \in Clients \ {c} : v.d.files[d] = w.d.files[d] /\ v.d.cur[d] = w.d.cur[d]
  /\ v.d.files[c] \subseteq w.d.files[c]
  /\ \A f \in Downloads : w.d.queue[f] \subseteq v.d.queue[f]
  /\ \A f \in Files : w.told[f] # <<>> => v.told[f] = w.told[f]

\* The parts of a length that is even, or odd.
LEMMA PartsFact ==
  ASSUME NEW n \in Nat, NEW m \in Nat
  PROVE  /\ Part * n <= m /\ m <= Part * n => Parts(m) = n /\ m % Part = 0
         /\ m = Part * n + 1 => Parts(m) = n + 1
<1>1. Part * n <= m /\ m <= Part * n => m = 2 * n
  BY DEF Part
<1>2. (2 * n + 2 - 1) \div 2 = n /\ (2 * n) % 2 = 0
  OBVIOUS
<1>3. (2 * n + 1 + 2 - 1) \div 2 = n + 1
  OBVIOUS
<1>. QED
  BY <1>1, <1>2, <1>3 DEF Part, Parts

\* A current file with nothing left to come is on disk, and its length is even.
LEMMA AllReceivedFact ==
  ASSUME NEW z, NEW w, NEW l, NEW k, NEW s, NEW b, InOrder(z, w, l, k, s, b),
         NEW c \in Clients, NEW f \in w.d.files[c], w.d.queue[f] = {},
         AllReceived(w, f), length[f] \in {0, l[f]}
  PROVE  Len(k[f]) = Parts(z[f]) /\ l[f] # 0 /\ z[f] % Part = 0
<1>1. f \in Downloads
  BY HandedFields DEF InOrder
<1>2. Fetched(z, w, l, k, b, f)
  BY <1>1 DEF InOrder
<1>. DEFINE n == Len(k[f])
<1>3. z[f] \in Nat /\ l[f] \in Nat /\ n \in Nat
  BY <1>1 DEF InOrder, World, Files
<1>4. l[f] # 0 /\ l[f] = z[f] /\ Part * n <= z[f] /\ l[f] - Part * n <= 0
  BY <1>2 DEF Fetched, AllReceived
<1>. HIDE DEF n
<1>5. z[f] <= Part * n
  BY <1>3, <1>4 DEF Part
<1>. QED
  BY <1>3, <1>4, <1>5, PartsFact DEF n

\* With a current file of the client's.
LEMMA WithCurrentOrder ==
  ASSUME FilesAssumption,
         NEW z, NEW w, NEW l, NEW k, NEW s, NEW b, InOrder(z, w, l, k, s, b),
         NEW c \in Clients, w.d.cur[c] \in Downloads,
         \A f \in Downloads : length[f] \in {0, l[f]}
  PROVE  /\ InOrder(z, WithCurrent(w, c), l, k, s, b) /\ Onward(w, WithCurrent(w, c), c)
         /\ w.d.cur[c] \in w.d.files[c] =>
              Settled(z, WithCurrent(w, c), l, c) /\ Busy(WithCurrent(w, c), c)
         /\ w.d.cur[c] \notin w.d.files[c] => WithCurrent(w, c) = w
<1>. DEFINE f == w.d.cur[c]
            v == WithCurrent(w, c)
<1>1. CASE f \notin w.d.files[c]
  <2>1. v = w
    BY <1>1 DEF WithCurrent
  <2>2. Onward(w, w, c)
    BY DEF Onward
  <2>. QED
    BY <1>1, <2>1, <2>2
<1>2. CASE f \in w.d.files[c] /\ w.d.queue[f] # {}
  <2>1. v = w
    BY <1>2 DEF WithCurrent
  <2>2. Onward(w, w, c)
    BY DEF Onward
  <2>3. Settled(z, w, l, c) /\ Busy(w, c)
    <3>1. None \notin Downloads
      BY DEF FilesAssumption
    <3>. QED
      BY <1>2, <3>1 DEF Settled, Busy
  <2>. QED
    BY <1>2, <2>1, <2>2, <2>3
<1>3. CASE f \in w.d.files[c] /\ w.d.queue[f] = {} /\ AllReceived(w, f)
  <2>. DEFINE e == Ended(w, c, f, "done")
  <2>1. v = e
    BY <1>3 DEF WithCurrent
  <2>2. Len(k[f]) = Parts(z[f]) /\ l[f] # 0 /\ z[f] % Part = 0
    BY <1>3, AllReceivedFact
  <2>3. Half(w, w, f) /\ w \in Handed
    BY DEF Half, InOrder
  <2>4. k \in [Downloads -> Seq(Nat)] /\ k[f] = Upto(Len(k[f]))
    BY DEF InOrder, World, Fetched
  <2>11. InOrder(z, e, l, k, s, b) /\ EndsIt(w, e, c, f, "done")
    BY <1>3, <2>2, <2>3, <2>4, EndedOrder
  <2>. HIDE DEF e
  <2>5. /\ InOrder(z, e, l, k, s, b)
        /\ e.d.files = [w.d.files EXCEPT ![c] = @ \ {f}]
        /\ e.d.cur = w.d.cur /\ e.told = [w.told EXCEPT ![f] = <<"done">>]
        /\ e.d.queue = w.d.queue
    BY <2>11 DEF EndsIt
  <2>6. /\ w.d.files \in [Clients -> SUBSET Downloads]
        /\ w.told \in [Files -> Seq({"done", "cancel"})]
    BY <2>3, HandedFields
  <2>7. w.told[f] = <<>>
    BY <1>3 DEF InOrder, Fetched
  <2>8. Onward(w, e, c)
    BY <2>5, <2>6, <2>7 DEF Onward, Files
  <2>9. e.d.cur[c] = f /\ f \notin e.d.files[c] /\ e.told[f] = <<"done">>
    BY <2>5, <2>6 DEF Files
  <2>10. Settled(z, e, l, c) /\ Busy(e, c)
    <3>1. None \notin Downloads
      BY DEF FilesAssumption
    <3>. QED
      BY <2>2, <2>9, <3>1 DEF Settled, Busy
  <2>. QED
    BY <1>3, <2>1, <2>5, <2>8, <2>10
<1>4. CASE f \in w.d.files[c] /\ w.d.queue[f] = {} /\ ~AllReceived(w, f)
  <2>. DEFINE e == RequestPart(w, c, f)
  <2>1. v = e
    BY <1>4 DEF WithCurrent
  <2>2. InOrder(z, e, l, k, s, b)
    BY <1>4, RequestOrder
  <2>3. w \in Handed
    BY DEF InOrder
  <2>4. AsksIt(w, e, c, f)
    BY <2>3, RequestFact
  <2>5. w.d.queue \in [Downloads -> SUBSET Ids]
    BY <2>3, HandedFields
  <2>. HIDE DEF e
  <2>6. Onward(w, e, c)
    BY <2>4, <2>5 DEF Onward, AsksIt
  <2>7. e.d.cur[c] = f /\ f \in e.d.files[c] /\ e.d.queue[f] # {}
    BY <1>4, <2>4, <2>5 DEF AsksIt
  <2>8. Settled(z, e, l, c) /\ Busy(e, c)
    <3>1. None \notin Downloads
      BY DEF FilesAssumption
    <3>. QED
      BY <2>7, <3>1 DEF Settled, Busy
  <2>. QED
    BY <1>4, <2>1, <2>2, <2>6, <2>8
<1>. QED
  BY <1>1, <1>2, <1>3, <1>4

\* Clients a step has nothing to do with keep their turn.
LEMMA TurnedElsewhere ==
  ASSUME NEW z, NEW w, NEW l, NEW n, NEW D, Turned(z, w, l, n, D),
         NEW v, NEW l2, NEW n2, NEW E, D \subseteq E, Elsewhere(w, v, l, l2, E),
         \A c \in Clients \ E : n2[c] = "auth" => n[c] = "auth"
  PROVE  Turned(z, v, l2, n2, E)
<1>. SUFFICES ASSUME NEW c \in Clients \ E
              PROVE  Settled(z, v, l2, c) /\ (n2[c] = "auth" => Busy(v, c))
  BY DEF Turned
<1>1. Settled(z, w, l, c) /\ (n[c] = "auth" => Busy(w, c))
  BY DEF Turned
<1>2. Settled(z, v, l2, c)
  BY <1>1 DEF Settled, Elsewhere
<1>3. n2[c] = "auth" => Busy(v, c)
  BY <1>1 DEF Busy, Elsewhere
<1>. QED
  BY <1>2, <1>3

\* A client that goes on with its downloads has its turn.
LEMMA NextTurn ==
  ASSUME FilesAssumption,
         NEW z, NEW w, NEW l, NEW k, NEW s, NEW b, InOrder(z, w, l, k, s, b),
         NEW c \in Clients, NEW a \in BOOLEAN, Settled(z, w, l, c),
         \A f \in Downloads : length[f] \in {0, l[f]},
         NEW v \in DownloadNext(w, c, a)
  PROVE  /\ InOrder(z, v, l, k, s, b) /\ Onward(w, v, c)
         /\ Settled(z, v, l, c) /\ (a => Busy(v, c))
<1>1. w \in Handed
  BY DEF InOrder
<1>2. /\ w.d.files \in [Clients -> SUBSET Downloads]
      /\ w.d.cur \in [Clients -> Downloads \cup {None}]
  BY <1>1, HandedFields
<1>3. CASE ~a
  <2>1. v = w
    BY <1>3 DEF DownloadNext
  <2>. QED
    BY <1>3, <2>1 DEF Onward
<1>4. CASE a /\ w.d.files[c] = {}
  <2>1. v = [w EXCEPT !.d.cur[c] = None]
    BY <1>4 DEF DownloadNext
  <2>2. v \in Handed /\ Chooses(w, v, c, None)
    BY <1>1, <2>1, CurFact
  <2>3. v.d.cur = [w.d.cur EXCEPT ![c] = None] /\ SameButCur(w, v)
    BY <2>2 DEF Chooses
  <2>4. InOrder(z, v, l, k, s, b)
    BY <2>2, <2>3, CurOrder
  <2>5. Onward(w, v, c)
    BY <1>2, <2>3 DEF Onward, SameButCur
  <2>6. Settled(z, v, l, c) /\ Busy(v, c)
    BY <1>2, <1>4, <2>3 DEF Settled, Busy, SameButCur
  <2>. QED
    BY <2>4, <2>5, <2>6
<1>5. CASE a /\ w.d.files[c] # {}
  <2>1. PICK f \in IF w.d.cur[c] = None THEN w.d.files[c] ELSE {w.d.cur[c]} :
          v = WithCurrent([w EXCEPT !.d.cur[c] = f], c)
    BY <1>5 DEF DownloadNext
  <2>2. f \in Downloads /\ (f \in w.d.files[c] \/ f = w.d.cur[c])
    BY <1>2
  <2>. DEFINE x == [w EXCEPT !.d.cur[c] = f]
  <2>3. x \in Handed /\ Chooses(w, x, c, f)
    BY <1>1, <2>2, CurFact
  <2>4. v = WithCurrent(x, c)
    BY <2>1
  <2>. HIDE DEF x
  <2>5. x.d.cur = [w.d.cur EXCEPT ![c] = f] /\ SameButCur(w, x)
    BY <2>3 DEF Chooses
  <2>6. InOrder(z, x, l, k, s, b)
    BY <2>3, <2>5, CurOrder
  <2>7. x.d.cur[c] = f /\ \A d \in Clients \ {c} : x.d.cur[d] = w.d.cur[d]
    BY <1>2, <2>5
  <2>8. x.d.cur[c] \in Downloads
    BY <2>2, <2>7
  <2>9. /\ InOrder(z, v, l, k, s, b) /\ Onward(x, v, c)
        /\ (f \in x.d.files[c] => Settled(z, v, l, c) /\ Busy(v, c))
        /\ (f \notin x.d.files[c] => v = x)
    BY <2>4, <2>6, <2>7, <2>8, WithCurrentOrder
  <2>10. Onward(w, v, c)
    BY <2>5, <2>7, <2>9 DEF Onward, SameButCur
  <2>11. CASE f \in w.d.files[c]
    BY <2>5, <2>9, <2>10, <2>11 DEF SameButCur
  <2>12. CASE f \notin w.d.files[c]
    <3>1. v = x /\ w.d.cur[c] = f
      BY <2>2, <2>5, <2>9, <2>12 DEF SameButCur
    <3>2. Settled(z, x, l, c)
      BY <2>5, <2>7, <3>1 DEF Settled, SameButCur
    <3>3. Busy(x, c)
      BY <2>2, <2>5, <2>7, <2>12 DEF Busy, SameButCur, FilesAssumption
    <3>. QED
      BY <2>9, <2>10, <3>1, <3>2, <3>3
  <2>. QED
    BY <2>11, <2>12
<1>. QED
  BY <1>3, <1>4, <1>5

\* And the others keep theirs.
LEMMA NextOrder ==
  ASSUME FilesAssumption,
         NEW z, NEW w, NEW l, NEW k, NEW s, NEW b, InOrder(z, w, l, k, s, b),
         NEW c \in Clients, NEW a \in BOOLEAN, Settled(z, w, l, c),
         \A f \in Downloads : length[f] \in {0, l[f]},
         NEW v \in DownloadNext(w, c, a),
         NEW n, n[c] = "auth" => a, NEW D, Turned(z, w, l, n, D)
  PROVE  InOrder(z, v, l, k, s, b) /\ Turned(z, v, l, n, D \ {c}) /\ Onward(w, v, c)
<1>1. /\ InOrder(z, v, l, k, s, b) /\ Onward(w, v, c)
      /\ Settled(z, v, l, c) /\ (a => Busy(v, c))
  BY NextTurn
<1>2. Elsewhere(w, v, l, l, D \cup {c})
  <2>1. w.d.files \in [Clients -> SUBSET Downloads]
    BY HandedFields DEF InOrder
  <2>2. ASSUME NEW g \in Downloads, w.told[g] = <<"done">> PROVE v.told[g] = <<"done">>
    BY <1>1, <2>2, ReportFact DEF Onward, Files
  <2>. QED
    BY <1>1, <2>1, <2>2 DEF Elsewhere, Onward
<1>3. Turned(z, v, l, n, D \cup {c})
  BY <1>2, TurnedElsewhere
<1>. QED
  BY <1>1, <1>3 DEF Turned

\* A handler that is done with a file goes on with another.
LEMMA NextFileOrder ==
  ASSUME FilesAssumption,
         NEW z, NEW w, NEW l, NEW k, NEW s, NEW b, InOrder(z, w, l, k, s, b),
         NEW c \in Clients,
         \A f \in Downloads : length[f] \in {0, l[f]},
         NEW v \in NextFile(w, c),
         NEW n, n[c] = "auth" => Authorized(c), NEW D, Turned(z, w, l, n, D)
  PROVE  InOrder(z, v, l, k, s, b) /\ Turned(z, v, l, n, D \ {c})
<1>. DEFINE x == [w EXCEPT !.d.cur[c] = None]
<1>1. w \in Handed
  BY DEF InOrder
<1>2. w.d.cur \in [Clients -> Downloads \cup {None}]
  BY <1>1, HandedFields
<1>3. x \in Handed /\ Chooses(w, x, c, None)
  BY <1>1, CurFact
<1>4. v \in DownloadNext(x, c, Authorized(c)) /\ Authorized(c) \in BOOLEAN
  BY DEF NextFile, Authorized
<1>. HIDE DEF x
<1>5. SameButCur(w, x) /\ x.d.cur = [w.d.cur EXCEPT ![c] = None]
  BY <1>3 DEF Chooses
<1>6. InOrder(z, x, l, k, s, b)
  BY <1>3, <1>5, CurOrder
<1>7. Settled(z, x, l, c)
  BY <1>2, <1>5 DEF Settled
<1>8. Elsewhere(w, x, l, l, D \cup {c})
  BY <1>2, <1>5 DEF Elsewhere, SameButCur
<1>9. Turned(z, x, l, n, D \cup {c})
  BY <1>8, TurnedElsewhere
<1>10. InOrder(z, v, l, k, s, b) /\ Turned(z, v, l, n, (D \cup {c}) \ {c})
  BY <1>4, <1>6, <1>7, <1>9, NextOrder
<1>. QED
  BY <1>10 DEF Turned

\* handleAuthorized(): a client that is authorized now goes on.
LEMMA ResumeOrder ==
  ASSUME FilesAssumption,
         NEW z, NEW w, NEW l, NEW k, NEW s, NEW b, InOrder(z, w, l, k, s, b),
         NEW c \in Clients,
         \A f \in Downloads : length[f] \in {0, l[f]},
         NEW v \in Resume(w, c),
         Settled(z, w, l, c), NEW n, Turned(z, w, l, n, {c})
  PROVE  InOrder(z, v, l, k, s, b) /\ Turned(z, v, l, n, {})
<1>1. CASE w.d.files[c] = {}
  <2>1. v = w
    BY <1>1 DEF Resume
  <2>2. Busy(w, c)
    BY <1>1 DEF Busy
  <2>. QED
    BY <2>1, <2>2 DEF Turned
<1>2. CASE w.d.files[c] # {}
  <2>1. v \in DownloadNext(w, c, TRUE)
    BY <1>2 DEF Resume
  <2>2. InOrder(z, v, l, k, s, b) /\ Turned(z, v, l, n, {c} \ {c})
    BY <2>1, NextOrder
  <2>. QED
    BY <2>2 DEF Turned
<1>. QED
  BY <1>1, <1>2

-----------------------------------------------------------------------------
(***************************************************************************)
(* Requests that are answered, lost, held or sent again.                   *)
(***************************************************************************)
\* All but requests and filePackets stay.
SameFiles(w, v) ==
  /\ v.d.files = w.d.files /\ v.d.cur = w.d.cur /\ v.d.queue = w.d.queue
  /\ v.d.part = w.d.part /\ v.d.left = w.d.left /\ v.u = w.u /\ v.told = w.told

\* Requests about files only go.
LEMMA FewerOrder ==
  ASSUME NEW z, NEW w, NEW l, NEW k, NEW s, NEW b, InOrder(z, w, l, k, s, b),
         NEW v \in Handed, SameFiles(w, v), Asked(v),
         \A m \in v.calls : m.file \in Files => m \in w.calls
  PROVE  /\ InOrder(z, v, l, k, s, b)
         /\ \A n, D : Turned(z, w, l, n, D) => Turned(z, v, l, n, D)
<1>1. \A g \in Downloads : SameDown(w, v, g)
  BY DEF SameDown, SameFiles, Files
<1>2. \A g \in Uploads : SameUp(w, v, g)
  BY DEF SameUp, SameFiles, Files
<1>3. InOrder(z, v, l, k, s, b)
  BY <1>1, <1>2, NoFile
<1>4. ASSUME NEW n, NEW D, Turned(z, w, l, n, D) PROVE Turned(z, v, l, n, D)
  <2>1. Elsewhere(w, v, l, l, D)
    BY DEF Elsewhere, SameFiles
  <2>. QED
    BY <1>4, <2>1, TurnedElsewhere
<1>. QED
  BY <1>3, <1>4

\* The request and its entry of filePackets.
Forgets(w, v, m) ==
  /\ SameFiles(w, v) /\ v.calls = w.calls \ {m}
  /\ \/ v.d.packets = w.d.packets
     \/ v.d.packets = [w.d.packets EXCEPT ![m.at] = {p \in @ : p.id # m.id}]

\* What is left when a request was answered.
LEMMA TakenFact ==
  ASSUME Here \in Handed, NEW m \in calls
  PROVE  /\ Without(m) \in Handed /\ Forgets(Here, Without(m), m)
         /\ Taken(m) \in Handed /\ Forgets(Here, Taken(m), m)
<1>. DEFINE v == Without(m)
            x == [dl.packets EXCEPT ![m.at] = {p \in @ : p.id # m.id}]
            y == [dl EXCEPT !.packets = x]
            t == Taken(m)
<1>1. v = [Here EXCEPT !.calls = calls \ {m}]
  BY DEF Without, Here
<1>2. Here.d = dl /\ Here.u = ul /\ Here.calls = calls /\ Here.told = told
  BY DEF Here
<1>3. v \in Handed /\ v.d = dl /\ v.u = ul /\ v.calls = calls \ {m} /\ v.told = told
  BY <1>1, <1>2 DEF Handed
<1>4. dl \in DownState /\ v.d.packets = dl.packets
  BY <1>3 DEF Handed
<1>5. t = [v EXCEPT !.d = y]
  BY <1>3, <1>4 DEF Taken, Handed, DownState
<1>. HIDE DEF v, t
<1>6. x \in [Clients -> SUBSET [id : Ids, file : Files]]
  BY <1>4 DEF DownState
<1>. HIDE DEF x
<1>7. /\ y \in DownState
      /\ y.files = dl.files /\ y.cur = dl.cur /\ y.packets = x
      /\ y.queue = dl.queue /\ y.part = dl.part /\ y.left = dl.left
  BY <1>4, <1>6 DEF DownState
<1>. HIDE DEF y
<1>8. t \in Handed /\ t.d = y /\ t.u = ul /\ t.calls = calls \ {m} /\ t.told = told
  BY <1>3, <1>5, <1>7 DEF Handed
<1>9. Forgets(Here, v, m)
  BY <1>2, <1>3 DEF Forgets, SameFiles
<1>10. Forgets(Here, t, m)
  BY <1>2, <1>7, <1>8 DEF Forgets, SameFiles, x
<1>. QED
  BY <1>3, <1>8, <1>9, <1>10 DEF v, t

\* filePackets knows the file of a request.
LEMMA FileOfFact ==
  ASSUME FilesAssumption, Here \in Handed, Asked(Here), NEW m \in calls
  PROVE  FileOf(m) = m.file
<1>1. m \in Call /\ m.at \in Clients /\ m.id[1] = m.file /\ m.file \in Files \cup {None}
  BY DEF Handed, Here, Call, Asked
<1>2. \A p \in dl.packets[m.at] : p.id[1] = p.file /\ p.file \in Files
  <2>1. dl.packets \in [Clients -> SUBSET [id : Ids, file : Files]]
    BY HandedFields DEF Here
  <2>. QED
    BY <1>1, <2>1 DEF Asked, Here
<1>3. None \notin Files
  BY DEF FilesAssumption, Files
<1>4. CASE \E p \in dl.packets[m.at] : p.id = m.id
  BY <1>1, <1>2, <1>4 DEF FileOf
<1>5. CASE ~\E p \in dl.packets[m.at] : p.id = m.id
  <2>1. m.file # None => [id |-> m.id, file |-> m.file] \in dl.packets[m.at]
    BY DEF Asked, Here
  <2>2. m.file = None
    BY <1>5, <2>1
  <2>. QED
    BY <1>5, <2>2 DEF FileOf
<1>. QED
  BY <1>4, <1>5

\* What is left is in order, and nothing else is asked about the file.
LEMMA ForgottenOrder ==
  ASSUME FilesAssumption,
         NEW z, NEW w, NEW l, NEW k, NEW s, NEW b, InOrder(z, w, l, k, s, b),
         NEW m \in w.calls, NEW v \in Handed, Forgets(w, v, m)
  PROVE  /\ InOrder(z, v, l, k, s, b) /\ (m.file # None => Unasked(v, m.file))
         /\ \A n, D : Turned(z, w, l, n, D) => Turned(z, v, l, n, D)
<1>1. w \in Handed /\ Asked(w)
  BY DEF InOrder
<1>2. w.d.packets \in [Clients -> SUBSET [id : Ids, file : Files]] /\ w.calls \in SUBSET Call
  BY <1>1, HandedFields
<1>3. Asked(v)
  <2>1. ASSUME NEW n \in v.calls, n.file # None
        PROVE  [id |-> n.id, file |-> n.file] \in v.d.packets[n.at]
    <3>1. n \in w.calls /\ n # m
      BY DEF Forgets
    <3>. DEFINE p == [id |-> n.id, file |-> n.file]
    <3>2. p \in w.d.packets[n.at] /\ p.id = n.id /\ n.at \in Clients
      BY <1>1, <1>2, <2>1, <3>1 DEF Asked, Call
    <3>3. n.id # m.id
      BY <1>1, <2>1, <3>1 DEF Asked
    <3>. QED
      BY <1>2, <3>2, <3>3 DEF Forgets
  <2>2. \A c \in Clients : v.d.packets[c] \subseteq w.d.packets[c]
    BY <1>2 DEF Forgets
  <2>3. v.calls \subseteq w.calls
    BY DEF Forgets
  <2>. QED
    BY <1>1, <2>1, <2>2, <2>3 DEF Asked
<1>4. m.file # None => Unasked(v, m.file)
  BY <1>1 DEF Asked, Unasked, Forgets
<1>5. SameFiles(w, v) /\ \A n \in v.calls : n.file \in Files => n \in w.calls
  BY DEF Forgets
<1>. QED
  BY <1>3, <1>4, <1>5, FewerOrder

-----------------------------------------------------------------------------
(***************************************************************************)
(* The inductive invariant, and what an action has to show of it.          *)
(***************************************************************************)
Kinds ==
  /\ link \in [Clients -> {"none", "down", "up", "auth"}]
  /\ signed \in BOOLEAN /\ importing \in BOOLEAN /\ alive \in BOOLEAN
  /\ exports \subseteq Ids

FInv ==
  /\ Kinds
  /\ InOrder(size, Here, length, disk, stored, begun)
  /\ Turned(size, Here, length, link, {})

\* What a handler hands on is the state it leaves.
LEMMA Settle ==
  ASSUME NEW w, Become(w), InOrder(size, w, length', disk', stored', begun'),
         Turned(size, w, length', link', {}), size' = size, Kinds'
  PROVE  FInv'
<1>1. Here' = w
  BY DEF Become, Here, InOrder, Handed
<1>. QED
  BY <1>1 DEF FInv

\* The fields of the state an action starts from.
LEMMA HereFact ==
  ASSUME FInv
  PROVE  /\ Here \in Handed /\ Asked(Here)
         /\ Here.d = dl /\ Here.u = ul /\ Here.calls = calls /\ Here.told = told
         /\ calls \subseteq Call
         /\ dl.files \in [Clients -> SUBSET Downloads]
         /\ dl.queue \in [Downloads -> SUBSET Ids]
         /\ size \in [Files -> Nat \ {0}] /\ length \in [Files -> Nat]
         /\ disk \in [Downloads -> Seq(Nat)] /\ stored \in [Uploads -> Seq(Nat)]
         /\ begun \subseteq Files
<1>1. Here \in Handed /\ Asked(Here) /\ World(size, length, disk, stored, begun)
  BY DEF FInv, InOrder
<1>2. Here.d = dl /\ Here.u = ul /\ Here.calls = calls /\ Here.told = told
  BY DEF Here
<1>3. dl \in DownState /\ calls \subseteq Call
  BY <1>1, <1>2 DEF Handed
<1>. QED
  BY <1>1, <1>2, <1>3 DEF World, DownState

\* A part under way is the one that comes next on disk.
LEMMA PartFact ==
  ASSUME FilesAssumption, FInv, NEW m \in calls, m.file \in Downloads,
         m.file \in dl.files[m.at]
  PROVE  /\ dl.queue[m.file] = {m.id} /\ dl.part[m.file] = m.part + 1
         /\ m.part = Len(disk[m.file]) /\ m.part \in Nat
         /\ Part * m.part <= size[m.file] /\ told[m.file] = <<>>
         /\ disk[m.file] = Upto(m.part) /\ m.at \in Clients
         /\ size[m.file] \in Nat /\ m.file # None /\ m.file \in Files
<1>. DEFINE f == m.file
<1>1. Fetched(size, Here, length, disk, begun, f)
  BY DEF FInv, InOrder
<1>2. m.at \in Clients /\ m.part \in Nat
  BY HereFact DEF Call
<1>3. /\ told[f] = <<>> /\ Part * Len(disk[f]) <= size[f]
      /\ m.id \in dl.queue[f] /\ m.part = Len(disk[f])
      /\ dl.part[f] = IF dl.queue[f] = {} THEN Len(disk[f]) ELSE Len(disk[f]) + 1
  BY <1>1, <1>2, HereFact DEF Fetched
<1>4. dl.queue[f] = {m.id}
  BY <1>1, <1>3, HereFact DEF Fetched
<1>5. size[f] \in Nat /\ f # None /\ f \in Files
  BY HereFact DEF Files, FilesAssumption
<1>6. disk[f] = Upto(Len(disk[f]))
  BY <1>1 DEF Fetched
<1>. QED
  BY <1>2, <1>3, <1>4, <1>5, <1>6

\* What is on disk when a download ends.
Leaves(z, f, how, k, k2) ==
  /\ k2 \in [Downloads -> Seq(Nat)] /\ \A g \in Downloads \ {f} : k2[g] = k[g]
  /\ k2[f] = Upto(Len(k2[f])) /\ (how = "done" => Len(k2[f]) = Parts(z[f]))

\* The end of a download, and what comes after it.
LEMMA EndedNextOrder ==
  ASSUME FilesAssumption,
         NEW z, NEW w, NEW l, NEW k, NEW s, NEW b, InOrder(z, w, l, k, s, b),
         NEW c \in Clients, NEW f \in w.d.files[c], NEW how \in {"done", "cancel"},
         NEW x \in Handed, Half(w, x, f), x.d.cur = w.d.cur,
         NEW k2, Leaves(z, f, how, k, k2),
         \A g \in Downloads : length[g] \in {0, l[g]},
         NEW n, n[c] = "auth" => Authorized(c), Turned(z, w, l, n, {}),
         NEW v \in NextFile(Ended(x, c, f, how), c)
  PROVE  InOrder(z, v, l, k2, s, b) /\ Turned(z, v, l, n, {})
<1>1. /\ InOrder(z, Ended(x, c, f, how), l, k2, s, b)
      /\ EndsIt(x, Ended(x, c, f, how), c, f, how)
  <2>1. /\ k2 \in [Downloads -> Seq(Nat)] /\ \A g \in Downloads \ {f} : k2[g] = k[g]
        /\ k2[f] = Upto(Len(k2[f])) /\ (how = "done" => Len(k2[f]) = Parts(z[f]))
    BY DEF Leaves
  <2>. QED
    BY SMTT(60), <2>1, EndedOrder
<1>. DEFINE e == Ended(x, c, f, how)
<1>. HIDE DEF e
<1>2. w \in Handed /\ f \in Downloads
  BY HandedFields DEF InOrder
<1>3. /\ w.d.files \in [Clients -> SUBSET Downloads]
      /\ w.told \in [Files -> Seq({"done", "cancel"})]
  BY <1>2, HandedFields
<1>4. w.told[f] = <<>> /\ \A d \in Clients \ {c} : f \notin w.d.files[d]
  BY <1>2 DEF InOrder, Fetched, Clients
<1>5. /\ e.d.files = [w.d.files EXCEPT ![c] = @ \ {f}] /\ e.d.cur = w.d.cur
      /\ e.d.queue = x.d.queue /\ e.told = [w.told EXCEPT ![f] = <<how>>]
  BY <1>1 DEF EndsIt, Half, e
<1>6. Elsewhere(w, e, l, l, {c})
  <2>1. ASSUME NEW d \in Clients \ {c}, NEW g \in w.d.files[d]
        PROVE  e.d.queue[g] = w.d.queue[g]
    <3>1. g \in Downloads /\ g # f
      BY <1>3, <1>4
    <3>. QED
      BY <1>5, <3>1 DEF Half
  <2>2. ASSUME NEW g \in Downloads, w.told[g] = <<"done">> PROVE e.told[g] = <<"done">>
    <3>1. g # f /\ g \in Files
      BY <1>4, <2>2, ReportFact DEF Files
    <3>. QED
      BY <1>3, <1>5, <2>2, <3>1
  <2>. QED
    BY <1>3, <1>5, <2>1, <2>2 DEF Elsewhere
<1>7. Turned(z, e, l, n, {c})
  BY <1>6, TurnedElsewhere
<1>8. InOrder(z, v, l, k2, s, b) /\ Turned(z, v, l, n, {c} \ {c})
  BY <1>1, <1>7, NextFileOrder DEF e
<1>. QED
  BY <1>8 DEF Turned

-----------------------------------------------------------------------------
(***************************************************************************)
(* A part that arrives.                                                    *)
(***************************************************************************)
ReceivesIt(w, x, f, n, i) ==
  /\ x.d.files = w.d.files /\ x.d.cur = w.d.cur /\ x.d.packets = w.d.packets
  /\ x.d.part = w.d.part /\ x.d.left = [w.d.left EXCEPT ![f] = @ - n]
  /\ x.d.queue = [w.d.queue EXCEPT ![f] = @ \ {i}]
  /\ x.u = w.u /\ x.calls = w.calls /\ x.told = w.told

\* What it changes.
LEMMA ReceivedFact ==
  ASSUME NEW m, Taken(m) \in Handed, NEW f \in Downloads, NEW n \in Nat
  PROVE  Received(m, f, n) \in Handed /\ ReceivesIt(Taken(m), Received(m, f, n), f, n, m.id)
<1>. DEFINE w == Taken(m)
            x == Received(m, f, n)
            q == [w.d.queue EXCEPT ![f] = @ \ {m.id}]
            r == [w.d.left EXCEPT ![f] = @ - n]
            y == [w.d EXCEPT !.left = r, !.queue = q]
<1>. HIDE DEF w
<1>1. w \in Handed /\ w.d \in DownState
  BY DEF Handed, w
<1>2. x = [w EXCEPT !.d = y]
  BY <1>1 DEF Received, Handed, DownState, w
<1>. HIDE DEF x
<1>3. q \in [Downloads -> SUBSET Ids] /\ r \in [Downloads -> Int]
  BY <1>1, HandedFields
<1>. HIDE DEF q, r
<1>4. /\ y \in DownState
      /\ y.files = w.d.files /\ y.cur = w.d.cur /\ y.packets = w.d.packets
      /\ y.queue = q /\ y.part = w.d.part /\ y.left = r
  BY <1>1, <1>3 DEF DownState
<1>. HIDE DEF y
<1>5. x \in Handed /\ x.d = y /\ x.u = w.u /\ x.calls = w.calls /\ x.told = w.told
  BY <1>1, <1>2, <1>4 DEF Handed
<1>6. ReceivesIt(w, x, f, n, m.id)
  BY <1>4, <1>5 DEF ReceivesIt, q, r
<1>. QED
  BY <1>5, <1>6 DEF w, x

\* What is on disk when a part was appended.
Grows(f, k, k2) ==
  /\ k2 \in [Downloads -> Seq(Nat)] /\ k2[f] = Append(k[f], Len(k[f]))
  /\ \A g \in Downloads \ {f} : k2[g] = k[g]

\* A full part is on disk and the next one is due.
LEMMA FullPartOrder ==
  ASSUME FilesAssumption,
         NEW z, NEW w, NEW l, NEW k, NEW s, NEW b, InOrder(z, w, l, k, s, b),
         NEW c \in Clients, NEW f \in w.d.files[c], Unasked(w, f),
         NEW i, w.d.queue[f] = {i}, Part * (Len(k[f]) + 1) <= z[f],
         NEW x \in Handed, ReceivesIt(w, x, f, Part, i),
         NEW k2, Grows(f, k, k2),
         NEW n, Turned(z, w, l, n, {})
  PROVE  /\ InOrder(z, x, l, k2, s, b) /\ Turned(z, x, l, n, {c})
         /\ Settled(z, x, l, c)
<1>0. /\ k2 \in [Downloads -> Seq(Nat)] /\ k2[f] = Append(k[f], Len(k[f]))
      /\ \A g \in Downloads \ {f} : k2[g] = k[g]
  BY DEF Grows
<1>1. f \in Downloads /\ w \in Handed
  BY HandedFields DEF InOrder
<1>2. Fetched(z, w, l, k, b, f)
  BY <1>1 DEF InOrder
<1>3. /\ w.d.files \in [Clients -> SUBSET Downloads]
      /\ w.d.queue \in [Downloads -> SUBSET Ids] /\ w.d.left \in [Downloads -> Int]
      /\ k \in [Downloads -> Seq(Nat)] /\ l[f] \in Nat
  BY <1>1, HandedFields DEF InOrder, World, Files
<1>. DEFINE e == Len(k[f])
<1>4. e \in Nat /\ k[f] = Upto(e) /\ k2[f] = Append(Upto(e), e)
  BY <1>0, <1>1, <1>2, <1>3 DEF Fetched
<1>. HIDE DEF e
<1>5. k2[f] = Upto(e + 1) /\ Len(k2[f]) = e + 1
  <2>1. Append(Upto(e), e) = Upto(e + 1)
    BY <1>4, UptoFact
  <2>2. e + 1 \in Nat
    BY <1>4
  <2>3. Len(Upto(e + 1)) = e + 1
    BY <2>2, UptoFact
  <2>. QED
    BY <1>4, <2>1, <2>3
<1>6. World(z, l, k2, s, b)
  BY <1>0 DEF InOrder, World
<1>7. \A g \in Downloads \ {f} : SameDown(w, x, g)
  BY <1>1, <1>3 DEF SameDown, ReceivesIt
<1>8. \A g \in Uploads : SameUp(w, x, g)
  BY DEF SameUp, ReceivesIt
<1>9. Asked(x)
  BY DEF Asked, ReceivesIt, InOrder
<1>10. Fetched(z, x, l, k2, b, f)
  <2>1. x.d.queue[f] = {} /\ x.d.left[f] = w.d.left[f] - Part
    BY <1>1, <1>3 DEF ReceivesIt
  <2>2. /\ w.told[f] = <<>> /\ w.d.left[f] = l[f] - Part * e
        /\ w.d.part[f] = e + 1
    BY <1>2 DEF Fetched, e
  <2>3. x.d.left[f] = l[f] - Part * (e + 1)
    BY <1>3, <1>4, <2>1, <2>2 DEF Part
  <2>4. x.told[f] = <<>> /\ x.d.part[f] = e + 1
    BY <2>2 DEF ReceivesIt
  <2>5. Unasked(x, f) /\ Held(x, f) /\ f \in b
    BY <1>2 DEF Unasked, Held, ReceivesIt, Fetched
  <2>6. \A d \in Clients : f \in x.d.files[d] <=> f \in w.d.files[d]
    BY DEF ReceivesIt
  <2>7. ~(f \in x.d.files["main"] /\ f \in x.d.files["child"])
    BY <1>2, <2>6 DEF Fetched, Clients
  <2>8. l[f] \in {0, z[f]}
    BY <1>2 DEF Fetched
  <2>. QED
    BY <1>5, <2>1, <2>3, <2>4, <2>5, <2>7, <2>8, ReportFact DEF Fetched, Unasked, e
<1>11. InOrder(z, x, l, k2, s, b)
  BY <1>0, <1>1, <1>6, <1>7, <1>8, <1>9, <1>10, OneDownload
<1>12. Elsewhere(w, x, l, l, {c})
  <2>1. \A d \in Clients \ {c} : f \notin w.d.files[d]
    BY <1>2 DEF Fetched, Clients
  <2>2. ASSUME NEW d \in Clients \ {c}, NEW g \in w.d.files[d]
        PROVE  x.d.queue[g] = w.d.queue[g]
    <3>1. g \in Downloads /\ g # f
      BY <1>3, <2>1
    <3>. QED
      BY <1>3, <3>1 DEF ReceivesIt
  <2>. QED
    BY <2>2 DEF Elsewhere, ReceivesIt
<1>13. Turned(z, x, l, n, {c})
  BY <1>12, TurnedElsewhere
<1>14. Settled(z, x, l, c)
  BY DEF Turned, Settled, ReceivesIt
<1>. QED
  BY <1>11, <1>13, <1>14

-----------------------------------------------------------------------------
(***************************************************************************)
(* A download that starts, or starts again at another client.              *)
(***************************************************************************)
OpensIt(w, x, c, f, n) ==
  /\ \A d \in Clients : \A g \in Downloads \ {f} : g \in x.d.files[d] <=> g \in w.d.files[d]
  /\ \A d \in Clients : f \in x.d.files[d] <=> d = c
  /\ x.d.cur = w.d.cur /\ x.d.packets = w.d.packets
  /\ x.d.part = [w.d.part EXCEPT ![f] = 0] /\ x.d.left = [w.d.left EXCEPT ![f] = n]
  /\ x.d.queue = [w.d.queue EXCEPT ![f] = {}]
  /\ x.u = w.u /\ x.calls = w.calls /\ x.told = w.told

\* What it changes.
LEMMA OpenedFact ==
  ASSUME NEW w \in Handed, NEW c \in Clients, NEW f \in Downloads, NEW n \in Nat,
         \A d \in Clients : f \notin w.d.files[d]
  PROVE  Opened(w, c, f, n) \in Handed /\ OpensIt(w, Opened(w, c, f, n), c, f, n)
<1>. DEFINE x == Opened(w, c, f, n)
            h == [w.d.files EXCEPT ![c] = @ \cup {f}]
            p == [w.d.part EXCEPT ![f] = 0]
            q == [w.d.queue EXCEPT ![f] = {}]
            r == [w.d.left EXCEPT ![f] = n]
            y == [w.d EXCEPT !.files = h, !.left = r, !.part = p, !.queue = q]
<1>1. w.d \in DownState
  BY DEF Handed
<1>2. x = [w EXCEPT !.d = y]
  BY <1>1 DEF Opened, Handed, DownState
<1>. HIDE DEF x
<1>3. /\ q \in [Downloads -> SUBSET Ids] /\ r \in [Downloads -> Int]
      /\ p \in [Downloads -> Nat] /\ h \in [Clients -> SUBSET Downloads]
  BY HandedFields
<1>4. /\ \A d \in Clients : \A g \in Downloads \ {f} : g \in h[d] <=> g \in w.d.files[d]
      /\ \A d \in Clients : f \in h[d] <=> d = c
  BY HandedFields
<1>. HIDE DEF p, q, r, h
<1>5. /\ y \in DownState
      /\ y.files = h /\ y.cur = w.d.cur /\ y.packets = w.d.packets
      /\ y.queue = q /\ y.part = p /\ y.left = r
  BY <1>1, <1>3 DEF DownState
<1>. HIDE DEF y
<1>6. x \in Handed /\ x.d = y /\ x.u = w.u /\ x.calls = w.calls /\ x.told = w.told
  BY <1>2, <1>5 DEF Handed
<1>7. OpensIt(w, x, c, f, n)
  BY <1>4, <1>5, <1>6 DEF OpensIt, p, q, r
<1>. QED
  BY <1>6, <1>7 DEF x

\* A download of length m is begun, if it was not, and has nothing on disk.
Begins(z, f, m, l, k, b, l2, k2, b2) ==
  /\ m \in {0, z[f]} /\ l2 \in [Files -> Nat] /\ l2[f] = m
  /\ \A g \in Files \ {f} : l2[g] = l[g]
  /\ k2 \in [Downloads -> Seq(Nat)] /\ k2[f] = <<>>
  /\ \A g \in Downloads \ {f} : k2[g] = k[g]
  /\ b2 \subseteq Files /\ f \in b2 /\ \A g \in Files \ {f} : g \in b2 <=> g \in b

\* Nothing was fetched of it yet.
LEMMA OpenedOrder ==
  ASSUME FilesAssumption,
         NEW z, NEW w, NEW l, NEW k, NEW s, NEW b, InOrder(z, w, l, k, s, b),
         NEW c \in Clients, NEW f \in Downloads, Unasked(w, f), w.told[f] = <<>>,
         NEW m, NEW x \in Handed, OpensIt(w, x, c, f, m),
         NEW l2, NEW k2, NEW b2, Begins(z, f, m, l, k, b, l2, k2, b2)
  PROVE  InOrder(z, x, l2, k2, s, b2)
<1>0. /\ m \in {0, z[f]} /\ l2 \in [Files -> Nat] /\ l2[f] = m
      /\ \A g \in Files \ {f} : l2[g] = l[g]
      /\ k2 \in [Downloads -> Seq(Nat)] /\ k2[f] = <<>>
      /\ \A g \in Downloads \ {f} : k2[g] = k[g]
      /\ b2 \subseteq Files /\ f \in b2 /\ \A g \in Files \ {f} : g \in b2 <=> g \in b
  BY DEF Begins
<1>1. f \in Files /\ z[f] \in Nat /\ m \in Nat /\ w \in Handed
  BY <1>0 DEF Files, InOrder, World
<1>2. /\ w.d.queue \in [Downloads -> SUBSET Ids] /\ w.d.left \in [Downloads -> Int]
      /\ w.d.part \in [Downloads -> Nat]
  BY <1>1, HandedFields
<1>3. World(z, l2, k2, s, b2)
  BY <1>0, <1>1 DEF InOrder, World
<1>4. Asked(x)
  BY DEF OpensIt, Asked, InOrder
<1>5. \A g \in Downloads \ {f} : /\ SameDown(w, x, g) /\ l2[g] = l[g] /\ k2[g] = k[g]
                                  /\ (g \in b2 <=> g \in b)
  BY <1>0, <1>2 DEF OpensIt, SameDown, Files
<1>6. \A g \in Uploads : SameUp(w, x, g) /\ (g \in b2 <=> g \in b)
  BY <1>0 DEF OpensIt, SameUp, FilesAssumption, Files
<1>7. Fetched(z, x, l2, k2, b2, f)
  <2>1. k2[f] = Upto(0) /\ Len(k2[f]) = 0
    BY <1>0, UptoNone
  <2>2. f \in x.d.files[c] /\ Held(x, f) /\ f \in b2
    BY <1>0 DEF OpensIt, Held
  <2>3. \A d \in Clients : f \in x.d.files[d] => d = c
    BY DEF OpensIt
  <2>4. x.d.queue[f] = {} /\ x.d.left[f] = m /\ x.d.part[f] = 0
    BY <1>2 DEF OpensIt
  <2>5. Unasked(x, f) /\ x.told[f] = <<>>
    BY DEF OpensIt, Unasked
  <2>6. Part * 0 = 0 /\ m - 0 = m /\ 0 <= z[f]
    BY <1>0, <1>1 DEF Part
  <2>. QED
    BY <1>0, <2>1, <2>2, <2>3, <2>4, <2>5, <2>6, ReportFact DEF Fetched, Unasked, Clients
<1>. QED
  BY <1>0, <1>1, <1>3, <1>4, <1>5, <1>6, <1>7, OneDownload

\* The turns do not depend on it.
LEMMA OpenedTurn ==
  ASSUME NEW z, NEW w \in Handed, NEW l, NEW c \in Clients, NEW f \in Downloads,
         w.told[f] = <<>>, f \notin w.d.files[c],
         NEW m, NEW x \in Handed, OpensIt(w, x, c, f, m),
         NEW l2, \A g \in Files \ {f} : l2[g] = l[g],
         NEW n, NEW n2, \A d \in Clients : n2[d] = "auth" => n[d] = "auth",
         Turned(z, w, l, n, {})
  PROVE  /\ Settled(z, x, l2, c)
         /\ ~Held(w, f) => Turned(z, x, l2, n2, {c})
<1>1. /\ w.d.files \in [Clients -> SUBSET Downloads] /\ x.d.files \in [Clients -> SUBSET Downloads]
      /\ w.d.queue \in [Downloads -> SUBSET Ids]
  BY HandedFields
<1>2. \A g \in Downloads : w.told[g] = <<"done">> => g # f /\ l2[g] = l[g]
  BY ReportFact DEF Files
<1>3. x.d.cur = w.d.cur /\ x.told = w.told
  BY DEF OpensIt
<1>4. Settled(z, x, l2, c)
  <2>1. Settled(z, w, l, c)
    BY DEF Turned
  <2>2. CASE w.d.cur[c] \in w.d.files[c] \cup {None}
    <3>1. w.d.files[c] \subseteq x.d.files[c]
      BY <1>1 DEF OpensIt
    <3>. QED
      BY <1>3, <2>2, <3>1 DEF Settled
  <2>3. CASE w.d.cur[c] \notin w.d.files[c] \cup {None}
    <3>. DEFINE g == w.d.cur[c]
    <3>1. /\ g \in Downloads \ w.d.files[c] /\ w.told[g] = <<"done">>
          /\ l[g] # 0 /\ z[g] % Part = 0
      BY <2>1, <2>3 DEF Settled
    <3>2. x.d.cur[c] = g
      BY <1>3
    <3>. HIDE DEF g
    <3>3. g # f /\ l2[g] = l[g]
      BY <1>2, <3>1
    <3>4. g \notin x.d.files[c]
      BY <3>1, <3>3 DEF OpensIt
    <3>. QED
      BY <1>3, <3>1, <3>2, <3>3, <3>4 DEF Settled
  <2>. QED
    BY <2>2, <2>3
<1>5. ASSUME ~Held(w, f) PROVE Turned(z, x, l2, n2, {c})
  <2>1. ASSUME NEW d \in Clients \ {c} PROVE x.d.files[d] = w.d.files[d]
    <3>1. x.d.files[d] \subseteq Downloads /\ w.d.files[d] \subseteq Downloads
      BY <1>1
    <3>2. f \notin x.d.files[d] /\ f \notin w.d.files[d]
      BY <1>5 DEF OpensIt, Held
    <3>3. \A g \in Downloads \ {f} : g \in x.d.files[d] <=> g \in w.d.files[d]
      BY DEF OpensIt
    <3>. DEFINE A == x.d.files[d]
                B == w.d.files[d]
    <3>. HIDE DEF A, B
    <3>4. \A g : g \in A <=> g \in B
      BY <3>1, <3>2, <3>3 DEF A, B
    <3>5. A = B
      BY <3>4
    <3>. QED
      BY <3>5 DEF A, B
  <2>2. ASSUME NEW d \in Clients \ {c}, NEW g \in w.d.files[d]
        PROVE  x.d.queue[g] = w.d.queue[g]
    <3>1. g \in Downloads /\ g # f
      BY <1>1, <1>5 DEF Held
    <3>. QED
      BY <1>1, <3>1 DEF OpensIt
  <2>3. Elsewhere(w, x, l, l2, {c})
    BY <1>2, <1>3, <2>1, <2>2 DEF Elsewhere
  <2>. QED
    BY <2>3, TurnedElsewhere
<1>. QED
  BY <1>4, <1>5

-----------------------------------------------------------------------------
(***************************************************************************)
(* The actions about downloads.                                            *)
(***************************************************************************)
\* Making the other client authorizes nobody.
LEMMA LinkFact ==
  ASSUME Kinds, link' \in {link, Made}
  PROVE  /\ link' \in [Clients -> {"none", "down", "up", "auth"}]
         /\ \A c \in Clients : link'[c] = "auth" => link[c] = "auth" /\ Authorized(c)
BY DEF Kinds, Made, Clients, Authorized

\* downloadFile()
LEMMA DownloadStep ==
  ASSUME FilesAssumption, FInv, NEW f \in Downloads, NEW c \in Clients, Download(f, c)
  PROVE  FInv'
<1>1. PICK n \in {0, size[f]} :
         /\ length' = [length EXCEPT ![f] = n]
         /\ \E w \in DownloadNext(Opened(Here, c, f, n), c, Authorized(c)) : Become(w)
  BY DEF Download
<1>2. PICK w \in DownloadNext(Opened(Here, c, f, n), c, Authorized(c)) : Become(w)
  BY <1>1
<1>3. /\ f \notin begun /\ begun' = begun \cup {f} /\ link' \in {link, Made}
      /\ auth' = auth /\ size' = size /\ alive' = alive /\ disk' = disk /\ stored' = stored
  BY DEF Download
<1>4. f \in Files /\ size[f] \in Nat /\ n \in Nat
  BY HereFact DEF Files
<1>5. Fetched(size, Here, length, disk, begun, f)
  BY DEF FInv, InOrder
<1>6. /\ ~Held(Here, f) /\ Unasked(Here, f) /\ Here.told[f] = <<>>
      /\ Len(disk[f]) = 0 /\ length[f] = 0
  BY <1>3, <1>5 DEF Fetched
<1>7. disk[f] = <<>>
  BY <1>6, HereFact, UptoNone
<1>8. \A d \in Clients : f \notin Here.d.files[d]
  BY <1>6 DEF Held
<1>. DEFINE x == Opened(Here, c, f, n)
<1>9. x \in Handed /\ OpensIt(Here, x, c, f, n)
  BY <1>4, <1>8, HereFact, OpenedFact
<1>10. w \in DownloadNext(x, c, Authorized(c)) /\ Authorized(c) \in BOOLEAN
  BY <1>2 DEF Authorized
<1>. HIDE DEF x
<1>11. /\ length' \in [Files -> Nat] /\ length'[f] = n
       /\ \A g \in Files \ {f} : length'[g] = length[g]
  BY <1>1, <1>4, HereFact
<1>12. InOrder(size, Here, length, disk, stored, begun) /\ Turned(size, Here, length, link, {}) /\ Kinds
  BY DEF FInv
<1>13. disk' \in [Downloads -> Seq(Nat)] /\ disk'[f] = <<>> /\ \A g \in Downloads \ {f} : disk'[g] = disk[g]
  BY <1>3, <1>7, HereFact
<1>22. /\ begun' \subseteq Files /\ f \in begun'
       /\ \A g \in Files \ {f} : g \in begun' <=> g \in begun
  BY <1>3, <1>4, HereFact
<1>23. Begins(size, f, n, length, disk, begun, length', disk', begun')
  BY <1>11, <1>13, <1>22 DEF Begins
<1>14. InOrder(size, x, length', disk', stored, begun')
  BY <1>6, <1>9, <1>12, <1>23, OpenedOrder
<1>15. /\ link' \in [Clients -> {"none", "down", "up", "auth"}]
       /\ \A d \in Clients : link'[d] = "auth" => link[d] = "auth" /\ Authorized(d)
  BY <1>3, <1>12, LinkFact
<1>16. Settled(size, x, length', c) /\ Turned(size, x, length', link', {c})
  <2>1. f \notin Here.d.files[c] /\ Here \in Handed
    BY <1>8, HereFact
  <2>. QED
    BY <1>6, <1>9, <1>11, <1>12, <1>15, <2>1, OpenedTurn
<1>17. \A g \in Downloads : length[g] \in {0, length'[g]}
  BY <1>6, <1>11 DEF Files
<1>18. link'[c] = "auth" => Authorized(c)
  BY <1>15
<1>19. InOrder(size, w, length', disk', stored, begun') /\ Turned(size, w, length', link', {c} \ {c})
  BY <1>10, <1>14, <1>16, <1>17, <1>18, NextOrder
<1>20. Turned(size, w, length', link', {})
  BY <1>19 DEF Turned
<1>21. Kinds'
  BY <1>3, <1>12, <1>15 DEF Kinds, auth
<1>. QED
  BY <1>2, <1>3, <1>19, <1>20, <1>21, Settle

\* A file leaves a client without a word.
DropsIt(w, x, c, f) ==
  /\ x.d.files = [w.d.files EXCEPT ![c] = @ \ {f}] /\ x.d.cur = w.d.cur
  /\ x.d.packets = w.d.packets /\ x.d.queue = w.d.queue
  /\ x.d.part = w.d.part /\ x.d.left = w.d.left /\ x.u = w.u /\ x.calls = w.calls
  /\ x.told = w.told

\* What that changes.
LEMMA DropFact ==
  ASSUME NEW w \in Handed, NEW c \in Clients, NEW f
  PROVE  /\ [w EXCEPT !.d.files[c] = @ \ {f}] \in Handed
         /\ DropsIt(w, [w EXCEPT !.d.files[c] = @ \ {f}], c, f)
<1>. DEFINE h == [w.d.files EXCEPT ![c] = @ \ {f}]
            y == [w.d EXCEPT !.files = h]
            x == [w EXCEPT !.d.files[c] = @ \ {f}]
<1>1. w.d \in DownState
  BY DEF Handed
<1>2. x = [w EXCEPT !.d = y]
  BY <1>1 DEF Handed, DownState
<1>. HIDE DEF x
<1>3. h \in [Clients -> SUBSET Downloads]
  BY HandedFields
<1>. HIDE DEF h
<1>4. /\ y \in DownState
      /\ y.files = h /\ y.cur = w.d.cur /\ y.packets = w.d.packets
      /\ y.queue = w.d.queue /\ y.part = w.d.part /\ y.left = w.d.left
  BY <1>1, <1>3 DEF DownState
<1>. HIDE DEF y
<1>5. x \in Handed /\ x.d = y /\ x.u = w.u /\ x.calls = w.calls /\ x.told = w.told
  BY <1>2, <1>4 DEF Handed
<1>6. DropsIt(w, x, c, f)
  BY <1>4, <1>5 DEF DropsIt, h
<1>. QED
  BY <1>5, <1>6 DEF x

\* What is left when the answer to a request about a file is taken.
LEMMA TakenOrder ==
  ASSUME FilesAssumption, FInv, NEW m \in calls
  PROVE  /\ FileOf(m) = m.file /\ m.at \in Clients
         /\ m.kind = "get" => m.file \in Downloads
         /\ m.kind = "save" => m.file \in Uploads
         /\ m.file # None => Unasked(Taken(m), m.file) /\ Unasked(Without(m), m.file)
         /\ Taken(m) \in Handed /\ SameFiles(Here, Taken(m))
         /\ InOrder(size, Taken(m), length, disk, stored, begun)
         /\ Turned(size, Taken(m), length, link, {})
         /\ InOrder(size, Without(m), length, disk, stored, begun)
         /\ Turned(size, Without(m), length, link, {})
<1>1. InOrder(size, Here, length, disk, stored, begun) /\ Turned(size, Here, length, link, {})
  BY DEF FInv
<1>2. FileOf(m) = m.file
  BY HereFact, FileOfFact
<1>3. /\ m.at \in Clients /\ (m.kind = "get" => m.file \in Downloads)
      /\ (m.kind = "save" => m.file \in Uploads)
  BY HereFact DEF Asked, Call
<1>4. /\ Without(m) \in Handed /\ Forgets(Here, Without(m), m)
      /\ Taken(m) \in Handed /\ Forgets(Here, Taken(m), m)
  BY HereFact, TakenFact
<1>5. m \in Here.calls
  BY HereFact
<1>6. /\ InOrder(size, Taken(m), length, disk, stored, begun)
      /\ Turned(size, Taken(m), length, link, {})
      /\ m.file # None => Unasked(Taken(m), m.file)
  BY <1>1, <1>4, <1>5, ForgottenOrder
<1>7. /\ InOrder(size, Without(m), length, disk, stored, begun)
      /\ Turned(size, Without(m), length, link, {})
      /\ m.file # None => Unasked(Without(m), m.file)
  BY <1>1, <1>4, <1>5, ForgottenOrder
<1>8. SameFiles(Here, Taken(m))
  BY <1>4 DEF Forgets
<1>. QED
  BY <1>2, <1>3, <1>4, <1>6, <1>7, <1>8

\* FILE_MIGRATE
LEMMA MigrateStep ==
  ASSUME FilesAssumption, FInv, NEW m \in calls, MigrateFileTo(m)
  PROVE  FInv'
<1>. DEFINE f == m.file
            to == IF m.file \in Abroad THEN "child" ELSE "main"
            t == Taken(m)
            x0 == [t EXCEPT !.d.files[m.at] = @ \ {f}]
            x == Opened(x0, to, f, length[f])
<1>1. /\ FileOf(m) = f /\ m.at \in Clients /\ f \in Downloads
      /\ t \in Handed /\ SameFiles(Here, t)
      /\ InOrder(size, t, length, disk, stored, begun) /\ Turned(size, t, length, link, {})
      /\ (f # None => Unasked(t, f))
  BY TakenOrder DEF MigrateFileTo, Replied
<1>2. /\ auth' = auth /\ size' = size /\ length' = length /\ alive' = alive
      /\ begun' = begun /\ stored' = stored
  BY DEF MigrateFileTo
<1>3. /\ length' = length /\ size' = size /\ stored' = stored /\ begun' = begun
      /\ Kinds /\ (link' \in {link, Made} => Kinds')
  BY <1>2, LinkFact DEF FInv, Kinds, auth
<1>4. CASE f \notin dl.files[m.at]
  <2>1. Become(t) /\ link' = link /\ disk' = disk
    BY <1>1, <1>4 DEF MigrateFileTo
  <2>. QED
    BY <1>1, <1>3, <2>1, Settle
<1>5. CASE f \in dl.files[m.at]
  <2>1. PICK v \in DownloadNext(x, to, Authorized(to)) : \E w \in NextFile(v, m.at) : Become(w)
    BY <1>1, <1>5 DEF MigrateFileTo
  <2>2. PICK w \in NextFile(v, m.at) : Become(w)
    BY <2>1
  <2>3. link' \in {link, Made} /\ disk' = [disk EXCEPT ![f] = <<>>]
    BY <1>1, <1>5 DEF MigrateFileTo
  <2>4. to \in Clients /\ Clients = {to, m.at} /\ to # m.at
    BY <1>1 DEF MigrateFileTo, AtHome, Clients
  <2>5. f \in t.d.files[m.at] /\ t.told[f] = <<>> /\ f # None /\ f \in Files
    BY <1>1, <1>5, HereFact, PartFact DEF SameFiles
  <2>6. Fetched(size, t, length, disk, begun, f)
    BY <1>1 DEF InOrder
  <2>7. f \notin t.d.files[to] /\ f \in begun /\ length[f] \in {0, size[f]}
    BY <1>1, <2>4, <2>5, <2>6 DEF Fetched, Held, Clients
  <2>8. x0 \in Handed /\ DropsIt(t, x0, m.at, f)
    BY <1>1, DropFact
  <2>9. t.d.files \in [Clients -> SUBSET Downloads]
    BY <1>1, HandedFields
  <2>. HIDE DEF x0, to, t
  <2>10. \A d \in Clients : f \notin x0.d.files[d]
    BY <1>1, <2>4, <2>7, <2>8, <2>9 DEF DropsIt
  <2>11. length[f] \in Nat
    BY <2>5, HereFact
  <2>12. x \in Handed /\ OpensIt(x0, x, to, f, length[f])
    BY <1>1, <2>4, <2>8, <2>10, <2>11, OpenedFact
  <2>. HIDE DEF x
  <2>13. OpensIt(t, x, to, f, length[f])
    <3>1. \A d \in Clients : \A g \in Downloads \ {f} : g \in x0.d.files[d] <=> g \in t.d.files[d]
      BY <1>1, <2>8, <2>9 DEF DropsIt
    <3>. QED
      BY <2>8, <2>12, <3>1 DEF OpensIt, DropsIt
  <2>14. /\ disk' \in [Downloads -> Seq(Nat)] /\ disk'[f] = <<>>
         /\ \A g \in Downloads \ {f} : disk'[g] = disk[g]
    BY <1>1, <2>3, HereFact, UptoNone
  <2>15. begun \subseteq Files /\ length \in [Files -> Nat]
    BY HereFact
  <2>16. InOrder(size, x, length, disk', stored, begun)
    <3>1. Begins(size, f, length[f], length, disk, begun, length, disk', begun)
      BY <2>5, <2>7, <2>14, <2>15 DEF Begins
    <3>. QED
      BY <1>1, <2>4, <2>5, <2>12, <2>13, <3>1, OpenedOrder
  <2>17. \A d \in Clients : link'[d] = "auth" => link[d] = "auth" /\ Authorized(d)
    BY <1>3, <2>3, LinkFact
  <2>18. Settled(size, x, length, to)
    BY <1>1, <2>4, <2>5, <2>7, <2>12, <2>13, OpenedTurn
  <2>19. Turned(size, x, length, link', Clients)
    BY DEF Turned
  <2>20. Authorized(to) \in BOOLEAN /\ \A g \in Downloads : length[g] \in {0, length[g]}
    BY DEF Authorized
  <2>21. /\ InOrder(size, v, length, disk', stored, begun)
         /\ Turned(size, v, length, link', Clients \ {to})
    BY <2>1, <2>4, <2>16, <2>17, <2>18, <2>19, <2>20, NextOrder
  <2>22. /\ InOrder(size, w, length, disk', stored, begun)
         /\ Turned(size, w, length, link', (Clients \ {to}) \ {m.at})
    BY <1>1, <2>2, <2>17, <2>20, <2>21, NextFileOrder
  <2>23. Turned(size, w, length, link', {})
    BY <2>4, <2>22 DEF Turned
  <2>. QED
    BY <1>3, <2>2, <2>3, <2>22, <2>23, Settle
<1>. QED
  BY <1>4, <1>5

\* An action that leaves the connections and the lengths alone.
LEMMA SettleHere ==
  ASSUME FInv, NEW w, Become(w),
         link' = link, auth' = auth, alive' \in BOOLEAN, size' = size, length' = length,
         begun' = begun, stored' = stored,
         InOrder(size, w, length, disk', stored, begun), Turned(size, w, length, link, {})
  PROVE  FInv'
<1>1. Kinds'
  BY DEF FInv, Kinds, auth
<1>2. InOrder(size, w, length', disk', stored', begun') /\ Turned(size, w, length', link', {})
  OBVIOUS
<1>. QED
  BY <1>1, <1>2, Settle

\* A download is cancelled and its file removed.
LEMMA StopOrder ==
  ASSUME FilesAssumption, FInv, NEW w,
         InOrder(size, w, length, disk, stored, begun), Turned(size, w, length, link, {}),
         NEW c \in Clients, NEW f \in w.d.files[c], NEW v \in Stopped(w, c, f),
         disk' = [disk EXCEPT ![f] = <<>>]
  PROVE  InOrder(size, v, length, disk', stored, begun) /\ Turned(size, v, length, link, {})
<1>1. f \in Downloads /\ w \in Handed /\ Half(w, w, f)
  BY HandedFields DEF InOrder, Half
<1>2. Leaves(size, f, "cancel", disk, disk')
  BY <1>1, HereFact, UptoNone DEF Leaves
<1>3. v \in NextFile(Ended(w, c, f, "cancel"), c)
  BY DEF Stopped
<1>4. link[c] = "auth" => Authorized(c)
  BY DEF Authorized
<1>. QED
  BY <1>1, <1>2, <1>3, <1>4, EndedNextOrder

\* cancelDownload()
LEMMA CancelDownloadStep ==
  ASSUME FilesAssumption, FInv, NEW f \in Downloads, CancelDownload(f)
  PROVE  FInv'
<1>1. PICK w \in Stopped(Here, "main", f) : Become(w)
  BY DEF CancelDownload
<1>2. InOrder(size, w, length, disk', stored, begun) /\ Turned(size, w, length, link, {})
  <2>1. f \in Here.d.files["main"] /\ "main" \in Clients
    BY HereFact DEF CancelDownload, Clients
  <2>2. disk' = [disk EXCEPT ![f] = <<>>]
    BY DEF CancelDownload
  <2>3. InOrder(size, Here, length, disk, stored, begun) /\ Turned(size, Here, length, link, {})
    BY DEF FInv
  <2>. QED
    BY <1>1, <2>1, <2>2, <2>3, StopOrder
<1>3. alive' \in BOOLEAN
  BY DEF CancelDownload, FInv, Kinds
<1>. QED
  BY <1>1, <1>2, <1>3, SettleHere DEF CancelDownload

\* FILE_ID_INVALID
LEMMA FileIdInvalidStep ==
  ASSUME FilesAssumption, FInv, NEW m \in calls, FileIdInvalid(m)
  PROVE  FInv'
<1>1. /\ FileOf(m) = m.file /\ m.at \in Clients /\ SameFiles(Here, Taken(m))
      /\ InOrder(size, Taken(m), length, disk, stored, begun)
      /\ Turned(size, Taken(m), length, link, {})
  BY TakenOrder
<1>2. alive' \in BOOLEAN
  BY DEF FileIdInvalid, FInv, Kinds
<1>3. CASE m.file \notin dl.files[m.at]
  <2>1. Become(Taken(m)) /\ disk' = disk
    BY <1>1, <1>3 DEF FileIdInvalid
  <2>. QED
    BY <1>1, <1>2, <2>1, SettleHere DEF FileIdInvalid
<1>4. CASE m.file \in dl.files[m.at]
  <2>1. /\ \E w \in Stopped(Taken(m), m.at, m.file) : Become(w)
        /\ disk' = [disk EXCEPT ![m.file] = <<>>]
    BY <1>1, <1>4 DEF FileIdInvalid
  <2>2. PICK w \in Stopped(Taken(m), m.at, m.file) : Become(w)
    BY <2>1
  <2>3. m.file \in Taken(m).d.files[m.at]
    BY <1>1, <1>4, HereFact DEF SameFiles
  <2>4. InOrder(size, w, length, disk', stored, begun) /\ Turned(size, w, length, link, {})
    BY <1>1, <2>1, <2>2, <2>3, StopOrder
  <2>. QED
    BY <1>2, <2>2, <2>4, SettleHere DEF FileIdInvalid
<1>. QED
  BY <1>3, <1>4

\* Any other error
LEMMA RefusedStep ==
  ASSUME FilesAssumption, FInv, NEW m \in calls, Refused(m)
  PROVE  FInv'
<1>1. /\ InOrder(size, Without(m), length, disk, stored, begun)
      /\ Turned(size, Without(m), length, link, {})
  BY TakenOrder
<1>2. alive' \in BOOLEAN /\ Become(Without(m)) /\ disk' = disk
  BY DEF Refused, FInv, Kinds
<1>. QED
  BY <1>1, <1>2, SettleHere DEF Refused

\* OFFSET_INVALID
LEMMA ProbablyDownloadedStep ==
  ASSUME FilesAssumption, FInv, NEW m \in calls, FileProbablyDownloaded(m)
  PROVE  FInv'
<1>. DEFINE t == Taken(m)
            f == m.file
<1>1. /\ FileOf(m) = f /\ m.at \in Clients /\ t \in Handed /\ SameFiles(Here, t)
      /\ f \in Downloads
      /\ InOrder(size, t, length, disk, stored, begun) /\ Turned(size, t, length, link, {})
  BY TakenOrder DEF FileProbablyDownloaded, Replied
<1>2. alive' \in BOOLEAN /\ disk' = disk
  BY DEF FileProbablyDownloaded, FInv, Kinds
<1>3. CASE f \notin dl.files[m.at]
  <2>1. Become(t)
    BY <1>1, <1>3 DEF FileProbablyDownloaded
  <2>. QED
    BY <1>1, <1>2, <2>1, SettleHere DEF FileProbablyDownloaded
<1>4. CASE f \in dl.files[m.at]
  <2>1. PICK w \in NextFile(Ended(t, m.at, f, "done"), m.at) : Become(w)
    BY <1>1, <1>4 DEF FileProbablyDownloaded
  <2>2. f \in t.d.files[m.at] /\ Half(t, t, f)
    BY <1>1, <1>4, HereFact DEF SameFiles, Half
  <2>3. /\ m.part = Len(disk[f]) /\ m.part \in Nat /\ size[f] \in Nat
        /\ Part * m.part <= size[f] /\ disk[f] = Upto(m.part)
    BY <1>1, <1>4, PartFact
  <2>4. size[f] <= Part * m.part
    BY <2>3 DEF FileProbablyDownloaded, Rest, Part
  <2>5. Len(disk[f]) = Parts(size[f])
    BY <2>3, <2>4, PartsFact
  <2>6. Leaves(size, f, "done", disk, disk')
    BY <1>2, <2>3, <2>5, HereFact DEF Leaves
  <2>7. link[m.at] = "auth" => Authorized(m.at)
    BY DEF Authorized
  <2>. HIDE DEF t, f
  <2>8. InOrder(size, w, length, disk', stored, begun) /\ Turned(size, w, length, link, {})
    BY <1>1, <2>1, <2>2, <2>6, <2>7, EndedNextOrder
  <2>. QED
    BY <1>2, <2>1, <2>8, SettleHere DEF FileProbablyDownloaded
<1>. QED
  BY <1>3, <1>4

\* The part the server sends: a full one, or what is left of the file.
LEMMA SentPartFact ==
  ASSUME FilesAssumption, FInv, NEW m \in calls, m.file \in Downloads,
         m.file \in dl.files[m.at],
         NEW n, n = IF Rest(m) > Part THEN Part ELSE IF Rest(m) < 0 THEN 0 ELSE Rest(m)
  PROVE  /\ n \in Nat
         /\ n = Part => Part * (m.part + 1) <= size[m.file]
         /\ n # Part => n \in {0, 1} /\ Parts(size[m.file]) = m.part + n
<1>. DEFINE p == m.part
            z == size[m.file]
<1>1. p \in Nat /\ z \in Nat /\ Part * p <= z
  BY PartFact
<1>2. Rest(m) = z - Part * p
  BY DEF Rest
<1>. HIDE DEF p, z
<1>3. n \in Nat /\ (n = Part => Part * (p + 1) <= z)
  BY <1>1, <1>2 DEF Part
<1>4. CASE n # Part
  <2>1. n \in {0, 1} /\ z = 2 * p + n
    BY <1>1, <1>2, <1>4 DEF Part
  <2>2. CASE n = 0
    <3>1. Part * p <= z /\ z <= Part * p
      BY <1>1, <2>1, <2>2 DEF Part
    <3>. QED
      BY <1>1, <2>1, <2>2, <3>1, PartsFact DEF p, z
  <2>3. CASE n = 1
    <3>1. z = Part * p + 1
      BY <1>1, <2>1, <2>3 DEF Part
    <3>. QED
      BY <1>1, <1>3, <2>1, <2>3, <3>1, PartsFact DEF p, z
  <2>. QED
    BY <1>3, <1>4, <2>1, <2>2, <2>3 DEF p, z
<1>. QED
  BY <1>3, <1>4 DEF p, z

\* handleDownloadingFile()
LEMMA DownloadingStep ==
  ASSUME FilesAssumption, FInv, NEW m \in calls, HandleDownloadingFile(m)
  PROVE  FInv'
<1>. DEFINE t == Taken(m)
            f == m.file
            c == m.at
            n == IF Rest(m) > Part THEN Part ELSE IF Rest(m) < 0 THEN 0 ELSE Rest(m)
            x == Received(m, f, n)
<1>1. /\ FileOf(m) = f /\ c \in Clients /\ t \in Handed /\ SameFiles(Here, t)
      /\ f \in Downloads /\ (f # None => Unasked(t, f))
      /\ InOrder(size, t, length, disk, stored, begun) /\ Turned(size, t, length, link, {})
  BY TakenOrder DEF HandleDownloadingFile, Replied
<1>2. link[c] = "auth" => Authorized(c)
  BY DEF Authorized
<1>3. Authorized(c) \in BOOLEAN /\ \A g \in Downloads : length[g] \in {0, length[g]}
  BY DEF Authorized
<1>4. t.d.files = dl.files /\ t.d.queue = dl.queue
  BY <1>1, HereFact DEF SameFiles
<1>5. CASE /\ f \notin dl.files[c]
           /\ \E w \in DownloadNext(t, c, Authorized(c)) : Become(w)
           /\ UNCHANGED <<alive, disk>>
  <2>1. PICK w \in DownloadNext(t, c, Authorized(c)) : Become(w)
    BY <1>5
  <2>2. alive' \in BOOLEAN /\ disk' = disk
    BY <1>5 DEF FInv, Kinds
  <2>3. Settled(size, t, length, c)
    BY <1>1 DEF Turned
  <2>. HIDE DEF t, c
  <2>4. /\ InOrder(size, w, length, disk, stored, begun)
        /\ Turned(size, w, length, link, {} \ {c})
    BY <1>1, <1>2, <1>3, <2>1, <2>3, NextOrder
  <2>5. Turned(size, w, length, link, {})
    BY <2>4 DEF Turned
  <2>. QED
    BY <2>1, <2>2, <2>4, <2>5, SettleHere DEF HandleDownloadingFile
<1>6. CASE f \in dl.files[c]
  <2>1. /\ n \in Nat /\ (n = Part => Part * (m.part + 1) <= size[f])
        /\ (n # Part => n \in {0, 1} /\ Parts(size[f]) = m.part + n)
    BY <1>1, <1>6, SentPartFact
  <2>2. /\ m.part = Len(disk[f]) /\ m.part \in Nat /\ disk[f] = Upto(m.part)
        /\ dl.queue[f] = {m.id} /\ f # None
    BY <1>1, <1>6, PartFact
  <2>3. x \in Handed /\ ReceivesIt(t, x, f, n, m.id)
    BY <1>1, <2>1, ReceivedFact
  <2>4. /\ Append(disk[f], m.part) = Upto(m.part + 1)
        /\ Upto(m.part + 1) \in Seq(Nat) /\ Len(Upto(m.part + 1)) = m.part + 1
    <3>. DEFINE p == m.part
    <3>1. p \in Nat /\ disk[f] = Upto(p)
      BY <2>2
    <3>. HIDE DEF p
    <3>2. Append(Upto(p), p) = Upto(p + 1) /\ p + 1 \in Nat
      BY <3>1, UptoFact
    <3>3. Upto(p + 1) \in Seq(Nat) /\ Len(Upto(p + 1)) = p + 1
      BY <3>2, UptoFact
    <3>. QED
      BY <3>1, <3>2, <3>3 DEF p
  <2>5. t.d.queue[f] = {m.id} /\ f \in t.d.files[c]
    BY <1>4, <1>6, <2>2
  <2>6. CASE /\ n # Part
             /\ \E w \in NextFile(Ended(x, c, f, "done"), c) : Become(w)
             /\ disk' = IF n = 0 THEN disk ELSE [disk EXCEPT ![f] = Append(@, m.part)]
             /\ UNCHANGED alive
    <3>1. PICK w \in NextFile(Ended(x, c, f, "done"), c) : Become(w)
      BY <2>6
    <3>2. alive' \in BOOLEAN
      BY <2>6 DEF FInv, Kinds
    <3>3. Half(t, x, f) /\ x.d.cur = t.d.cur
      <4>1. t.d.queue \in [Downloads -> SUBSET Ids] /\ t.d.left \in [Downloads -> Int]
        BY <1>1, HandedFields
      <4>. HIDE DEF t, x
      <4>. QED
        BY <1>1, <2>3, <4>1 DEF ReceivesIt, Half
    <3>4. Leaves(size, f, "done", disk, disk')
      <4>1. CASE n = 0
        <5>1. disk' = disk
          BY <2>6, <4>1
        <5>2. Parts(size[f]) = Len(disk[f])
          BY <2>1, <2>2, <2>6, <4>1
        <5>. QED
          BY <2>2, <5>1, <5>2, HereFact DEF Leaves
      <4>2. CASE n # 0
        <5>1. n = 1 /\ disk' = [disk EXCEPT ![f] = Upto(m.part + 1)]
          BY <2>1, <2>4, <2>6, <4>2
        <5>2. Upto(m.part + 1) \in Seq(Nat)
          BY <2>4
        <5>3. /\ disk' \in [Downloads -> Seq(Nat)] /\ disk'[f] = Upto(m.part + 1)
              /\ \A g \in Downloads \ {f} : disk'[g] = disk[g]
          BY <1>1, <5>1, <5>2, HereFact
        <5>4. Len(disk'[f]) = m.part + 1 /\ Parts(size[f]) = m.part + 1
          BY <2>1, <2>4, <2>6, <5>1, <5>3
        <5>. QED
          BY <5>3, <5>4 DEF Leaves
      <4>. QED
        BY <4>1, <4>2
    <3>. HIDE DEF t, f, c, x
    <3>5. InOrder(size, w, length, disk', stored, begun) /\ Turned(size, w, length, link, {})
      BY <1>1, <1>2, <1>3, <2>3, <2>5, <3>1, <3>3, <3>4, EndedNextOrder
    <3>. QED
      BY <3>1, <3>2, <3>5, SettleHere DEF HandleDownloadingFile
  <2>7. CASE /\ n = Part
             /\ \E w \in DownloadNext(x, c, Authorized(c)) : Become(w)
             /\ disk' = [disk EXCEPT ![f] = Append(@, m.part)]
             /\ alive' \in IF length[f] = 0 THEN BOOLEAN ELSE {TRUE}
    <3>1. PICK w \in DownloadNext(x, c, Authorized(c)) : Become(w)
      BY <2>7
    <3>2. alive' \in BOOLEAN
      BY <2>7
    <3>3. Part * (Len(disk[f]) + 1) <= size[f]
      BY <2>1, <2>2, <2>7
    <3>4. /\ disk' \in [Downloads -> Seq(Nat)] /\ disk'[f] = Append(disk[f], Len(disk[f]))
          /\ \A g \in Downloads \ {f} : disk'[g] = disk[g]
      BY <1>1, <2>2, <2>4, <2>7, HereFact
    <3>9. Grows(f, disk, disk')
      BY <3>4 DEF Grows
    <3>5. ReceivesIt(t, x, f, Part, m.id) /\ Unasked(t, f)
      BY <1>1, <2>2, <2>3, <2>7
    <3>. HIDE DEF t, f, c, x, n
    <3>6. /\ InOrder(size, x, length, disk', stored, begun)
          /\ Turned(size, x, length, link, {c}) /\ Settled(size, x, length, c)
      BY <1>1, <2>3, <2>5, <3>3, <3>5, <3>9, FullPartOrder
    <3>7. /\ InOrder(size, w, length, disk', stored, begun)
          /\ Turned(size, w, length, link, {c} \ {c})
      BY <1>1, <1>2, <1>3, <3>1, <3>6, NextOrder
    <3>8. Turned(size, w, length, link, {})
      BY <3>7 DEF Turned
    <3>. QED
      BY <3>1, <3>2, <3>7, <3>8, SettleHere DEF HandleDownloadingFile
  <2>. QED
    BY <1>1, <1>6, <2>6, <2>7 DEF HandleDownloadingFile
<1>. QED
  BY <1>1, <1>5, <1>6 DEF HandleDownloadingFile

-----------------------------------------------------------------------------
(***************************************************************************)
(* Uploads.  They are nothing to the turns of the downloads.               *)
(***************************************************************************)
Aside(w, v) ==
  /\ v.d.files = w.d.files /\ v.d.cur = w.d.cur /\ v.d.queue = w.d.queue
  /\ \A g \in Downloads : v.told[g] = w.told[g]

\* The turns after a step of an upload.
LEMMA AsideTurn ==
  ASSUME NEW z, NEW w, NEW l, NEW n, Turned(z, w, l, n, {}),
         NEW v, Aside(w, v), NEW l2, \A g \in Downloads : l2[g] = l[g]
  PROVE  Turned(z, v, l2, n, {})
<1>1. Elsewhere(w, v, l, l2, {})
  BY DEF Elsewhere, Aside
<1>. QED
  BY <1>1, TurnedElsewhere

EndsUp(w, v, f, how) ==
  /\ v.d = w.d /\ v.calls = w.calls /\ v.u.files = w.u.files \ {f}
  /\ v.u.part = w.u.part /\ v.u.left = w.u.left
  /\ v.told = [w.told EXCEPT ![f] = <<how>>]

\* The end of an upload.
LEMMA EndedUploadFact ==
  ASSUME NEW w \in Handed, NEW f \in Uploads, NEW how \in {"done", "cancel"},
         w.told[f] = <<>>
  PROVE  EndedUpload(w, f, how) \in Handed /\ EndsUp(w, EndedUpload(w, f, how), f, how)
<1>. DEFINE y == [w.u EXCEPT !.files = @ \ {f}]
            t == [w.told EXCEPT ![f] = Append(@, how)]
            v == EndedUpload(w, f, how)
<1>1. w.u \in UpState /\ f \in Files
  BY DEF Handed, Files
<1>2. v = [w EXCEPT !.u = y, !.told = t]
  BY <1>1 DEF EndedUpload, Handed, UpState
<1>. HIDE DEF v
<1>3. t = [w.told EXCEPT ![f] = <<how>>]
  BY <1>1, HandedFields, ReportFact
<1>4. t \in [Files -> Seq({"done", "cancel"})]
  BY <1>3, HandedFields, ReportFact
<1>. HIDE DEF t
<1>5. /\ y \in UpState
      /\ y.files = w.u.files \ {f} /\ y.part = w.u.part /\ y.left = w.u.left
  BY <1>1 DEF UpState
<1>. HIDE DEF y
<1>6. v \in Handed /\ v.d = w.d /\ v.u = y /\ v.calls = w.calls /\ v.told = t
  BY <1>2, <1>4, <1>5 DEF Handed
<1>7. EndsUp(w, v, f, how)
  BY <1>3, <1>5, <1>6 DEF EndsUp
<1>. QED
  BY <1>6, <1>7 DEF v

\* An upload ends, whole or cancelled.
LEMMA EndedUploadOrder ==
  ASSUME FilesAssumption,
         NEW z, NEW w, NEW l, NEW k, NEW s, NEW b, InOrder(z, w, l, k, s, b),
         NEW f \in w.u.files, NEW how \in {"done", "cancel"},
         how = "done" => Unasked(w, f) /\ s[f] = Upto(Parts(z[f]))
  PROVE  /\ InOrder(z, EndedUpload(w, f, how), l, k, s, b)
         /\ Aside(w, EndedUpload(w, f, how))
<1>1. f \in Uploads /\ w \in Handed /\ f \in Files
  BY HandedFields DEF InOrder, Files
<1>2. Sending(z, w, s, b, f)
  BY <1>1 DEF InOrder
<1>3. w.told[f] = <<>> /\ f \in b
  BY <1>2 DEF Sending
<1>. DEFINE v == EndedUpload(w, f, how)
<1>4. v \in Handed /\ EndsUp(w, v, f, how)
  BY <1>1, <1>3, EndedUploadFact
<1>. HIDE DEF v
<1>5. w.told \in [Files -> Seq({"done", "cancel"})]
  BY <1>1, HandedFields
<1>6. v.told[f] = <<how>> /\ \A g \in Files \ {f} : v.told[g] = w.told[g]
  BY <1>1, <1>4, <1>5 DEF EndsUp
<1>7. \A g \in Downloads : SameDown(w, v, g)
  BY <1>1, <1>4, <1>6 DEF SameDown, EndsUp, FilesAssumption, Files
<1>8. \A g \in Uploads \ {f} : SameUp(w, v, g)
  BY <1>4, <1>6 DEF SameUp, EndsUp, Files
<1>9. Asked(v)
  BY <1>4 DEF EndsUp, Asked, InOrder
<1>10. Sending(z, v, s, b, f)
  <2>1. v.told[f] \in Reported /\ (v.told[f] = <<"done">> => how = "done")
    BY <1>6, ReportFact
  <2>2. f \notin v.u.files
    BY <1>4 DEF EndsUp
  <2>3. Unasked(w, f) => Unasked(v, f)
    BY <1>4 DEF Unasked, EndsUp
  <2>. QED
    BY <1>3, <2>1, <2>2, <2>3 DEF Sending
<1>11. World(z, l, k, s, b)
  BY DEF InOrder
<1>12. InOrder(z, v, l, k, s, b)
  BY <1>1, <1>4, <1>7, <1>8, <1>9, <1>10, <1>11, OneUpload
<1>13. Aside(w, v)
  BY <1>1, <1>4, <1>6 DEF Aside, EndsUp, FilesAssumption, Files
<1>. QED
  BY <1>12, <1>13 DEF v

SaveCall(w, f) ==
  [id |-> Fresh(w, f), at |-> "main", kind |-> "save", file |-> f, part |-> w.u.part[f],
   held |-> FALSE]

AsksUp(w, v, f) ==
  /\ v.d.files = w.d.files /\ v.d.cur = w.d.cur
  /\ v.d.packets = [w.d.packets EXCEPT !["main"] = @ \cup {[id |-> Fresh(w, f), file |-> f]}]
  /\ v.d.queue = w.d.queue /\ v.d.part = w.d.part /\ v.d.left = w.d.left
  /\ v.u.files = w.u.files /\ v.u.part = [w.u.part EXCEPT ![f] = @ + 1]
  /\ v.u.left = [w.u.left EXCEPT ![f] = IF @ > Part THEN @ - Part ELSE 0]
  /\ v.told = w.told /\ v.calls = w.calls \cup {SaveCall(w, f)}

\* A part is sent.
LEMMA UploadPartFact ==
  ASSUME FilesAssumption, NEW w \in Handed, NEW f \in Uploads
  PROVE  UploadPart(w, f) \in Handed /\ AsksUp(w, UploadPart(w, f), f)
<1>. DEFINE id == Fresh(w, f)
            p == [w.d.packets EXCEPT !["main"] = @ \cup {[id |-> id, file |-> f]}]
            n == [w.u.part EXCEPT ![f] = @ + 1]
            r == [w.u.left EXCEPT ![f] = IF @ > Part THEN @ - Part ELSE 0]
            a == [id |-> id, at |-> "main", kind |-> "save", file |-> f, part |-> w.u.part[f],
                  held |-> FALSE]
            m == w.calls \cup {a}
            y == [w.d EXCEPT !.packets = p]
            u == [w.u EXCEPT !.part = n, !.left = r]
            v == UploadPart(w, f)
<1>1. id \in Ids /\ id[1] = f /\ f \in Files /\ "main" \in Clients
  BY FreshFact DEF Files, Clients
<1>2. Sent(w, id, "main", "save", w.u.part[f]) = m
  BY <1>1 DEF Sent
<1>3. w.d \in DownState /\ w.u \in UpState
  BY DEF Handed
<1>4. v = [w EXCEPT !.u = u, !.d = y, !.calls = m]
  BY <1>2, <1>3 DEF UploadPart, Handed, DownState, UpState
<1>. HIDE DEF v, id
<1>5. /\ p \in [Clients -> SUBSET [id : Ids, file : Files]]
      /\ n \in [Uploads -> Nat]
  BY <1>1, HandedFields
<1>6. r \in [Uploads -> Nat]
  <2>1. w.u.left \in [Uploads -> Nat]
    BY HandedFields
  <2>2. (IF w.u.left[f] > Part THEN w.u.left[f] - Part ELSE 0) \in Nat
    BY <2>1 DEF Part
  <2>. QED
    BY <2>1, <2>2
<1>7. m \in SUBSET Call
  <2>1. w.u.part[f] \in Nat /\ w.calls \in SUBSET Call
    BY HandedFields
  <2>2. a \in Call
    BY <1>1, <2>1 DEF Call
  <2>. QED
    BY <2>1, <2>2
<1>. HIDE DEF p, n, r, m
<1>8. /\ y \in DownState
      /\ y.files = w.d.files /\ y.cur = w.d.cur /\ y.packets = p
      /\ y.queue = w.d.queue /\ y.part = w.d.part /\ y.left = w.d.left
  BY <1>3, <1>5 DEF DownState
<1>9. u \in UpState /\ u.files = w.u.files /\ u.part = n /\ u.left = r
  BY <1>3, <1>5, <1>6 DEF UpState
<1>. HIDE DEF y, u
<1>10. v \in Handed /\ v.d = y /\ v.u = u /\ v.calls = m /\ v.told = w.told
  BY <1>4, <1>7, <1>8, <1>9 DEF Handed
<1>11. AsksUp(w, v, f)
  BY <1>8, <1>9, <1>10 DEF AsksUp, SaveCall, id, p, n, r, m
<1>. QED
  BY <1>10, <1>11 DEF v

\* The next part of an upload is under way.
LEMMA UploadPartOrder ==
  ASSUME FilesAssumption,
         NEW z, NEW w, NEW l, NEW k, NEW s, NEW b, InOrder(z, w, l, k, s, b),
         NEW f \in w.u.files, Unasked(w, f), s[f] = Upto(w.u.part[f]), w.u.left[f] > 0
  PROVE  InOrder(z, UploadPart(w, f), l, k, s, b) /\ Aside(w, UploadPart(w, f))
<1>1. f \in Uploads /\ w \in Handed /\ f \in Files /\ "main" \in Clients
  BY HandedFields DEF InOrder, Files, Clients
<1>2. Sending(z, w, s, b, f)
  BY <1>1 DEF InOrder
<1>. DEFINE v == UploadPart(w, f)
            id == Fresh(w, f)
            a == SaveCall(w, f)
            p == [id |-> id, file |-> f]
<1>3. v \in Handed /\ AsksUp(w, v, f)
  BY <1>1, UploadPartFact
<1>4. id[1] = f /\ id \in Ids
  BY <1>1, FreshFact DEF Files
<1>. HIDE DEF v
<1>5. /\ v.d.files = w.d.files /\ v.d.cur = w.d.cur
      /\ v.d.packets = [w.d.packets EXCEPT !["main"] = @ \cup {p}]
      /\ v.d.queue = w.d.queue /\ v.d.part = w.d.part /\ v.d.left = w.d.left
      /\ v.u.files = w.u.files /\ v.u.part = [w.u.part EXCEPT ![f] = @ + 1]
      /\ v.u.left = [w.u.left EXCEPT ![f] = IF @ > Part THEN @ - Part ELSE 0]
      /\ v.told = w.told /\ v.calls = w.calls \cup {a}
  BY <1>3 DEF AsksUp
<1>. HIDE DEF id
<1>6. /\ w.d.packets \in [Clients -> SUBSET [id : Ids, file : Files]]
      /\ w.u.part \in [Uploads -> Nat] /\ w.u.left \in [Uploads -> Nat]
  BY <1>1, HandedFields
<1>7. /\ a.id = id /\ a.at = "main" /\ a.kind = "save" /\ a.file = f
      /\ a.part = w.u.part[f] /\ p.id = id /\ p.file = f
      /\ p = [id |-> a.id, file |-> a.file]
  BY DEF SaveCall, id
<1>. HIDE DEF a, p
<1>8. /\ \A d \in Clients : w.d.packets[d] \subseteq v.d.packets[d]
      /\ p \in v.d.packets["main"]
  BY <1>1, <1>5, <1>6
<1>9. Asked(v)
  <2>1. ASSUME NEW m \in v.calls
        PROVE  /\ m.id[1] = m.file
               /\ m.kind = "get" <=> m.file \in Downloads
               /\ m.kind = "save" <=> m.file \in Uploads
               /\ m.file # None => [id |-> m.id, file |-> m.file] \in v.d.packets[m.at]
    <3>1. CASE m = a
      BY <1>1, <1>4, <1>7, <1>8, <3>1 DEF FilesAssumption
    <3>2. CASE m \in w.calls
      <4>1. m.at \in Clients
        BY <1>1, <3>2, HandedFields DEF Call
      <4>. QED
        BY <1>8, <3>2, <4>1 DEF InOrder, Asked
    <3>. QED
      BY <1>5, <3>1, <3>2
  <2>2. ASSUME NEW m \in v.calls, NEW n \in v.calls, m.file = n.file, m.file # None
        PROVE  m = n
    BY <1>5, <1>7, <2>2 DEF Unasked, InOrder, Asked
  <2>3. ASSUME NEW d \in Clients, NEW i \in v.d.packets[d] PROVE i.id[1] = i.file
    BY <1>4, <1>5, <1>6, <1>7, <2>3 DEF InOrder, Asked
  <2>. QED
    BY <2>1, <2>2, <2>3 DEF Asked
<1>10. \A g \in Downloads : SameDown(w, v, g)
  BY <1>1, <1>5, <1>7 DEF SameDown, FilesAssumption
<1>11. \A g \in Uploads \ {f} : SameUp(w, v, g)
  BY <1>5, <1>6, <1>7 DEF SameUp
<1>12. Sending(z, v, s, b, f)
  <2>. DEFINE n == w.u.part[f]
  <2>1. n \in Nat /\ z[f] \in Nat /\ w.u.left[f] \in Nat
    BY <1>1, <1>6 DEF InOrder, World
  <2>. DEFINE e == n + 1
  <2>2. v.u.part[f] = e
    BY <1>1, <1>5, <1>6
  <2>3. v.u.left[f] = IF w.u.left[f] > Part THEN w.u.left[f] - Part ELSE 0
    BY <1>1, <1>5, <1>6
  <2>4. w.u.left[f] = IF z[f] > Part * n THEN z[f] - Part * n ELSE 0
    BY <1>2 DEF Sending
  <2>5. s[f] = Upto(n) /\ a.part = n
    BY <1>7
  <2>6. w.told[f] = <<>> /\ f \in b
    BY <1>2 DEF Sending
  <2>. HIDE DEF n
  <2>7. v.u.left[f] = IF z[f] > Part * e THEN z[f] - Part * e ELSE 0
    BY <2>1, <2>3, <2>4 DEF Part
  <2>8. Part * (e - 1) < z[f]
    BY <2>1, <2>4 DEF Part
  <2>9. a.at = "main" /\ a.part + 1 = e /\ s[f] = Upto(a.part)
    BY <1>7, <2>5
  <2>. HIDE DEF e
  <2>10. f \in v.u.files /\ v.told[f] = <<>>
    BY <1>5, <2>6
  <2>11. \A m \in v.calls : m.file = f => m = a
    BY <1>5 DEF Unasked
  <2>12. \A m \in v.calls : m.file = f => m.at = "main" /\ m.part + 1 = e /\ s[f] = Upto(m.part)
    BY <2>9, <2>11
  <2>. QED
    BY <2>2, <2>6, <2>7, <2>8, <2>10, <2>12, ReportFact DEF Sending
<1>13. World(z, l, k, s, b)
  BY DEF InOrder
<1>14. InOrder(z, v, l, k, s, b)
  BY <1>1, <1>3, <1>9, <1>10, <1>11, <1>12, <1>13, OneUpload
<1>15. Aside(w, v)
  BY <1>5 DEF Aside
<1>. QED
  BY <1>14, <1>15 DEF v

\* uploadNextFilePart()
LEMMA UploadNextOrder ==
  ASSUME FilesAssumption,
         NEW z, NEW w, NEW l, NEW k, NEW s, NEW b, InOrder(z, w, l, k, s, b),
         NEW f \in Uploads, Unasked(w, f),
         f \in w.u.files => s[f] = Upto(w.u.part[f])
  PROVE  InOrder(z, UploadNext(w, f), l, k, s, b) /\ Aside(w, UploadNext(w, f))
<1>1. CASE ~Authorized("main") \/ f \notin w.u.files
  BY <1>1 DEF UploadNext, Aside
<1>2. CASE Authorized("main") /\ f \in w.u.files /\ w.u.left[f] <= 0
  <2>1. UploadNext(w, f) = EndedUpload(w, f, "done")
    BY <1>2 DEF UploadNext
  <2>2. s[f] = Upto(Parts(z[f]))
    <3>. DEFINE n == w.u.part[f]
    <3>1. Sending(z, w, s, b, f)
      BY DEF InOrder
    <3>2. n \in Nat /\ z[f] \in Nat \ {0} /\ w.u.left[f] \in Nat
      BY HandedFields DEF InOrder, World, Files
    <3>3. /\ w.u.left[f] = IF z[f] > Part * n THEN z[f] - Part * n ELSE 0
          /\ n # 0 => Part * (n - 1) < z[f]
      BY <1>2, <3>1 DEF Sending
    <3>4. s[f] = Upto(n)
      BY <1>2
    <3>. HIDE DEF n
    <3>5. z[f] <= 2 * n /\ n # 0 /\ 2 * (n - 1) < z[f]
      BY <1>2, <3>2, <3>3 DEF Part
    <3>6. CASE z[f] = 2 * n
      <4>1. Part * n <= z[f] /\ z[f] <= Part * n
        BY <3>2, <3>6 DEF Part
      <4>. QED
        BY <3>2, <3>4, <4>1, PartsFact
    <3>7. CASE z[f] # 2 * n
      <4>1. n - 1 \in Nat /\ z[f] = Part * (n - 1) + 1
        BY <3>2, <3>5, <3>7 DEF Part
      <4>2. Parts(z[f]) = n - 1 + 1
        BY <3>2, <4>1, PartsFact
      <4>3. n - 1 + 1 = n
        BY <3>2
      <4>. QED
        BY <3>4, <4>2, <4>3
    <3>. QED
      BY <3>6, <3>7
  <2>. QED
    BY <1>2, <2>1, <2>2, EndedUploadOrder
<1>3. CASE Authorized("main") /\ f \in w.u.files /\ ~(w.u.left[f] <= 0)
  <2>1. UploadNext(w, f) = UploadPart(w, f)
    BY <1>3 DEF UploadNext
  <2>2. w.u.left[f] > 0
    <3>1. w.u.left[f] \in Nat
      BY HandedFields DEF InOrder
    <3>. QED
      BY <1>3, <3>1
  <2>. QED
    BY <1>3, <2>1, <2>2, UploadPartOrder
<1>. QED
  BY <1>1, <1>2, <1>3

-----------------------------------------------------------------------------
(***************************************************************************)
(* The actions about uploads.                                              *)
(***************************************************************************)
\* cancelUpload()
LEMMA CancelUploadStep ==
  ASSUME FilesAssumption, FInv, NEW f \in Uploads, CancelUpload(f)
  PROVE  FInv'
<1>. DEFINE v == EndedUpload(Here, f, "cancel")
<1>1. InOrder(size, Here, length, disk, stored, begun) /\ Turned(size, Here, length, link, {})
  BY DEF FInv
<1>2. f \in Here.u.files /\ Become(v)
  BY HereFact DEF CancelUpload
<1>3. InOrder(size, v, length, disk, stored, begun) /\ Aside(Here, v)
  BY <1>1, <1>2, EndedUploadOrder
<1>. HIDE DEF v
<1>4. Turned(size, v, length, link, {})
  BY <1>1, <1>3, AsideTurn
<1>5. alive' \in BOOLEAN /\ disk' = disk
  BY DEF CancelUpload, FInv, Kinds
<1>. QED
  BY <1>2, <1>3, <1>4, <1>5, SettleHere DEF CancelUpload

\* handleUploadingFile() and a refusal
LEMMA UploadingStep ==
  ASSUME FilesAssumption, FInv, NEW m \in calls, NEW response \in BOOLEAN,
         HandleUploadingFile(m, response)
  PROVE  FInv'
<1>. DEFINE t == Taken(m)
            f == m.file
<1>1. /\ FileOf(m) = f /\ m.at \in Clients /\ t \in Handed /\ SameFiles(Here, t)
      /\ f \in Uploads /\ (f # None => Unasked(t, f))
      /\ InOrder(size, t, length, disk, stored, begun) /\ Turned(size, t, length, link, {})
  BY TakenOrder DEF HandleUploadingFile, Replied
<1>2. alive' \in BOOLEAN /\ disk' = disk
  BY DEF HandleUploadingFile, FInv, Kinds
<1>3. f # None /\ f \in Files /\ Unasked(t, f)
  BY <1>1 DEF FilesAssumption, Files
<1>4. t.u = ul /\ t.told = told
  BY <1>1, HereFact DEF SameFiles
<1>5. CASE response
  <2>1. Become(UploadNext(t, f)) /\ stored' = [stored EXCEPT ![f] = Append(@, m.part)]
    BY <1>1, <1>5 DEF HandleUploadingFile
  <2>2. m.part \in Nat
    BY HereFact DEF Call
  <2>3. Append(stored[f], m.part) \in Seq(Nat)
    BY <1>1, <2>2, HereFact
  <2>4. /\ stored' \in [Uploads -> Seq(Nat)] /\ stored'[f] = Append(stored[f], m.part)
        /\ \A g \in Uploads \ {f} : stored'[g] = stored[g]
    BY <1>1, <2>1, <2>3, HereFact
  <2>5. Sending(size, Here, stored, begun, f) /\ m \in Here.calls
    BY <1>1, HereFact DEF FInv, InOrder
  <2>6. Sending(size, t, stored, begun, f)
    BY <1>1 DEF InOrder
  <2>7. f \in begun /\ t.told[f] # <<"done">>
    BY <1>4, <2>5, HereFact DEF Sending, Unasked
  <2>8. Sending(size, t, stored', begun, f)
    BY <1>3, <2>6, <2>7 DEF Sending, Unasked
  <2>9. World(size, length, disk, stored', begun) /\ Asked(t)
    BY <1>1, <2>4 DEF InOrder, World
  <2>10. /\ \A g \in Downloads : SameDown(t, t, g)
         /\ \A g \in Uploads \ {f} : SameUp(t, t, g)
    BY DEF SameDown, SameUp
  <2>11. f \in t.u.files => stored'[f] = Upto(t.u.part[f])
    <3>1. SUFFICES ASSUME f \in ul.files PROVE stored'[f] = Upto(ul.part[f])
      BY <1>4
    <3>2. m.part + 1 = ul.part[f] /\ stored[f] = Upto(m.part)
      BY <2>5, <3>1, HereFact DEF Sending
    <3>. DEFINE p == m.part
    <3>3. p \in Nat /\ stored'[f] = Append(Upto(p), p) /\ ul.part[f] = p + 1
      BY <2>2, <2>4, <3>2
    <3>. HIDE DEF p
    <3>4. Append(Upto(p), p) = Upto(p + 1)
      BY <3>3, UptoFact
    <3>. QED
      BY <3>3, <3>4
  <2>. HIDE DEF t, f
  <2>12. InOrder(size, t, length, disk, stored', begun)
    BY <1>1, <2>4, <2>8, <2>9, <2>10, OneUpload
  <2>. DEFINE v == UploadNext(t, f)
  <2>13. InOrder(size, v, length, disk, stored', begun) /\ Aside(t, v)
    BY <1>1, <1>3, <2>11, <2>12, UploadNextOrder
  <2>. HIDE DEF v
  <2>14. Turned(size, v, length, link, {})
    BY <1>1, <2>13, AsideTurn
  <2>15. /\ link' = link /\ auth' = auth /\ size' = size /\ length' = length /\ begun' = begun
         /\ Become(v)
    BY <2>1 DEF HandleUploadingFile, v
  <2>16. Kinds'
    BY <1>2, <2>15 DEF FInv, Kinds, auth
  <2>17. InOrder(size, v, length', disk', stored', begun') /\ Turned(size, v, length', link', {})
    BY <1>2, <2>13, <2>14, <2>15
  <2>. QED
    BY <2>15, <2>16, <2>17, Settle
<1>6. CASE ~response /\ f \in ul.files
  <2>. DEFINE v == EndedUpload(t, f, "cancel")
  <2>1. Become(v) /\ stored' = stored /\ f \in t.u.files
    BY <1>1, <1>4, <1>6 DEF HandleUploadingFile
  <2>. HIDE DEF t, f
  <2>2. InOrder(size, v, length, disk, stored, begun) /\ Aside(t, v)
    BY <1>1, <2>1, EndedUploadOrder
  <2>. HIDE DEF v
  <2>3. Turned(size, v, length, link, {})
    BY <1>1, <2>2, AsideTurn
  <2>. QED
    BY <1>2, <2>1, <2>2, <2>3, SettleHere DEF HandleUploadingFile
<1>7. CASE ~response /\ f \notin ul.files
  <2>1. Become(t) /\ stored' = stored
    BY <1>1, <1>7 DEF HandleUploadingFile
  <2>. QED
    BY <1>1, <1>2, <2>1, SettleHere DEF HandleUploadingFile
<1>. QED
  BY <1>5, <1>6, <1>7

StartsIt(w, x, f, n) ==
  /\ x.d = w.d /\ x.calls = w.calls /\ x.told = w.told /\ x.u.files = w.u.files \cup {f}
  /\ x.u.part = w.u.part /\ x.u.left = [w.u.left EXCEPT ![f] = n]

\* An upload is begun.
LEMMA StartFact ==
  ASSUME NEW w \in Handed, NEW f \in Uploads, NEW n \in Nat
  PROVE  /\ [w EXCEPT !.u.files = @ \cup {f}, !.u.left[f] = n] \in Handed
         /\ StartsIt(w, [w EXCEPT !.u.files = @ \cup {f}, !.u.left[f] = n], f, n)
<1>. DEFINE r == [w.u.left EXCEPT ![f] = n]
            u == [w.u EXCEPT !.files = @ \cup {f}, !.left = r]
            x == [w EXCEPT !.u.files = @ \cup {f}, !.u.left[f] = n]
<1>1. w.u \in UpState
  BY DEF Handed
<1>2. x = [w EXCEPT !.u = u]
  BY <1>1 DEF Handed, UpState
<1>. HIDE DEF x
<1>3. r \in [Uploads -> Nat]
  BY HandedFields
<1>. HIDE DEF r
<1>4. /\ u \in UpState
      /\ u.files = w.u.files \cup {f} /\ u.part = w.u.part /\ u.left = r
  BY <1>1, <1>3 DEF UpState
<1>. HIDE DEF u
<1>5. x \in Handed /\ x.d = w.d /\ x.u = u /\ x.calls = w.calls /\ x.told = w.told
  BY <1>2, <1>4 DEF Handed
<1>6. StartsIt(w, x, f, n)
  BY <1>4, <1>5 DEF StartsIt, r
<1>. QED
  BY <1>5, <1>6 DEF x

\* uploadFile()
LEMMA UploadFileStep ==
  ASSUME FilesAssumption, FInv, NEW f \in Uploads, UploadFile(f)
  PROVE  FInv'
<1>. DEFINE x == [Here EXCEPT !.u.files = @ \cup {f}, !.u.left[f] = size[f]]
<1>1. /\ Become(UploadNext(x, f)) /\ f \notin begun /\ begun' = begun \cup {f}
      /\ length' = [length EXCEPT ![f] = size[f]]
      /\ link' = link /\ auth' = auth /\ size' = size /\ alive' = alive
      /\ disk' = disk /\ stored' = stored
  BY DEF UploadFile
<1>2. f \in Files /\ size[f] \in Nat \ {0}
  BY HereFact DEF Files
<1>3. x \in Handed /\ StartsIt(Here, x, f, size[f])
  BY <1>2, HereFact, StartFact
<1>. HIDE DEF x
<1>4. /\ x.d = dl /\ x.calls = calls /\ x.told = told /\ x.u.files = ul.files \cup {f}
      /\ x.u.part = ul.part /\ x.u.left = [ul.left EXCEPT ![f] = size[f]]
  BY <1>3, HereFact DEF StartsIt
<1>5. InOrder(size, Here, length, disk, stored, begun) /\ Turned(size, Here, length, link, {})
  BY DEF FInv
<1>6. Sending(size, Here, stored, begun, f)
  BY <1>5 DEF InOrder
<1>7. Unasked(Here, f) /\ told[f] = <<>> /\ stored[f] = <<>> /\ ul.part[f] = 0
  BY <1>1, <1>6, HereFact DEF Sending
<1>8. ul.left \in [Uploads -> Nat]
  BY HereFact, HandedFields
<1>9. /\ length' \in [Files -> Nat]
      /\ \A g \in Downloads : g # f /\ length'[g] = length[g]
  BY <1>1, <1>2, HereFact DEF FilesAssumption, Files
<1>10. World(size, length', disk, stored, begun')
  BY <1>1, <1>2, <1>5, <1>9 DEF InOrder, World
<1>11. Asked(x)
  BY <1>4, HereFact DEF Asked
<1>12. \A g \in Downloads : /\ SameDown(Here, x, g) /\ length'[g] = length[g]
                            /\ (g \in begun' <=> g \in begun)
  BY <1>1, <1>4, <1>9, HereFact DEF SameDown
<1>13. \A g \in Uploads \ {f} : /\ SameUp(Here, x, g) /\ stored[g] = stored[g]
                                 /\ (g \in begun' <=> g \in begun)
  BY <1>1, <1>4, <1>8, HereFact DEF SameUp
<1>14. Sending(size, x, stored, begun', f)
  <2>1. x.u.left[f] = size[f] /\ x.u.part[f] = 0 /\ f \in x.u.files /\ f \in begun'
    BY <1>1, <1>4, <1>7, <1>8
  <2>2. Unasked(x, f)
    BY <1>4, <1>7, HereFact DEF Unasked
  <2>3. size[f] = IF size[f] > Part * 0 THEN size[f] - Part * 0 ELSE 0
    BY <1>2 DEF Part
  <2>. QED
    BY <1>4, <1>7, <2>1, <2>2, <2>3, ReportFact DEF Sending, Unasked
<1>15. InOrder(size, x, length', disk, stored, begun')
  BY <1>3, <1>5, <1>10, <1>11, <1>12, <1>13, <1>14, OneUpload
<1>16. Unasked(x, f) /\ stored[f] = Upto(x.u.part[f])
  BY <1>4, <1>7, HereFact, UptoNone DEF Unasked
<1>. DEFINE v == UploadNext(x, f)
<1>17. InOrder(size, v, length', disk, stored, begun') /\ Aside(x, v) /\ Become(v)
  BY <1>1, <1>15, <1>16, UploadNextOrder
<1>. HIDE DEF v
<1>18. Aside(Here, v)
  BY <1>4, <1>17, HereFact DEF Aside
<1>19. Turned(size, v, length', link, {})
  BY <1>5, <1>9, <1>18, AsideTurn
<1>20. Kinds'
  BY <1>1 DEF FInv, Kinds, auth
<1>21. InOrder(size, v, length', disk', stored', begun') /\ Turned(size, v, length', link', {})
  BY <1>1, <1>17, <1>19
<1>. QED
  BY <1>1, <1>17, <1>20, <1>21, Settle

-----------------------------------------------------------------------------
(***************************************************************************)
(* A request that is sent again.                                           *)
(***************************************************************************)
\* The request m becomes r, and the queue of its download follows.
Renames(w, v, m, r) ==
  /\ v.d.files = w.d.files /\ v.d.cur = w.d.cur /\ v.d.part = w.d.part
  /\ v.d.left = w.d.left /\ v.u = w.u /\ v.told = w.told
  /\ v.calls = (w.calls \ {m}) \cup {r}
  /\ r.at = m.at /\ r.kind = m.kind /\ r.file = m.file /\ r.part = m.part
  /\ \A g \in Downloads : v.d.queue[g] =
       IF g = m.file /\ g \in w.d.files[m.at]
       THEN (w.d.queue[g] \ {m.id}) \cup {r.id} ELSE w.d.queue[g]

\* It is the same request to everyone.
LEMMA RenamedOrder ==
  ASSUME FilesAssumption,
         NEW z, NEW w, NEW l, NEW k, NEW s, NEW b, InOrder(z, w, l, k, s, b),
         NEW m \in w.calls, NEW v \in Handed, Asked(v), NEW r, Renames(w, v, m, r),
         NEW n, Turned(z, w, l, n, {})
  PROVE  InOrder(z, v, l, k, s, b) /\ Turned(z, v, l, n, {})
<1>1. w \in Handed /\ Asked(w) /\ World(z, l, k, s, b)
  BY DEF InOrder
<1>2. m \in Call /\ m.at \in Clients /\ m.file \in Files \cup {None}
  BY <1>1, HandedFields DEF Call
<1>3. m.file # None => \A j \in v.calls : j.file = m.file => j = r
  BY <1>1 DEF Renames, Asked
<1>4. r \in v.calls /\ r.id[1] = m.file
  BY DEF Renames, Asked
<1>5. \A g \in Downloads \ {m.file} : SameDown(w, v, g)
  BY DEF Renames, SameDown
<1>6. \A g \in Uploads \ {m.file} : SameUp(w, v, g)
  BY DEF Renames, SameUp
<1>7. \A g \in Downloads : w.d.queue[g] # {} => v.d.queue[g] # {}
  BY DEF Renames
<1>8. Elsewhere(w, v, l, l, {})
  <2>1. w.d.files \in [Clients -> SUBSET Downloads]
    BY <1>1, HandedFields
  <2>. QED
    BY <1>7, <2>1 DEF Elsewhere, Renames
<1>9. Turned(z, v, l, n, {})
  BY <1>8, TurnedElsewhere
<1>10. CASE m.file = None
  <2>1. /\ \A g \in Downloads : SameDown(w, v, g)
        /\ \A g \in Uploads : SameUp(w, v, g)
    BY <1>5, <1>6, <1>10 DEF FilesAssumption
  <2>. QED
    BY <1>9, <2>1, NoFile
<1>11. CASE m.file \in Downloads
  <2>. DEFINE f == m.file
  <2>1. f # None /\ \A g \in Uploads : SameUp(w, v, g)
    BY <1>6, <1>11 DEF FilesAssumption
  <2>2. Fetched(z, w, l, k, b, f)
    BY <1>11 DEF InOrder
  <2>3. f \in b
    BY <2>2 DEF Fetched, Unasked
  <2>4. \A c \in Clients : f \in v.d.files[c] <=> f \in w.d.files[c]
    BY DEF Renames
  <2>5. Held(v, f) <=> Held(w, f)
    BY <2>4 DEF Held
  <2>6. /\ v.told[f] = w.told[f] /\ v.d.left[f] = w.d.left[f] /\ v.d.part[f] = w.d.part[f]
        /\ ~(f \in v.d.files["main"] /\ f \in v.d.files["child"])
    BY <2>2 DEF Renames, Fetched
  <2>7. CASE f \in w.d.files[m.at]
    <3>1. w.d.queue[f] = {m.id} /\ m.part = Len(k[f])
      BY <1>2, <2>2, <2>7 DEF Fetched
    <3>2. v.d.queue[f] = {r.id}
      BY <1>11, <2>7, <3>1 DEF Renames
    <3>3. r.at = m.at /\ r.part = Len(k[f]) /\ r.id[1] = f
      BY <1>4, <3>1 DEF Renames
    <3>4. \A c \in Clients : f \in v.d.files[c] => c = m.at
      BY <1>2, <2>2, <2>4, <2>7 DEF Fetched, Clients
    <3>5. \A j \in v.calls : j.file = f => j = r
      BY <1>3, <2>1
    <3>. HIDE DEF f
    <3>6. Fetched(z, v, l, k, b, f)
      BY <1>2, <2>2, <2>3, <2>4, <2>5, <2>6, <3>1, <3>2, <3>3, <3>4, <3>5 DEF Fetched
    <3>. QED
      BY <1>1, <1>5, <1>9, <1>11, <2>1, <3>6, OneDownload DEF f
  <2>8. CASE f \notin w.d.files[m.at]
    <3>1. ~Held(w, f)
      BY <1>2, <2>2, <2>8 DEF Fetched, Held
    <3>2. v.d.queue[f] = w.d.queue[f]
      BY <1>11, <2>8 DEF Renames
    <3>3. \A c \in Clients : f \notin v.d.files[c]
      BY <2>5, <3>1 DEF Held
    <3>4. Fetched(z, v, l, k, b, f)
      BY <2>2, <2>3, <2>5, <2>6, <3>2, <3>3 DEF Fetched
    <3>. QED
      BY <1>1, <1>5, <1>9, <1>11, <2>1, <3>4, OneDownload
  <2>. QED
    BY <2>7, <2>8
<1>12. CASE m.file \in Uploads
  <2>. DEFINE f == m.file
  <2>1. f # None /\ \A g \in Downloads : SameDown(w, v, g)
    BY <1>5, <1>12 DEF FilesAssumption
  <2>2. Sending(z, w, s, b, f)
    BY <1>12 DEF InOrder
  <2>3. f \in b /\ w.told[f] # <<"done">>
    BY <2>2 DEF Sending, Unasked
  <2>4. v.u = w.u /\ v.told = w.told /\ r.at = m.at /\ r.part = m.part
    BY DEF Renames
  <2>5. \A j \in v.calls : j.file = f => j = r
    BY <1>3, <2>1
  <2>6. Sending(z, v, s, b, f)
    BY <2>2, <2>3, <2>4, <2>5 DEF Sending
  <2>. HIDE DEF f
  <2>. QED
    BY <1>1, <1>6, <1>9, <1>12, <2>1, <2>6, OneUpload DEF f
<1>. QED
  BY <1>2, <1>10, <1>11, <1>12 DEF Files

\* handleMessageChanged()
LEMMA ResendStep ==
  ASSUME FilesAssumption, FInv, NEW m \in calls, Resend(m)
  PROVE  FInv'
<1>. DEFINE id == Fresh(Here, m.file)
            r == [m EXCEPT !.id = id, !.held = FALSE]
            v == [d |-> dl', u |-> ul, calls |-> calls', told |-> told]
            p == [dl.packets EXCEPT ![m.at] = RenamedIn(@, m, id)]
            q == [g \in Downloads |->
                   IF g = m.file /\ m.file \in dl.files[m.at]
                   THEN (dl.queue[g] \ {m.id}) \cup {id} ELSE dl.queue[g]]
<1>1. InOrder(size, Here, length, disk, stored, begun) /\ Turned(size, Here, length, link, {})
  BY DEF FInv
<1>2. m \in Call /\ m.at \in Clients /\ FileOf(m) = m.file /\ m.file \in Files \cup {None}
  BY HereFact, FileOfFact DEF Call
<1>3. id \in Ids /\ id[1] = m.file
  BY <1>2, FreshFact
<1>4. dl' = [dl EXCEPT !.packets[m.at] = RenamedIn(@, m, id),
                      !.queue = [g \in Downloads |->
                        IF g = m.file /\ m.file \in dl.files[m.at]
                        THEN (@[g] \ {m.id}) \cup {id} ELSE @[g]]]
  BY <1>2 DEF Resend
<1>5. calls' = (calls \ {m}) \cup {r}
  BY DEF Resend
<1>6. dl \in DownState
  BY HereFact DEF Handed
<1>7. dl' = [dl EXCEPT !.packets = p, !.queue = q]
  BY <1>4, <1>6 DEF DownState
<1>. HIDE DEF id
<1>8. /\ r \in Call /\ r.id = id /\ r.at = m.at /\ r.kind = m.kind
      /\ r.file = m.file /\ r.part = m.part
  BY <1>2, <1>3 DEF Call
<1>. HIDE DEF r
<1>9. /\ Here \in Handed /\ Asked(Here) /\ Here.d = dl /\ Here.calls = calls
      /\ Here.u = ul /\ Here.told = told
  BY HereFact
<1>10. \A c \in Clients : \A e \in dl.packets[c] :
         e \in [id : Ids, file : Files] /\ e.id[1] = e.file
  BY <1>6, <1>9 DEF DownState, Asked
<1>11. m.id[1] = m.file /\ (m.file # None => [id |-> m.id, file |-> m.file] \in dl.packets[m.at])
  BY <1>9 DEF Asked
<1>12. \A c \in Clients : \A e \in p[c] :
         e \in [id : Ids, file : Files] /\ e.id[1] = e.file
  <2>1. ASSUME NEW e \in RenamedIn(dl.packets[m.at], m, id)
        PROVE  e \in [id : Ids, file : Files] /\ e.id[1] = e.file
    <3>1. PICK o \in dl.packets[m.at] : e = IF o.id = m.id THEN [o EXCEPT !.id = id] ELSE o
      BY DEF RenamedIn
    <3>2. o \in [id : Ids, file : Files] /\ o.id[1] = o.file
      BY <1>2, <1>10
    <3>. QED
      BY <1>3, <1>11, <3>1, <3>2
  <2>2. dl.packets \in [Clients -> SUBSET [id : Ids, file : Files]]
    BY <1>6 DEF DownState
  <2>. QED
    BY <1>2, <1>10, <2>1, <2>2
<1>13. ASSUME NEW c \in Clients, NEW e \in dl.packets[c], c # m.at \/ e.id # m.id
       PROVE  e \in p[c]
  <2>1. dl.packets \in [Clients -> SUBSET [id : Ids, file : Files]]
    BY <1>6 DEF DownState
  <2>. QED
    BY <1>2, <1>13, <2>1 DEF RenamedIn
<1>14. m.file # None => [id |-> r.id, file |-> r.file] \in p[m.at]
  <2>1. SUFFICES ASSUME m.file # None PROVE [id |-> id, file |-> m.file] \in p[m.at]
    BY <1>8
  <2>2. dl.packets \in [Clients -> SUBSET [id : Ids, file : Files]]
    BY <1>6 DEF DownState
  <2>. DEFINE o == [id |-> m.id, file |-> m.file]
  <2>3. [o EXCEPT !.id = id] = [id |-> id, file |-> m.file] /\ o.id = m.id
    OBVIOUS
  <2>4. o \in dl.packets[m.at]
    BY <1>11, <2>1
  <2>. HIDE DEF o
  <2>5. [id |-> id, file |-> m.file] \in RenamedIn(dl.packets[m.at], m, id)
    BY <2>3, <2>4 DEF RenamedIn
  <2>. QED
    BY <1>2, <2>2, <2>5
<1>15. p \in [Clients -> SUBSET [id : Ids, file : Files]]
  <2>1. p = [c \in Clients |-> p[c]]
    BY <1>6 DEF DownState
  <2>. QED
    BY <1>12, <2>1
<1>16. q \in [Downloads -> SUBSET Ids]
  BY <1>3, HereFact
<1>17. \A g \in Downloads : q[g] =
         IF g = m.file /\ g \in dl.files[m.at]
         THEN (dl.queue[g] \ {m.id}) \cup {r.id} ELSE dl.queue[g]
  BY <1>8
<1>. HIDE DEF p, q
<1>18. /\ dl' \in DownState
       /\ dl'.files = dl.files /\ dl'.cur = dl.cur /\ dl'.packets = p
       /\ dl'.queue = q /\ dl'.part = dl.part /\ dl'.left = dl.left
  BY <1>6, <1>7, <1>15, <1>16 DEF DownState
<1>19. /\ v \in Handed /\ v.d = dl' /\ v.u = ul /\ v.calls = calls' /\ v.told = told
  BY <1>5, <1>8, <1>9, <1>18, HereFact DEF Handed
<1>. HIDE DEF v
<1>20. Renames(Here, v, m, r)
  BY <1>5, <1>8, <1>9, <1>17, <1>18, <1>19 DEF Renames
<1>21. Asked(v)
  <2>1. ASSUME NEW j \in v.calls
        PROVE  /\ j.id[1] = j.file
               /\ j.kind = "get" <=> j.file \in Downloads
               /\ j.kind = "save" <=> j.file \in Uploads
               /\ j.file # None => [id |-> j.id, file |-> j.file] \in v.d.packets[j.at]
    <3>1. CASE j = r
      BY <1>3, <1>8, <1>9, <1>14, <1>18, <1>19, <3>1 DEF Asked
    <3>2. CASE j \in calls /\ j # m
      <4>1. j.at \in Clients
        BY <3>2, HereFact DEF Call
      <4>2. /\ j.id[1] = j.file
            /\ (j.kind = "get" <=> j.file \in Downloads)
            /\ (j.kind = "save" <=> j.file \in Uploads)
            /\ (j.file # None => [id |-> j.id, file |-> j.file] \in dl.packets[j.at])
            /\ (j.file # None => j.id # m.id)
        BY <1>9, <1>11, <3>2 DEF Asked
      <4>. DEFINE o == [id |-> j.id, file |-> j.file]
      <4>3. o.id = j.id
        OBVIOUS
      <4>. HIDE DEF o
      <4>4. j.file # None => o \in p[j.at]
        BY <1>13, <4>1, <4>2, <4>3 DEF o
      <4>. QED
        BY <1>18, <1>19, <4>2, <4>4 DEF o
    <3>. QED
      BY <1>5, <1>19, <3>1, <3>2
  <2>2. ASSUME NEW j \in v.calls, NEW i \in v.calls, j.file = i.file, j.file # None
        PROVE  j = i
    <3>1. /\ j \in calls \/ j = r
          /\ i \in calls \/ i = r
          /\ (j = m => m = r) /\ (i = m => m = r)
      BY <1>5, <1>19
    <3>. QED
      BY <1>8, <1>9, <2>2, <3>1 DEF Asked
  <2>3. ASSUME NEW c \in Clients, NEW e \in v.d.packets[c] PROVE e.id[1] = e.file
    BY <1>12, <1>18, <1>19, <2>3
  <2>. QED
    BY <2>1, <2>2, <2>3 DEF Asked
<1>22. InOrder(size, v, length, disk, stored, begun) /\ Turned(size, v, length, link, {})
  <2>1. m \in Here.calls
    BY <1>9
  <2>. QED
    BY <1>1, <1>19, <1>20, <1>21, <2>1, RenamedOrder
<1>23. /\ link' = link /\ size' = size /\ length' = length /\ begun' = begun
       /\ ul' = ul /\ told' = told /\ disk' = disk /\ stored' = stored
       /\ alive' = alive /\ signed' = signed /\ importing' = importing
  BY DEF Resend, history
<1>24. exports' \subseteq Ids
  BY <1>3 DEF Resend, FInv, Kinds, id
<1>25. Kinds'
  BY <1>23, <1>24 DEF FInv, Kinds
<1>26. Become(v)
  BY <1>19, <1>23 DEF Become
<1>27. InOrder(size, v, length', disk', stored', begun') /\ Turned(size, v, length', link', {})
  BY <1>22, <1>23
<1>. QED
  BY <1>23, <1>25, <1>26, <1>27, Settle

\* FLOOD_WAIT
LEMMA FloodWaitStep ==
  ASSUME FilesAssumption, FInv, NEW m \in calls, FloodWait(m)
  PROVE  FInv'
<1>. DEFINE r == [m EXCEPT !.held = TRUE]
            v == [d |-> dl, u |-> ul, calls |-> calls', told |-> told]
<1>1. InOrder(size, Here, length, disk, stored, begun) /\ Turned(size, Here, length, link, {})
  BY DEF FInv
<1>2. m \in Call /\ m.at \in Clients
  BY HereFact DEF Call
<1>3. calls' = (calls \ {m}) \cup {r}
  BY DEF FloodWait
<1>4. /\ r \in Call /\ r.id = m.id /\ r.at = m.at /\ r.kind = m.kind
      /\ r.file = m.file /\ r.part = m.part
  BY <1>2 DEF Call
<1>. HIDE DEF r
<1>5. /\ Here \in Handed /\ Asked(Here) /\ Here.d = dl /\ Here.calls = calls
      /\ Here.u = ul /\ Here.told = told
  BY HereFact
<1>6. v \in Handed /\ v.d = dl /\ v.u = ul /\ v.calls = calls' /\ v.told = told
  BY <1>3, <1>4, <1>5, HereFact DEF Handed
<1>. HIDE DEF v
<1>7. Asked(v)
  <2>1. ASSUME NEW j \in v.calls
        PROVE  \E i \in calls : /\ j.id = i.id /\ j.at = i.at /\ j.kind = i.kind
                                /\ j.file = i.file /\ (j = i \/ (j = r /\ i = m))
    BY <1>3, <1>4, <1>6
  <2>2. ASSUME NEW j \in v.calls
        PROVE  /\ j.id[1] = j.file
               /\ j.kind = "get" <=> j.file \in Downloads
               /\ j.kind = "save" <=> j.file \in Uploads
               /\ j.file # None => [id |-> j.id, file |-> j.file] \in v.d.packets[j.at]
    BY <1>5, <1>6, <2>1 DEF Asked
  <2>3. ASSUME NEW j \in v.calls, NEW i \in v.calls, j.file = i.file, j.file # None
        PROVE  j = i
    <3>1. /\ j \in calls \/ j = r
          /\ i \in calls \/ i = r
          /\ (j = m => m = r) /\ (i = m => m = r)
      BY <1>3, <1>6
    <3>. QED
      BY <1>4, <1>5, <2>3, <3>1 DEF Asked
  <2>. QED
    BY <1>5, <1>6, <2>2, <2>3 DEF Asked
<1>8. Renames(Here, v, m, r)
  <2>1. ASSUME NEW g \in Downloads, g = m.file, g \in dl.files[m.at]
        PROVE  (dl.queue[g] \ {m.id}) \cup {m.id} = dl.queue[g]
    <3>1. dl.queue[g] = {m.id}
      BY <2>1, PartFact
    <3>. QED
      BY <3>1
  <2>. QED
    BY <1>3, <1>4, <1>5, <1>6, <2>1 DEF Renames
<1>9. InOrder(size, v, length, disk, stored, begun) /\ Turned(size, v, length, link, {})
  <2>1. m \in Here.calls
    BY <1>5
  <2>. QED
    BY <1>1, <1>6, <1>7, <1>8, <2>1, RenamedOrder
<1>10. /\ dl' = dl /\ ul' = ul /\ told' = told /\ alive' \in BOOLEAN
       /\ disk' = disk /\ stored' = stored
  BY DEF FloodWait, history, FInv, Kinds
<1>11. Become(v)
  BY <1>6, <1>10 DEF Become
<1>. QED
  BY <1>9, <1>10, <1>11, SettleHere DEF FloodWait

-----------------------------------------------------------------------------
(***************************************************************************)
(* Connections and the authorization of the other client.                  *)
(***************************************************************************)
\* Links that are lost or made leave the turns as they were.
LEMMA LinkTurn ==
  ASSUME NEW z, NEW w, NEW l, NEW n, Turned(z, w, l, n, {}),
         NEW n2, \A c \in Clients : n2[c] = "auth" => n[c] = "auth"
  PROVE  Turned(z, w, l, n2, {})
BY DEF Turned

\* A connection is lost.
LEMMA DisconnectedStep ==
  ASSUME FilesAssumption, FInv, NEW c \in Clients, Disconnected(c)
  PROVE  FInv'
<1>. DEFINE v == [d |-> dl, u |-> ul, calls |-> calls', told |-> told]
<1>1. InOrder(size, Here, length, disk, stored, begun) /\ Turned(size, Here, length, link, {})
  BY DEF FInv
<1>2. /\ Here \in Handed /\ Asked(Here) /\ Here.d = dl /\ Here.calls = calls
      /\ Here.u = ul /\ Here.told = told
  BY HereFact
<1>3. calls' \subseteq calls
  BY DEF Disconnected
<1>4. v \in Handed /\ v.d = dl /\ v.u = ul /\ v.calls = calls' /\ v.told = told
  BY <1>2, <1>3, HereFact DEF Handed
<1>. HIDE DEF v
<1>5. SameFiles(Here, v) /\ \A m \in v.calls : m.file \in Files => m \in Here.calls
  BY <1>2, <1>3, <1>4 DEF SameFiles
<1>6. Asked(v)
  BY <1>2, <1>3, <1>4 DEF Asked
<1>7. InOrder(size, v, length, disk, stored, begun) /\ Turned(size, v, length, link, {})
  BY <1>1, <1>4, <1>5, <1>6, FewerOrder
<1>8. /\ link' = [link EXCEPT ![c] = "down"] /\ auth' = auth /\ alive' = alive
      /\ dl' = dl /\ ul' = ul /\ told' = told /\ size' = size /\ length' = length
      /\ begun' = begun /\ disk' = disk /\ stored' = stored
  BY DEF Disconnected, history
<1>9. \A d \in Clients : link'[d] = "auth" => link[d] = "auth"
  BY <1>8 DEF FInv, Kinds
<1>10. Turned(size, v, length, link', {})
  BY <1>7, <1>9, LinkTurn
<1>11. Kinds'
  BY <1>8 DEF FInv, Kinds, auth
<1>12. Become(v)
  BY <1>4, <1>8 DEF Become
<1>13. InOrder(size, v, length', disk', stored', begun') /\ Turned(size, v, length', link', {})
  BY <1>7, <1>8, <1>10
<1>. QED
  BY <1>8, <1>11, <1>12, <1>13, Settle

\* handleInitialized() of the main client
LEMMA MainInitializedStep ==
  ASSUME FilesAssumption, FInv, MainInitialized
  PROVE  FInv'
<1>1. InOrder(size, Here, length, disk, stored, begun) /\ Turned(size, Here, length, link, {})
  BY DEF FInv
<1>2. /\ link' = [link EXCEPT !["main"] = "up"] /\ auth' = auth /\ alive' = alive
      /\ calls' = calls /\ dl' = dl /\ ul' = ul /\ told' = told
      /\ size' = size /\ length' = length
      /\ begun' = begun /\ disk' = disk /\ stored' = stored
  BY DEF MainInitialized, history
<1>3. \A d \in Clients : link'[d] = "auth" => link[d] = "auth"
  BY <1>2 DEF FInv, Kinds, Clients
<1>4. Turned(size, Here, length, link', {})
  BY <1>1, <1>3, LinkTurn
<1>5. Kinds'
  BY <1>2 DEF FInv, Kinds, auth, Clients
<1>6. Become(Here)
  BY <1>2, HereFact DEF Become
<1>7. InOrder(size, Here, length', disk', stored', begun') /\ Turned(size, Here, length', link', {})
  BY <1>1, <1>2, <1>4
<1>. QED
  BY <1>2, <1>5, <1>6, <1>7, Settle

\* What handleAuthorized() of a client goes on with.
LEMMA AuthorizedOrder ==
  ASSUME FilesAssumption, FInv, NEW c \in Clients, link' = [link EXCEPT ![c] = "auth"],
         NEW w, InOrder(size, w, length, disk, stored, begun),
         Turned(size, w, length, link, {}), NEW v \in Resume(w, c)
  PROVE  InOrder(size, v, length, disk, stored, begun) /\ Turned(size, v, length, link', {})
<1>1. \A d \in Clients \ {c} : link'[d] = "auth" => link[d] = "auth"
  BY DEF FInv, Kinds
<1>2. \A f \in Downloads : length[f] \in {0, length[f]}
  OBVIOUS
<1>3. Settled(size, w, length, c) /\ Turned(size, w, length, link', {c})
  BY <1>1 DEF Turned
<1>. QED
  BY <1>2, <1>3, ResumeOrder

\* handleAuthorized() of the main client
LEMMA MainAuthorizedStep ==
  ASSUME FilesAssumption, FInv, MainAuthorized
  PROVE  FInv'
<1>1. InOrder(size, Here, length, disk, stored, begun) /\ Turned(size, Here, length, link, {})
  BY DEF FInv
<1>2. PICK w \in Resume(Here, "main") : Become(w)
  BY DEF MainAuthorized
<1>3. /\ link' = [link EXCEPT !["main"] = "auth"] /\ auth' = auth /\ alive' = alive
      /\ size' = size /\ length' = length
      /\ begun' = begun /\ disk' = disk /\ stored' = stored
  BY DEF MainAuthorized
<1>4. InOrder(size, w, length, disk, stored, begun) /\ Turned(size, w, length, link', {})
  <2>1. "main" \in Clients
    BY DEF Clients
  <2>. QED
    BY <1>1, <1>2, <1>3, <2>1, AuthorizedOrder
<1>5. Kinds'
  BY <1>3 DEF FInv, Kinds, auth, Clients
<1>6. InOrder(size, w, length', disk', stored', begun') /\ Turned(size, w, length', link', {})
  BY <1>3, <1>4
<1>. QED
  BY <1>2, <1>3, <1>5, <1>6, Settle

AsksOf(w, c, kind) == [w EXCEPT !.calls = Sent(w, Fresh(w, None), c, kind, 0)]

\* A request about no file.
LEMMA AuthCallOrder ==
  ASSUME FilesAssumption,
         NEW z, NEW w, NEW l, NEW k, NEW s, NEW b, InOrder(z, w, l, k, s, b),
         NEW c \in Clients, NEW kind \in {"export", "import"},
         NEW n, Turned(z, w, l, n, {})
  PROVE  InOrder(z, AsksOf(w, c, kind), l, k, s, b) /\ Turned(z, AsksOf(w, c, kind), l, n, {})
<1>. DEFINE id == Fresh(w, None)
            a == [id |-> id, at |-> c, kind |-> kind, file |-> id[1], part |-> 0, held |-> FALSE]
            v == AsksOf(w, c, kind)
<1>1. w \in Handed /\ Asked(w)
  BY DEF InOrder
<1>2. id \in Ids /\ id[1] = None
  BY FreshFact
<1>3. v = [w EXCEPT !.calls = w.calls \cup {a}]
  BY DEF Sent, AsksOf
<1>. HIDE DEF v, id
<1>4. /\ a \in Call /\ a.id = id /\ a.file = None /\ a.kind = kind
  BY <1>2 DEF Call
<1>. HIDE DEF a
<1>5. /\ v \in Handed /\ v.d = w.d /\ v.u = w.u /\ v.told = w.told
      /\ v.calls = w.calls \cup {a}
  BY <1>1, <1>3, <1>4 DEF Handed
<1>6. None \notin Downloads /\ None \notin Uploads
  BY DEF FilesAssumption
<1>7. Asked(v)
  BY <1>1, <1>2, <1>4, <1>5, <1>6 DEF Asked
<1>8. SameFiles(w, v) /\ \A m \in v.calls : m.file \in Files => m \in w.calls
  BY <1>4, <1>5, <1>6 DEF SameFiles, Files
<1>. QED
  BY <1>5, <1>7, <1>8, FewerOrder DEF v

\* The import that is asked of the other client.
LEMMA ImportOrder ==
  ASSUME FilesAssumption, NEW w, InOrder(size, w, length, disk, stored, begun),
         Turned(size, w, length, link, {})
  PROVE  /\ InOrder(size, Import(w), length, disk, stored, begun)
         /\ Turned(size, Import(w), length, link, {})
<1>1. Import(w) = AsksOf(w, "child", "import") /\ "child" \in Clients
  BY DEF Import, AsksOf, Clients
<1>. QED
  BY <1>1, AuthCallOrder

\* handleInitialized() of the other client
LEMMA ChildInitializedStep ==
  ASSUME FilesAssumption, FInv, ChildInitialized
  PROVE  FInv'
<1>. DEFINE w == IF importing THEN Import(Here) ELSE Here
<1>1. InOrder(size, w, length, disk, stored, begun) /\ Turned(size, w, length, link, {})
  BY ImportOrder DEF FInv
<1>2. /\ importing' = FALSE /\ signed' = signed /\ alive' = alive
      /\ size' = size /\ length' = length
      /\ begun' = begun /\ disk' = disk /\ stored' = stored
  BY DEF ChildInitialized
<1>3. CASE signed
  <2>1. /\ link' = [link EXCEPT !["child"] = "auth"] /\ exports' = exports
        /\ \E v \in Resume(w, "child") : Become(v)
    BY <1>3 DEF ChildInitialized
  <2>2. PICK v \in Resume(w, "child") : Become(v)
    BY <2>1
  <2>. HIDE DEF w
  <2>3. InOrder(size, v, length, disk, stored, begun) /\ Turned(size, v, length, link', {})
    <3>1. "child" \in Clients
      BY DEF Clients
    <3>. QED
      BY <1>1, <2>1, <2>2, <3>1, AuthorizedOrder
  <2>4. Kinds'
    BY <1>2, <2>1 DEF FInv, Kinds, Clients
  <2>5. InOrder(size, v, length', disk', stored', begun') /\ Turned(size, v, length', link', {})
    BY <1>2, <2>3
  <2>. QED
    BY <1>2, <2>2, <2>4, <2>5, Settle
<1>4. CASE ~signed
  <2>1. /\ link' = [link EXCEPT !["child"] = "up"]
        /\ exports' = exports \cup {Fresh(w, None)} /\ Become(Export(w))
    BY <1>4 DEF ChildInitialized
  <2>. HIDE DEF w
  <2>2. InOrder(size, Export(w), length, disk, stored, begun) /\ Turned(size, Export(w), length, link, {})
    <3>1. CASE Connected("main")
      <4>1. Export(w) = AsksOf(w, "main", "export") /\ "main" \in Clients
        BY <3>1 DEF Export, AsksOf, Clients
      <4>. QED
        BY <1>1, <4>1, AuthCallOrder
    <3>2. CASE ~Connected("main")
      BY <1>1, <3>2 DEF Export
    <3>. QED
      BY <3>1, <3>2
  <2>3. \A d \in Clients : link'[d] = "auth" => link[d] = "auth"
    BY <2>1 DEF FInv, Kinds, Clients
  <2>4. Turned(size, Export(w), length, link', {})
    BY <2>2, <2>3, LinkTurn
  <2>5. Fresh(w, None) \in Ids
    BY FreshFact
  <2>6. Kinds'
    BY <1>2, <2>1, <2>5 DEF FInv, Kinds, Clients
  <2>7. /\ InOrder(size, Export(w), length', disk', stored', begun')
        /\ Turned(size, Export(w), length', link', {})
    BY <1>2, <2>2, <2>4
  <2>. QED
    BY <1>2, <2>1, <2>6, <2>7, Settle
<1>. QED
  BY <1>3, <1>4

\* The authorization arrives at the main client.
LEMMA ExportedStep ==
  ASSUME FilesAssumption, FInv, NEW m \in calls, HandleExported(m)
  PROVE  FInv'
<1>. DEFINE t == Without(m)
<1>1. InOrder(size, t, length, disk, stored, begun) /\ Turned(size, t, length, link, {})
  BY TakenOrder
<1>. HIDE DEF t
<1>2. /\ exports' = exports \ {m.id} /\ link' = link /\ signed' = signed /\ alive' = alive
      /\ size' = size /\ length' = length
      /\ begun' = begun /\ disk' = disk /\ stored' = stored
  BY DEF HandleExported
<1>3. PICK v \in {t, Import(t)} : Become(v) /\ importing' \in BOOLEAN
  BY DEF HandleExported, FInv, Kinds, t
<1>4. InOrder(size, v, length, disk, stored, begun) /\ Turned(size, v, length, link, {})
  BY <1>1, <1>3, ImportOrder
<1>5. Kinds'
  BY <1>2, <1>3 DEF FInv, Kinds
<1>6. InOrder(size, v, length', disk', stored', begun') /\ Turned(size, v, length', link', {})
  BY <1>2, <1>4
<1>. QED
  BY <1>2, <1>3, <1>5, <1>6, Settle

\* The other client is authorized.
LEMMA ImportedStep ==
  ASSUME FilesAssumption, FInv, NEW m \in calls, HandleImported(m)
  PROVE  FInv'
<1>1. /\ InOrder(size, Without(m), length, disk, stored, begun)
      /\ Turned(size, Without(m), length, link, {})
  BY TakenOrder
<1>2. PICK v \in Resume(Without(m), "child") : Become(v)
  BY DEF HandleImported
<1>3. /\ link' = [link EXCEPT !["child"] = "auth"] /\ signed' = TRUE /\ alive' = alive
      /\ importing' = importing /\ exports' = exports /\ size' = size /\ length' = length
      /\ begun' = begun /\ disk' = disk /\ stored' = stored
  BY DEF HandleImported
<1>4. InOrder(size, v, length, disk, stored, begun) /\ Turned(size, v, length, link', {})
  <2>1. "child" \in Clients
    BY DEF Clients
  <2>. QED
    BY <1>1, <1>2, <1>3, <2>1, AuthorizedOrder
<1>5. Kinds'
  BY <1>3 DEF FInv, Kinds, Clients
<1>6. InOrder(size, v, length', disk', stored', begun') /\ Turned(size, v, length', link', {})
  BY <1>3, <1>4
<1>. QED
  BY <1>2, <1>3, <1>5, <1>6, Settle

-----------------------------------------------------------------------------
(***************************************************************************)
(* The invariant holds, and what follows from it.                          *)
(***************************************************************************)
\* Before anything is transferred.
LEMMA InitFInv ==
  ASSUME FilesAssumption, Init
  PROVE  FInv
<1>1. /\ link = [main |-> "auth", child |-> "none"] /\ signed = FALSE /\ importing = FALSE
      /\ exports = {} /\ calls = {} /\ length = [f \in Files |-> 0] /\ dl = NoDownloads
      /\ ul = [files |-> {}, part |-> [f \in Uploads |-> 0], left |-> [f \in Uploads |-> 0]]
      /\ alive = TRUE /\ begun = {} /\ told = [f \in Files |-> <<>>]
      /\ disk = [f \in Downloads |-> <<>>] /\ stored = [f \in Uploads |-> <<>>]
  BY DEF Init
<1>2. size \in [Files -> Nat \ {0}]
  BY DEF Init, FilesAssumption
<1>3. World(size, length, disk, stored, begun)
  BY <1>1, <1>2, UptoNone DEF World
<1>4. /\ dl \in DownState
      /\ dl.files = [c \in Clients |-> {}] /\ dl.cur = [c \in Clients |-> None]
      /\ dl.packets = [c \in Clients |-> {}] /\ dl.queue = [f \in Downloads |-> {}]
  BY <1>1 DEF NoDownloads, DownState
<1>5. /\ ul \in UpState /\ ul.files = {} /\ ul.part = [f \in Uploads |-> 0]
  BY <1>1 DEF UpState
<1>6. <<>> \in Seq({"done", "cancel"})
  OBVIOUS
<1>7. Here.d = dl /\ Here.u = ul /\ Here.calls = calls /\ Here.told = told /\ Here \in Handed
  BY <1>1, <1>4, <1>5, <1>6 DEF Here, Handed
<1>8. Asked(Here)
  BY <1>1, <1>4, <1>7 DEF Asked
<1>9. ASSUME NEW f \in Downloads PROVE Fetched(size, Here, length, disk, begun, f)
  <2>1. f \in Files /\ ~Held(Here, f) /\ Unasked(Here, f) /\ Here.told[f] = <<>>
    BY <1>1, <1>4, <1>7 DEF Held, Unasked, Files
  <2>2. disk[f] = Upto(0) /\ Len(disk[f]) = 0 /\ length[f] = 0
    BY <1>1, <2>1, UptoNone
  <2>3. Here.d.queue[f] = {} /\ \A c \in Clients : f \notin Here.d.files[c]
    BY <1>4, <1>7
  <2>. QED
    BY <1>1, <2>1, <2>2, <2>3, ReportFact DEF Fetched, Clients
<1>10. ASSUME NEW f \in Uploads PROVE Sending(size, Here, stored, begun, f)
  BY <1>1, <1>5, <1>7, ReportFact DEF Sending, Unasked, Files
<1>11. InOrder(size, Here, length, disk, stored, begun)
  BY <1>3, <1>7, <1>8, <1>9, <1>10 DEF InOrder
<1>12. Turned(size, Here, length, link, {})
  BY <1>4, <1>7 DEF Turned, Settled, Busy
<1>13. link \in [Clients -> {"none", "down", "up", "auth"}]
  <2>1. DOMAIN link = Clients
    BY <1>1 DEF Clients
  <2>2. link = [c \in DOMAIN link |-> link[c]]
    BY <1>1
  <2>3. \A c \in Clients : link[c] \in {"none", "down", "up", "auth"}
    BY <1>1 DEF Clients
  <2>. QED
    BY <2>1, <2>2, <2>3
<1>14. Kinds
  BY <1>1, <1>13 DEF Kinds
<1>. QED
  BY <1>11, <1>12, <1>14 DEF FInv

\* No action breaks it.
LEMMA NextFInv ==
  ASSUME FilesAssumption, FInv, Next
  PROVE  FInv'
<1>1. CASE System
  <2>1. CASE Reply
    <3>1. PICK m \in calls :
            \/ HandleDownloadingFile(m) \/ FileProbablyDownloaded(m) \/ MigrateFileTo(m)
            \/ HandleUploadingFile(m, TRUE) \/ HandleExported(m) \/ HandleImported(m)
      BY <2>1 DEF Reply
    <3>. QED
      BY <3>1, DownloadingStep, ProbablyDownloadedStep, MigrateStep, UploadingStep,
         ExportedStep, ImportedStep
  <2>2. CASE \E m \in calls : m.held /\ Resend(m)
    BY <2>2, ResendStep
  <2>3. CASE MainInitialized \/ MainAuthorized \/ ChildInitialized
    BY <2>3, MainInitializedStep, MainAuthorizedStep, ChildInitializedStep
  <2>. QED
    BY <1>1, <2>1, <2>2, <2>3 DEF System
<1>2. CASE User
  <2>1. CASE \E f \in Downloads : CancelDownload(f) \/ \E c \in Clients : Download(f, c)
    BY <2>1, CancelDownloadStep, DownloadStep
  <2>2. CASE \E f \in Uploads : UploadFile(f) \/ CancelUpload(f)
    BY <2>2, UploadFileStep, CancelUploadStep
  <2>. QED
    BY <1>2, <2>1, <2>2 DEF User
<1>3. CASE Faults
  <2>1. CASE \E c \in Clients : Disconnected(c)
    BY <2>1, DisconnectedStep
  <2>2. CASE \E m \in calls : \/ ~m.held /\ Resend(m)
                              \/ FloodWait(m) \/ FileIdInvalid(m) \/ Refused(m)
                              \/ HandleUploadingFile(m, FALSE)
    BY <2>2, ResendStep, FloodWaitStep, FileIdInvalidStep, RefusedStep, UploadingStep
  <2>. QED
    BY <1>3, <2>1, <2>2 DEF Faults
<1>. QED
  BY <1>1, <1>2, <1>3 DEF Next

(***************************************************************************)
(* Transfers are in order in every reachable state: the inductive          *)
(* invariant the theorems below rest on.                                   *)
(***************************************************************************)
THEOREM TransfersInductive == Spec => []FInv
<1>1. Init => FInv
  BY FilesAssumption, InitFInv
<1>2. FInv /\ [Next]_vars => FInv'
  <2>1. ASSUME FInv, Next PROVE FInv'
    BY <2>1, FilesAssumption, NextFInv
  <2>2. ASSUME FInv, UNCHANGED vars PROVE FInv'
    <3>1. /\ link' = link /\ signed' = signed /\ importing' = importing /\ exports' = exports
          /\ calls' = calls /\ size' = size /\ length' = length /\ dl' = dl /\ ul' = ul
          /\ alive' = alive /\ begun' = begun /\ told' = told /\ disk' = disk
          /\ stored' = stored
      BY <2>2 DEF vars, auth, history
    <3>2. Here' = Here
      BY <3>1 DEF Here
    <3>. QED
      BY <2>2, <3>1, <3>2 DEF FInv, Kinds
  <2>. QED
    BY <2>1, <2>2
<1>. QED
  BY <1>1, <1>2, PTL DEF Spec

(***************************************************************************)
(* The file on disk is a beginning of the real one, and all of it when     *)
(* "done" is emitted about it, for any sizes, migrations and cancels.      *)
(***************************************************************************)
THEOREM DiskIsPrefixHolds == Spec => []DiskIsPrefix
<1>1. FInv => DiskIsPrefix
  BY HereFact DEF FInv, InOrder, Fetched, DiskIsPrefix
<1>. QED
  BY <1>1, TransfersInductive, PTL

(***************************************************************************)
(* The server holds every part of an upload when uploadNextFilePart()      *)
(* reports it done.                                                        *)
(***************************************************************************)
THEOREM UploadIsWholeHolds == Spec => []UploadIsWhole
<1>1. FInv => UploadIsWhole
  BY HereFact DEF FInv, InOrder, Sending, UploadIsWhole
<1>. QED
  BY <1>1, TransfersInductive, PTL

(***************************************************************************)
(* A file that was begun is with one client or was reported once; and      *)
(* every variable keeps its type.                                          *)
(***************************************************************************)
THEOREM ToldOnceHolds == Spec => []ToldOnce
<1>1. ASSUME FInv PROVE ToldOnce
  <2>1. Here \in Handed /\ World(size, length, disk, stored, begun) /\ Kinds
    BY <1>1 DEF FInv, InOrder
  <2>2. /\ Here.d = dl /\ Here.u = ul /\ Here.calls = calls /\ Here.told = told
        /\ dl.files \in [Clients -> SUBSET Downloads]
    BY <1>1, HereFact
  <2>3. dl \in DownState /\ ul \in UpState /\ calls \in SUBSET Call
        /\ told \in [Files -> Seq({"done", "cancel"})]
    BY <2>1, <2>2 DEF Handed
  <2>4. FilesTypeOK
    BY <2>1, <2>3 DEF FilesTypeOK, Kinds, World, DownState, UpState
  <2>5. \A f \in Downloads : Fetched(size, Here, length, disk, begun, f)
    BY <1>1 DEF FInv, InOrder
  <2>6. \A f \in Uploads : Sending(size, Here, stored, begun, f)
    BY <1>1 DEF FInv, InOrder
  <2>7. dl.files["main"] \subseteq Downloads /\ dl.files["child"] \subseteq Downloads
        /\ ul.files \subseteq Uploads
    BY <2>2, <2>3 DEF Clients, UpState
  <2>8. dl.files["main"] \cap dl.files["child"] = {}
    BY <2>2, <2>5, <2>7 DEF Fetched
  <2>9. Downloads \cap Uploads = {} /\ begun \subseteq Downloads \cup Uploads
    BY <2>1, FilesAssumption DEF World, Files
  <2>10. \A q : (q = <<>> => Len(q) = 0) /\ (q \in Reported => Len(q) = 1)
    BY DEF Reported
  <2>11. ASSUME NEW f \in begun
         PROVE  Len(told[f]) = IF f \in Waiting \cup ul.files THEN 0 ELSE 1
    <3>1. CASE f \in Downloads
      <4>1. Held(Here, f) <=> f \in Waiting \cup ul.files
        BY <2>2, <2>7, <2>9, <3>1 DEF Held, Waiting, Clients
      <4>2. Fetched(size, Here, length, disk, begun, f)
        BY <2>5, <3>1
      <4>3. (Held(Here, f) => told[f] = <<>>) /\ (~Held(Here, f) => told[f] \in Reported)
        BY <2>2, <4>2 DEF Fetched, Held
      <4>. QED
        BY <2>10, <4>1, <4>3
    <3>2. CASE f \in Uploads
      <4>1. f \in ul.files <=> f \in Waiting \cup ul.files
        BY <2>7, <2>9, <3>2 DEF Waiting
      <4>2. Sending(size, Here, stored, begun, f)
        BY <2>6, <3>2
      <4>3. (f \in ul.files => told[f] = <<>>) /\ (f \notin ul.files => told[f] \in Reported)
        BY <2>2, <4>2 DEF Sending
      <4>. QED
        BY <2>10, <4>1, <4>3
    <3>. QED
      BY <2>9, <3>1, <3>2
  <2>. QED
    BY <2>4, <2>8, <2>11 DEF ToldOnce
<1>2. FInv => ToldOnce
  BY <1>1
<1>. QED
  BY <1>2, TransfersInductive, PTL

(***************************************************************************)
(* Downloads of an authorized client stand still only for an answer that   *)
(* was lost or after a file that a full part completed.                    *)
(***************************************************************************)
THEOREM NeverIdleHolds == Spec => []NeverIdle
<1>1. ASSUME FInv PROVE NeverIdle
  <2>. SUFFICES ASSUME NEW c \in Clients, Authorized(c), dl.files[c] # {}, ~Deaf(c),
                       ~Dangling(c)
                PROVE  \E m \in calls : m.at = c /\ m.kind = "get" /\ m.file \in dl.files[c]
    BY DEF NeverIdle
  <2>. DEFINE f == dl.cur[c]
  <2>1. Here.d = dl /\ Here.calls = calls /\ Here.told = told /\ Asked(Here)
        /\ dl.files \in [Clients -> SUBSET Downloads] /\ dl.queue \in [Downloads -> SUBSET Ids]
    BY <1>1, HereFact
  <2>2. Settled(size, Here, length, c) /\ Busy(Here, c)
    BY <1>1 DEF FInv, Turned, Authorized
  <2>3. f # None /\ (f \in dl.files[c] => dl.queue[f] # {})
    BY <2>1, <2>2 DEF Busy
  <2>4. f \in dl.files[c]
    BY <2>1, <2>2, <2>3 DEF Settled, Dangling
  <2>5. PICK m \in calls : m.id \in dl.queue[f]
    BY <2>3, <2>4 DEF Deaf
  <2>6. f \in Downloads
    BY <2>1, <2>4
  <2>7. Fetched(size, Here, length, disk, begun, f)
    BY <1>1, <2>6 DEF FInv, InOrder
  <2>8. m.id[1] = f /\ m.id[1] = m.file /\ (m.kind = "get" <=> m.file \in Downloads)
    BY <2>1, <2>5, <2>7 DEF Fetched, Asked
  <2>9. m.file = f /\ m.kind = "get"
    BY <2>6, <2>8
  <2>10. m.at = c
    BY <2>1, <2>4, <2>7, <2>9 DEF Fetched
  <2>. QED
    BY <2>4, <2>9, <2>10
<1>2. FInv => NeverIdle
  BY <1>1
<1>. QED
  BY <1>2, TransfersInductive, PTL
=============================================================================
