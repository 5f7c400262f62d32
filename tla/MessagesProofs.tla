--------------------------- MODULE MessagesProofs ---------------------------
(***************************************************************************)
(* The open chat shows an unbroken run of its own messages, and marks as   *)
(* read what it showed, for any set of chats, pages of any size above one  *)
(* and any number of messages, updates, openings, jumps, skipped and       *)
(* repeated updates, lost connections and renamed requests.                *)
(*                                                                         *)
(* That nothing is missing between two rows does not keep itself: the next *)
(* page joins them only if it was asked for at their end, and the next     *)
(* update only if the last page is there.  The invariant says so of every  *)
(* request, answer and update under way (Asked, Told, QueueOK: what is     *)
(* still to be handed over is all from some message on), and of the rows   *)
(* that up to the mark and from it on nothing is missing (Joined).  What   *)
(* the sequence jumped over or left out before the last page is in that    *)
(* page; what it jumped over or left out afterwards has to be excused.     *)
(***************************************************************************)
EXTENDS Messages, FiniteSetTheorems, WellFoundedInduction, TLAPS

-----------------------------------------------------------------------------
(***************************************************************************)
(* The invariant.                                                          *)
(***************************************************************************)
\* Types without bounds.
RowType == [chat : Chats, id : Nat]
UpdateType == [kind : {"new", "delete"} \cup Sends, id : Nat]
RequestType == [id : Nat \ {0}, way : Ways, chat : Chats, offset : Int]
AnswerType == [id : Nat \ {0}, chat : Chats, ids : SUBSET Nat]
AmissType == [overtaken : SUBSET Nat, struck : SUBSET Nat, strays : SUBSET Nat,
              late : SUBSET Nat, unclaimed : SUBSET Nat, skipped : SUBSET Nat,
              jumped : SUBSET Nat, severed : BOOLEAN]

\* The counters: a message is an event, and so is the sending of one.
ServerOK ==
  /\ log \in [Chats -> Nat] /\ gone \in [Chats -> SUBSET Nat] /\ unsent \in [Sends -> Nat]
  /\ events \in 0 .. MaxEvents
  /\ \A c \in Chats : First <= log[c] /\ log[c] <= First + events /\ gone[c] \subseteq 1 .. log[c]
  /\ log["user"] + unsent["sent"] + unsent["unclaimed"] <= First + events

\* Requests and answers.
WireOK ==
  /\ requests \in SUBSET RequestType /\ IsFiniteSet(requests)
  /\ answers \in SUBSET AnswerType /\ IsFiniteSet(answers)

\* MessagesModel: rows are of messages there are; without a chat there is nothing.
ChatOK ==
  /\ peer \in Chats \cup {None} /\ mark \in Nat
  /\ rows \in Seq(RowType) /\ \A x \in Range(rows) : x.id \in 1 .. log[x.chat]
  /\ offset \in [Ways -> Int] /\ pending \in [Ways -> Nat]
  /\ readUpTo \in 0 .. First + MaxEvents
  /\ userId \in BOOLEAN /\ link \in BOOLEAN /\ amiss \in AmissType
  /\ peer = None => mark = 0 /\ rows = <<>> /\ pending = Neither /\ offset = Neither

\* The updates q of a sequence: of messages up to n, in order, or gone.
InOrder(q, n, g) ==
  \A k \in DOMAIN q :
    /\ q[k].id \in 1 .. n
    /\ q[k].kind = "delete" => q[k].id \in g
    /\ \A j \in 1 .. k - 1 :
         q[j].kind # "delete" /\ q[k].kind # "delete" => q[j].id < q[k].id

\* After the first message that is still to come, all are.
Unbroken(q, n) == \A i \in Announces(q) : \A j \in i .. n : j \in Announces(q)

\* Acknowledgements are of the private chat.
OfSequence(c, q) == \A k \in DOMAIN q : q[k].kind \in Sends => c = "user"

\* What the queue q of chat c is like.
Fits(c, q, n, g) == InOrder(q, n, g) /\ Unbroken(q, n) /\ OfSequence(c, q)

QueueOK ==
  /\ queue \in [Chats -> Seq(UpdateType)]
  /\ \A c \in Chats : Fits(c, queue[c], log[c], gone[c])

\* Nobody has an id of another.
OneEach ==
  /\ \A r, s \in requests : r.id = s.id => r = s
  /\ \A a, b \in answers : a.id = b.id => a = b
  /\ \A r \in requests, a \in answers : r.id # a.id
  /\ pending["up"] = pending["down"] => pending["up"] = 0

\* A request that is waited for is about what the chat has not got yet.
Asked ==
  \A r \in requests, w \in Ways : r.id = pending[w] =>
    r.way = w /\ r.chat = peer /\ r.offset = offset[w] /\ offset[w] # -1

\* A page is an unbroken run of messages, from the offset on, and the last one
\* unless it is full.  What came after a page below was computed is still to come,
\* or passed it.
PageAbove(a) ==
  /\ \A i \in a.ids : i \in 1 .. offset["up"] - 1
  /\ \A i \in 1 .. offset["up"] - 1 :
       \/ i \in a.ids \cup gone[peer]
       \/ Cardinality(a.ids) = Batch /\ \A j \in a.ids : i < j

\* The same below, where n was the newest when the page was computed.
PageBelow(a) ==
  \E n \in offset["down"] .. log[peer] :
    /\ a.ids \subseteq offset["down"] .. n
    /\ \A i \in offset["down"] .. n :
         \/ i \in a.ids \cup gone[peer]
         \/ Cardinality(a.ids) = Batch /\ \A j \in a.ids : j < i
    /\ \A i \in n + 1 .. log[peer] : i \in Announces(queue[peer]) \cup amiss.overtaken

\* An answer that is awaited is about the open chat, and joins what it has.
Told ==
  \A a \in answers :
    /\ IsFiniteSet(a.ids)
    /\ \A w \in Ways : a.id = pending[w] => a.chat = peer /\ offset[w] # -1
    /\ a.id = pending["up"] => PageAbove(a)
    /\ a.id = pending["down"] => PageBelow(a)

\* What is excused and was not deleted.
Excuses == amiss.overtaken \cup amiss.struck \cup amiss.unclaimed \cup amiss.skipped
             \cup amiss.jumped

\* The messages of the open chat that are shown, or excused.
Shown == OwnIds \cup Excused

\* The oldest message from which on nothing is missing.
Top == IF offset["up"] = -1 THEN 1 ELSE offset["up"]

\* Up to the mark nothing is missing from there on.
JoinedAbove ==
  /\ Top \in 1 .. mark
  /\ \A i \in Top .. mark - 1 : i \in Shown
  /\ \A i \in OwnIds \ amiss.late : Top <= i

\* From the mark on nothing is missing up to the last page, or, after that, but what is
\* still to come, and is newer than all rows.
JoinedBelow ==
  IF offset["down"] # -1
  THEN /\ offset["down"] \in mark .. log[peer]
       /\ \A i \in mark .. offset["down"] - 1 : i \in Shown
       /\ \A i \in OwnIds : i <= offset["down"]
  ELSE \A i \in mark .. log[peer] :
         i \in Shown \/ (i \in Announces(queue[peer]) /\ \A j \in OwnIds : j < i)

\* Both, while a chat is open.
Joined == peer # None => mark \in 1 .. log[peer] /\ JoinedAbove /\ JoinedBelow

\* Each row is of the open chat, or of another one that is known to be.
Belong == \A x \in Range(rows) : x.chat = peer \/ x.id \in amiss.strays

\* The inductive invariant.
MInv ==
  /\ ServerOK /\ WireOK /\ ChatOK /\ QueueOK
  /\ OneEach /\ Asked /\ Told
  /\ Joined /\ Belong /\ ReadWasShown

-----------------------------------------------------------------------------
(***************************************************************************)
(* Least and greatest elements.                                            *)
(***************************************************************************)
\* The order of the naturals, as a relation.
LessThan == OpToRel(<, Nat)

\* A set of naturals that is not empty has a least element.
LEMMA LeastExists ==
  ASSUME NEW S \in SUBSET Nat, S # {}
  PROVE  \E x \in S : \A y \in S : x <= y
<1>1. IsWellFoundedOn(LessThan, Nat)
  BY NatLessThanWellFounded DEF LessThan
<1>2. LessThan = {ss \in Nat \X Nat : ss[1] < ss[2]}
  BY DEF LessThan, OpToRel
<1>3. PICK x \in S : \A y \in S : <<y, x>> \notin LessThan
  BY <1>1, WFMin
<1>4. ASSUME NEW y \in S, y < x PROVE FALSE
  <2>. DEFINE ss == <<y, x>>
  <2>1. ss \in Nat \X Nat /\ ss[1] = y /\ ss[2] = x
    OBVIOUS
  <2>. HIDE DEF ss
  <2>2. ss \in LessThan
    BY <1>2, <1>4, <2>1
  <2>. QED
    BY <1>3, <2>2 DEF ss
<1>. QED
  BY <1>4

\* Min() and Max() return what their names say.
LEMMA MinFact ==
  ASSUME NEW S \in SUBSET Nat, S # {}
  PROVE  Min(S) \in S /\ \A y \in S : Min(S) <= y
BY LeastExists DEF Min

\* Max() of a set that has a bound.
LEMMA MaxFact ==
  ASSUME NEW n \in Nat, NEW S \in SUBSET (0 .. n), S # {}
  PROVE  Max(S) \in S /\ \A y \in S : y <= Max(S)
<1>. DEFINE T == {n - x : x \in S}
<1>1. T \in SUBSET Nat /\ T # {}
  OBVIOUS
<1>2. \E z \in T : \A y \in T : z <= y
  <2>. HIDE DEF T
  <2>. QED
    BY <1>1, LeastExists
<1>3. PICK x \in S : \A y \in T : n - x <= y
  BY <1>2
<1>4. \A y \in S : n - x <= n - y
  BY <1>3
<1>5. \E m \in S : \A y \in S : m >= y
  BY <1>4
<1>6. Max(S) \in S /\ \A y \in S : Max(S) >= y
  BY <1>5 DEF Max
<1>. QED
  BY <1>6

-----------------------------------------------------------------------------
(***************************************************************************)
(* An order on a finite set, given as the elements before each.            *)
(***************************************************************************)
Ordered(S, before) ==
  /\ IsFiniteSet(S) /\ before \in [S -> SUBSET S]
  /\ \A i \in S : i \notin before[i]
  /\ \A i, j \in S : i = j \/ i \in before[j] \/ j \in before[i]
  /\ \A i \in S : \A j \in before[i] : before[j] \subseteq before[i]

\* How many elements are before i.
Rank(before, i) == Cardinality(before[i])

\* Every element has a rank of its own, below the size of the set.
LEMMA RankFact ==
  ASSUME NEW S, NEW before, Ordered(S, before)
  PROVE  /\ Cardinality(S) \in Nat
         /\ \A i \in S : Rank(before, i) \in 0 .. Cardinality(S) - 1
         /\ \A i \in S : \A j \in before[i] : Rank(before, j) < Rank(before, i)
         /\ \A i, j \in S : Rank(before, i) = Rank(before, j) => i = j
<1>1. Cardinality(S) \in Nat
  BY FS_CardinalityType DEF Ordered
<1>2. ASSUME NEW T \in SUBSET S, NEW U \in SUBSET T, U # T
      PROVE  Cardinality(U) \in Nat /\ Cardinality(T) \in Nat /\ Cardinality(U) < Cardinality(T)
  <2>1. IsFiniteSet(T)
    BY FS_Subset DEF Ordered
  <2>2. IsFiniteSet(U) /\ Cardinality(U) <= Cardinality(T) /\ Cardinality(U) # Cardinality(T)
    BY <1>2, <2>1, FS_Subset
  <2>. QED
    BY <2>1, <2>2, FS_CardinalityType
<1>3. ASSUME NEW i \in S
      PROVE  Rank(before, i) \in 0 .. Cardinality(S) - 1
  <2>1. before[i] \in SUBSET S /\ before[i] # S
    BY DEF Ordered
  <2>2. Cardinality(before[i]) \in Nat /\ Cardinality(before[i]) < Cardinality(S)
    BY <1>2, <2>1
  <2>. QED
    BY <1>1, <2>2 DEF Rank
<1>4. ASSUME NEW i \in S, NEW j \in before[i]
      PROVE  Rank(before, j) < Rank(before, i)
  <2>1. before[i] \in SUBSET S /\ j \in S
    BY DEF Ordered
  <2>2. before[j] \in SUBSET before[i] /\ before[j] # before[i]
    BY <2>1 DEF Ordered
  <2>. QED
    BY <1>2, <2>1, <2>2 DEF Rank
<1>5. ASSUME NEW i \in S, NEW j \in S, Rank(before, i) = Rank(before, j)
      PROVE  i = j
  <2>1. Rank(before, i) \in Int
    BY <1>3
  <2>2. i \notin before[j] /\ j \notin before[i]
    BY <1>4, <1>5, <2>1
  <2>. QED
    BY <2>2 DEF Ordered
<1>. QED
  BY <1>1, <1>3, <1>4, <1>5

\* Every rank below the size of the set is some element's.
LEMMA RankTaken ==
  ASSUME NEW S, NEW before, Ordered(S, before), NEW k \in 0 .. Cardinality(S) - 1
  PROVE  \E i \in S : Rank(before, i) = k
<1>. DEFINE n == Cardinality(S)
            f == [i \in S |-> Rank(before, i)]
<1>1. n \in Nat /\ f \in [S -> 0 .. n - 1] /\ \A i, j \in S : f[i] = f[j] => i = j
  BY RankFact
<1>2. IsFiniteSet(0 .. n - 1) /\ Cardinality(0 .. n - 1) = n
  <2>1. n - 1 \in Int /\ 0 \in Int
    BY <1>1
  <2>2. Cardinality(0 .. n - 1) = IF 0 > n - 1 THEN 0 ELSE n - 1 - 0 + 1
    BY <2>1, FS_Interval
  <2>. QED
    BY <1>1, <2>1, <2>2, FS_Interval
<1>3. f \in Injection(S, 0 .. n - 1)
  BY <1>1 DEF Injection, IsInjective
<1>4. f \in Surjection(S, 0 .. n - 1)
  BY <1>2, <1>3, FS_Injection
<1>. QED
  BY <1>4 DEF Surjection

\* The elements of the lowest ranks, lim of them.  If they are not as many, they are all.
LEMMA LowestFact ==
  ASSUME NEW S, NEW before, Ordered(S, before), NEW lim \in Nat,
         NEW P, P = {i \in S : Rank(before, i) < lim}
  PROVE  /\ IsFiniteSet(P) /\ Cardinality(P) \in Nat
         /\ \A i \in P : before[i] \subseteq P
         /\ Cardinality(P) # lim => P = S
<1>0. IsFiniteSet(P) /\ Cardinality(P) \in Nat /\ IsFiniteSet(S) /\ P \in SUBSET S
  BY FS_Subset, FS_CardinalityType DEF Ordered
<1>1. \A i \in S : Rank(before, i) \in 0 .. Cardinality(S) - 1
  BY RankFact
<1>2. ASSUME NEW i \in P PROVE before[i] \subseteq P
  <2>1. before[i] \in SUBSET S
    BY DEF Ordered
  <2>2. \A j \in before[i] : Rank(before, j) < Rank(before, i)
    BY RankFact
  <2>. QED
    BY <1>1, <2>1, <2>2
<1>3. ASSUME P # S PROVE Cardinality(P) = lim
  <2>. DEFINE f == [i \in P |-> Rank(before, i)]
  <2>1. PICK x \in S : Rank(before, x) >= lim /\ Rank(before, x) <= Cardinality(S) - 1
    BY <1>1, <1>3
  <2>2. lim <= Cardinality(S) - 1 /\ Cardinality(S) \in Nat
    BY <1>1, <2>1, RankFact
  <2>3. f \in [P -> 0 .. lim - 1]
    BY <1>1
  <2>4. \A i, j \in P : f[i] = f[j] => i = j
    BY RankFact
  <2>5. \A k \in 0 .. lim - 1 : \E i \in P : f[i] = k
    <3>1. TAKE k \in 0 .. lim - 1
    <3>2. k \in 0 .. Cardinality(S) - 1 /\ k < lim
      BY <2>2
    <3>3. PICK i \in S : Rank(before, i) = k
      BY <3>2, RankTaken
    <3>. QED
      BY <3>2, <3>3
  <2>6. f \in Bijection(P, 0 .. lim - 1)
    BY <2>3, <2>4, <2>5 DEF Bijection, Injection, Surjection, IsInjective
  <2>7. Cardinality(0 .. lim - 1) = Cardinality(P)
    BY <1>0, <2>6, FS_Bijection DEF ExistsBijection
  <2>8. lim - 1 \in Int /\ 0 \in Int
    OBVIOUS
  <2>9. Cardinality(0 .. lim - 1) = IF 0 > lim - 1 THEN 0 ELSE lim - 1 - 0 + 1
    BY <2>8, FS_Interval
  <2>. QED
    BY <2>7, <2>9
<1>. QED
  BY <1>0, <1>2, <1>3

-----------------------------------------------------------------------------
(***************************************************************************)
(* Pages.                                                                  *)
(***************************************************************************)
Below(S) == [i \in S |-> {j \in S : j < i}]
Above(S) == [i \in S |-> {j \in S : j > i}]

\* Messages are ordered both ways.
LEMMA MessagesOrdered ==
  ASSUME NEW S \in SUBSET Nat, IsFiniteSet(S)
  PROVE  Ordered(S, Below(S)) /\ Ordered(S, Above(S))
<1>1. /\ Below(S) \in [S -> SUBSET S] /\ Above(S) \in [S -> SUBSET S]
      /\ \A i \in S : Below(S)[i] = {j \in S : j < i} /\ Above(S)[i] = {j \in S : j > i}
  BY DEF Below, Above
<1>2. \A i, j \in S : /\ (j \in Below(S)[i] <=> j < i)
                      /\ (j \in Above(S)[i] <=> j > i)
  BY <1>1
<1>3. /\ \A i \in S : i \notin Below(S)[i] /\ i \notin Above(S)[i]
      /\ \A i, j \in S : i = j \/ i \in Below(S)[j] \/ j \in Below(S)[i]
      /\ \A i, j \in S : i = j \/ i \in Above(S)[j] \/ j \in Above(S)[i]
  BY <1>2
<1>4. ASSUME NEW i \in S, NEW j \in Below(S)[i]
      PROVE  Below(S)[j] \subseteq Below(S)[i]
  <2>1. j \in S /\ j < i
    BY <1>1
  <2>2. ASSUME NEW y \in Below(S)[j] PROVE y \in Below(S)[i]
    <3>1. y \in S /\ y < j
      BY <1>1, <2>1
    <3>. QED
      BY <1>2, <2>1, <3>1
  <2>. QED
    BY <2>2
<1>5. ASSUME NEW i \in S, NEW j \in Above(S)[i]
      PROVE  Above(S)[j] \subseteq Above(S)[i]
  <2>1. j \in S /\ j > i
    BY <1>1
  <2>2. ASSUME NEW y \in Above(S)[j] PROVE y \in Above(S)[i]
    <3>1. y \in S /\ y > j
      BY <1>1, <2>1
    <3>. QED
      BY <1>2, <2>1, <3>1
  <2>. QED
    BY <2>2
<1>6. Ordered(S, Below(S))
  BY <1>1, <1>3, <1>4 DEF Ordered
<1>7. Ordered(S, Above(S))
  BY <1>1, <1>3, <1>5 DEF Ordered
<1>. QED
  BY <1>6, <1>7

\* A page of messages below the offset: the newest of them.  What is not in it
\* is older than all that is, which are as many as fit.
LEMMA NewestFact ==
  ASSUME NEW S \in SUBSET Nat, IsFiniteSet(S), Batch \in Nat
  PROVE  /\ Newest(S) \in SUBSET S /\ IsFiniteSet(Newest(S))
         /\ \A i \in S \ Newest(S) :
              Cardinality(Newest(S)) = Batch /\ \A j \in Newest(S) : i < j
<1>1. Ordered(S, Above(S))
  BY MessagesOrdered
<1>2. Newest(S) = {i \in S : Rank(Above(S), i) < Batch}
  BY DEF Newest, Rank, Above
<1>3. /\ IsFiniteSet(Newest(S)) /\ \A i \in Newest(S) : Above(S)[i] \subseteq Newest(S)
      /\ Cardinality(Newest(S)) # Batch => Newest(S) = S
  BY <1>1, <1>2, LowestFact
<1>4. Newest(S) \in SUBSET S
  BY <1>2
<1>5. ASSUME NEW i \in S \ Newest(S), NEW j \in Newest(S)
      PROVE  i < j
  <2>1. i \notin Above(S)[j] /\ j \in S /\ i # j
    BY <1>3, <1>4
  <2>. QED
    BY <2>1 DEF Above
<1>. QED
  BY <1>3, <1>4, <1>5

\* A page of messages from the offset on: the oldest of them.
LEMMA OldestFact ==
  ASSUME NEW S \in SUBSET Nat, IsFiniteSet(S), Batch \in Nat
  PROVE  /\ Oldest(S) \in SUBSET S /\ IsFiniteSet(Oldest(S))
         /\ \A i \in S \ Oldest(S) :
              Cardinality(Oldest(S)) = Batch /\ \A j \in Oldest(S) : j < i
<1>1. Ordered(S, Below(S))
  BY MessagesOrdered
<1>2. Oldest(S) = {i \in S : Rank(Below(S), i) < Batch}
  BY DEF Oldest, Rank, Below
<1>3. /\ IsFiniteSet(Oldest(S)) /\ \A i \in Oldest(S) : Below(S)[i] \subseteq Oldest(S)
      /\ Cardinality(Oldest(S)) # Batch => Oldest(S) = S
  BY <1>1, <1>2, LowestFact
<1>4. Oldest(S) \in SUBSET S
  BY <1>2
<1>5. ASSUME NEW i \in S \ Oldest(S), NEW j \in Oldest(S)
      PROVE  j < i
  <2>1. i \notin Below(S)[j] /\ j \in S /\ i # j
    BY <1>3, <1>4
  <2>. QED
    BY <2>1 DEF Below
<1>. QED
  BY <1>3, <1>4, <1>5

\* Each message of an answer has its place among the rows.
LEMMA NthByRank ==
  ASSUME NEW S, Ordered(S, Below(S))
  PROVE  /\ Cardinality(S) \in Nat
         /\ \A k \in 1 .. Cardinality(S) : Nth(S, k) \in S
         /\ \A i \in S : \E k \in 1 .. Cardinality(S) : Nth(S, k) = i
<1>. DEFINE r(i) == Rank(Below(S), i)
<1>1. Cardinality(S) \in Nat /\ \A i \in S : r(i) \in 0 .. Cardinality(S) - 1
  BY RankFact
<1>2. \A i, j \in S : r(i) = r(j) => i = j
  BY RankFact
<1>3. \A k \in 0 .. Cardinality(S) - 1 : \E i \in S : r(i) = k
  BY RankTaken
<1>4. \A k : Nth(S, k) = CHOOSE i \in S : r(i) = k - 1
  <2>1. \A i \in S : r(i) = Cardinality({j \in S : j < i})
    BY DEF Rank, Below
  <2>. QED
    BY <2>1 DEF Nth
<1>. HIDE DEF r
<1>5. ASSUME NEW k \in 1 .. Cardinality(S)
      PROVE  Nth(S, k) \in S /\ r(Nth(S, k)) = k - 1
  <2>1. k - 1 \in 0 .. Cardinality(S) - 1
    BY <1>1
  <2>2. \E i \in S : r(i) = k - 1
    BY <1>3, <2>1
  <2>. QED
    BY <1>4, <2>2
<1>6. ASSUME NEW i \in S PROVE \E k \in 1 .. Cardinality(S) : Nth(S, k) = i
  <2>. DEFINE k == r(i) + 1
  <2>1. k \in 1 .. Cardinality(S) /\ k - 1 = r(i)
    BY <1>1
  <2>2. Nth(S, k) \in S /\ r(Nth(S, k)) = r(i)
    BY <1>5, <2>1
  <2>3. Nth(S, k) = i
    BY <1>2, <2>2
  <2>. QED
    BY <2>1, <2>3
<1>. QED
  BY <1>1, <1>5, <1>6

\* The same of a set of messages.
LEMMA NthFact ==
  ASSUME NEW S \in SUBSET Nat, IsFiniteSet(S)
  PROVE  /\ Cardinality(S) \in Nat
         /\ \A k \in 1 .. Cardinality(S) : Nth(S, k) \in S
         /\ \A i \in S : \E k \in 1 .. Cardinality(S) : Nth(S, k) = i
BY MessagesOrdered, NthByRank

\* The rows of an answer are its messages.
LEMMA NewRowsFact ==
  ASSUME NEW a, a.chat \in Chats, a.ids \in SUBSET Nat, IsFiniteSet(a.ids)
  PROVE  /\ NewRows(a) \in Seq(RowType)
         /\ \A x : x \in Range(NewRows(a)) <=> \E i \in a.ids : x = Row(a.chat, i)
<1>. DEFINE n == Cardinality(a.ids)
<1>1. n \in Nat /\ \A k \in 1 .. n : Nth(a.ids, k) \in a.ids
  BY NthFact
<1>2. \A i \in a.ids : \E k \in 1 .. n : Nth(a.ids, k) = i
  BY NthFact
<1>3. NewRows(a) = [k \in 1 .. n |-> Row(a.chat, Nth(a.ids, k))]
  BY DEF NewRows
<1>. HIDE DEF n
<1>4. \A i \in a.ids : Row(a.chat, i) \in RowType
  BY DEF Row, RowType
<1>5. NewRows(a) \in Seq(RowType)
  BY <1>1, <1>3, <1>4
<1>6. \A x : x \in Range(NewRows(a)) <=> \E k \in 1 .. n : x = Row(a.chat, Nth(a.ids, k))
  BY <1>3 DEF Range
<1>. QED
  BY <1>1, <1>2, <1>5, <1>6

-----------------------------------------------------------------------------
(***************************************************************************)
(* Rows.                                                                   *)
(***************************************************************************)
\* Elements of a sequence are of its type.
LEMMA RangeType ==
  ASSUME NEW S, NEW q \in Seq(S)
  PROVE  Range(q) \subseteq S
BY DEF Range

\* A row is added at the end.
LEMMA RangeAppend ==
  ASSUME NEW S, NEW q \in Seq(S), NEW x \in S
  PROVE  Append(q, x) \in Seq(S) /\ Range(Append(q, x)) = Range(q) \cup {x}
<1>1. /\ Append(q, x) \in Seq(S) /\ Len(Append(q, x)) = Len(q) + 1 /\ Len(q) \in Nat
      /\ Append(q, x)[Len(q) + 1] = x /\ \A i \in 1 .. Len(q) : Append(q, x)[i] = q[i]
  OBVIOUS
<1>2. DOMAIN Append(q, x) = 1 .. Len(q) + 1 /\ DOMAIN q = 1 .. Len(q)
  BY <1>1
<1>. QED
  BY <1>1, <1>2 DEF Range

\* A page is added at one of the ends.
LEMMA RangeConcat ==
  ASSUME NEW S, NEW q \in Seq(S), NEW t \in Seq(S)
  PROVE  q \o t \in Seq(S) /\ Range(q \o t) = Range(q) \cup Range(t)
<1>1. /\ q \o t \in Seq(S) /\ Len(q \o t) = Len(q) + Len(t) /\ Len(q) \in Nat /\ Len(t) \in Nat
      /\ \A i \in 1 .. Len(q) : (q \o t)[i] = q[i]
      /\ \A i \in 1 .. Len(t) : (q \o t)[Len(q) + i] = t[i]
  OBVIOUS
<1>2. /\ DOMAIN (q \o t) = 1 .. Len(q) + Len(t)
      /\ DOMAIN q = 1 .. Len(q) /\ DOMAIN t = 1 .. Len(t)
  BY <1>1
<1>. DEFINE u == q \o t
<1>. HIDE DEF u
<1>3. ASSUME NEW k \in DOMAIN u PROVE u[k] \in Range(q) \cup Range(t)
  <2>1. CASE k <= Len(q)
    BY <1>1, <1>2, <1>3, <2>1 DEF Range, u
  <2>2. CASE k > Len(q)
    <3>. DEFINE i == k - Len(q)
    <3>1. i \in 1 .. Len(t) /\ k = Len(q) + i
      BY <1>1, <1>2, <1>3, <2>2 DEF u
    <3>2. u[k] = t[i]
      BY <1>1, <3>1 DEF u
    <3>. QED
      BY <1>2, <3>1, <3>2 DEF Range
  <2>. QED
    BY <1>1, <1>2, <1>3, <2>1, <2>2 DEF u
<1>4. ASSUME NEW i \in 1 .. Len(q) PROVE q[i] \in Range(u)
  BY <1>1, <1>2 DEF Range, u
<1>5. ASSUME NEW i \in 1 .. Len(t) PROVE t[i] \in Range(u)
  <2>1. Len(q) + i \in 1 .. Len(q) + Len(t) /\ u[Len(q) + i] = t[i]
    BY <1>1 DEF u
  <2>. QED
    BY <1>2, <2>1 DEF Range, u
<1>. QED
  BY <1>1, <1>2, <1>3, <1>4, <1>5 DEF Range, u

\* Removing a row leaves the others.
LEMMA RangeRemove ==
  ASSUME NEW S, NEW q \in Seq(S), NEW k \in DOMAIN q
  PROVE  /\ RemoveAt(q, k) \in Seq(S) /\ Range(RemoveAt(q, k)) \subseteq Range(q)
         /\ Range(q) \subseteq Range(RemoveAt(q, k)) \cup {q[k]}
<1>. DEFINE l == SubSeq(q, 1, k - 1)
            r == SubSeq(q, k + 1, Len(q))
<1>1. Len(q) \in Nat /\ DOMAIN q = 1 .. Len(q) /\ k \in 1 .. Len(q)
  OBVIOUS
<1>2. /\ l \in Seq(S) /\ Len(l) = k - 1 /\ \A i \in 1 .. k - 1 : l[i] = q[i]
      /\ r \in Seq(S) /\ Len(r) = Len(q) - k /\ \A i \in 1 .. Len(q) - k : r[i] = q[k + i]
  BY <1>1
<1>3. DOMAIN l = 1 .. k - 1 /\ DOMAIN r = 1 .. Len(q) - k
  BY <1>1, <1>2
<1>4. RemoveAt(q, k) = l \o r
  BY DEF RemoveAt
<1>. HIDE DEF l, r
<1>5. RemoveAt(q, k) \in Seq(S) /\ Range(RemoveAt(q, k)) = Range(l) \cup Range(r)
  BY <1>2, <1>4, RangeConcat
<1>6. \A i \in 1 .. Len(q) - k : k + i \in 1 .. Len(q)
  BY <1>1
<1>7. Range(l) \subseteq Range(q) /\ Range(r) \subseteq Range(q)
  BY <1>1, <1>2, <1>3, <1>6 DEF Range
<1>8. ASSUME NEW i \in 1 .. Len(q), i # k PROVE q[i] \in Range(l) \cup Range(r)
  <2>1. CASE i < k
    <3>1. i \in 1 .. k - 1
      BY <1>1, <2>1
    <3>2. l[i] = q[i] /\ i \in DOMAIN l
      BY <1>2, <1>3, <3>1
    <3>. QED
      BY <3>2 DEF Range
  <2>2. CASE i > k
    <3>1. i - k \in 1 .. Len(q) - k /\ k + (i - k) = i
      BY <1>1, <2>2
    <3>2. r[i - k] = q[i]
      BY <1>2, <3>1
    <3>. QED
      BY <1>3, <3>1, <3>2 DEF Range
  <2>. QED
    BY <1>1, <1>8, <2>1, <2>2
<1>9. Range(q) \subseteq Range(l) \cup Range(r) \cup {q[k]}
  BY <1>1, <1>8 DEF Range
<1>. QED
  BY <1>5, <1>7, <1>9

\* UpdateDeleteMessages takes away a row with that id, or none.
LEMMA RemovedRowFact ==
  ASSUME rows \in Seq(RowType), NEW i
  PROVE  /\ RemovedRow(i) \in Seq(RowType) /\ Range(RemovedRow(i)) \subseteq Range(rows)
         /\ \A x \in Range(rows) : x \in Range(RemovedRow(i)) \/ x.id = i
<1>1. CASE \E k \in DOMAIN rows : rows[k].id = i
  <2>. DEFINE T == {n \in DOMAIN rows : rows[n].id = i}
  <2>1. T \in SUBSET Nat /\ T # {}
    BY <1>1
  <2>2. Min(T) \in T
    BY <2>1, MinFact
  <2>3. RemovedRow(i) = RemoveAt(rows, Min(T))
    BY <1>1 DEF RemovedRow
  <2>. HIDE DEF T
  <2>4. Min(T) \in DOMAIN rows /\ rows[Min(T)].id = i
    BY <2>2 DEF T
  <2>. QED
    BY <2>3, <2>4, RangeRemove
<1>2. CASE ~\E k \in DOMAIN rows : rows[k].id = i
  BY <1>2 DEF RemovedRow
<1>. QED
  BY <1>1, <1>2

\* The ids of the open chat's rows.
LEMMA OwnFact ==
  ASSUME NEW q \in Seq(RowType), NEW c
  PROVE  \A i : i \in {q[k].id : k \in {n \in DOMAIN q : q[n].chat = c}}
                  <=> \E x \in Range(q) : x.chat = c /\ x.id = i
BY DEF Range

-----------------------------------------------------------------------------
(***************************************************************************)
(* Ids of requests.                                                        *)
(***************************************************************************)
LEMMA UsedFinite ==
  ASSUME WireOK
  PROVE  IsFiniteSet(Used) /\ Cardinality(Used) \in Nat
<1>. DEFINE S == requests \cup answers
            f == [r \in S |-> r.id]
            T == {r.id : r \in S}
<1>1. IsFiniteSet(S)
  BY FS_Union DEF WireOK
<1>2. f \in Surjection(S, T)
  BY DEF Surjection
<1>3. IsFiniteSet(T)
  BY <1>1, <1>2, FS_Surjection
<1>4. Used = (T \cup {pending["up"]}) \cup {pending["down"]}
  BY DEF Used, Ways
<1>. HIDE DEF T
<1>5. IsFiniteSet(Used)
  BY <1>3, <1>4, FS_AddElement
<1>. QED
  BY <1>5, FS_CardinalityType

\* There are always two more.
LEMMA FreshIds ==
  ASSUME WireOK
  PROVE  /\ NextId \in Nat \ {0} /\ NextId \notin Used
         /\ Min(Unused \ {NextId}) \in Nat \ {0}
         /\ Min(Unused \ {NextId}) \notin Used /\ Min(Unused \ {NextId}) # NextId
<1>. DEFINE n == Cardinality(Used)
            U == 1 .. n + 2
<1>1. n \in Nat /\ IsFiniteSet(Used)
  BY UsedFinite
<1>2. Unused = U \ Used
  BY DEF Unused
<1>. HIDE DEF n
<1>3. IsFiniteSet(U) /\ Cardinality(U) = n + 2
  <2>. DEFINE m == n + 2
  <2>1. 1 \in Int /\ m \in Int /\ m > 1
    BY <1>1
  <2>. HIDE DEF m
  <2>2. /\ IsFiniteSet(1 .. m)
        /\ Cardinality(1 .. m) = IF 1 > m THEN 0 ELSE m - 1 + 1
    BY <2>1, FS_Interval
  <2>3. IsFiniteSet(U) /\ Cardinality(U) = m
    BY <2>1, <2>2 DEF m
  <2>. QED
    BY <2>3 DEF m
<1>4. U \in SUBSET (Nat \ {0})
  BY <1>1
<1>. HIDE DEF U
<1>5. ASSUME NEW S, IsFiniteSet(S), Cardinality(S) <= n + 1
      PROVE  U \ S # {}
  <2>1. ASSUME U \in SUBSET S PROVE FALSE
    <3>1. Cardinality(U) <= Cardinality(S) /\ Cardinality(S) \in Nat
      BY <1>5, <2>1, FS_Subset, FS_CardinalityType
    <3>. QED
      BY <1>1, <1>3, <1>5, <3>1
  <2>. QED
    BY <2>1
<1>6. U \ Used # {}
  BY <1>1, <1>5 DEF n
<1>7. IsFiniteSet(Used \cup {NextId}) /\ Cardinality(Used \cup {NextId}) <= n + 1
  BY <1>1, FS_AddElement DEF n
<1>8. U \ (Used \cup {NextId}) # {}
  BY <1>5, <1>7
<1>9. Unused \in SUBSET Nat /\ Unused # {} /\ Unused \ {NextId} \in SUBSET Nat
      /\ Unused \ {NextId} # {}
  BY <1>2, <1>4, <1>6, <1>8
<1>10. NextId \in Unused
  BY <1>9, MinFact DEF NextId
<1>11. Min(Unused \ {NextId}) \in Unused \ {NextId}
  BY <1>9, MinFact
<1>. QED
  BY <1>2, <1>4, <1>10, <1>11

\* Nobody has or waits for an id that is not used.
LEMMA UnusedFact ==
  ASSUME NEW n, n \notin Used
  PROVE  /\ \A r \in requests : r.id # n
         /\ \A a \in answers : a.id # n
         /\ \A w \in Ways : pending[w] # n
BY DEF Used

-----------------------------------------------------------------------------
(***************************************************************************)
(* Queues of updates.                                                      *)
(***************************************************************************)
LEMMA AnnouncesFact ==
  ASSUME NEW q
  PROVE  \A i : i \in Announces(q) <=> \E k \in DOMAIN q : q[k].kind # "delete" /\ q[k].id = i
BY DEF Announces

\* An update u joins the queue q of c, with the sequence at n, and at m after it, and
\* with g deleted, and h after it.
Joins(c, u, q, n, m, g, h) ==
  /\ u \in UpdateType /\ u.id \in 1 .. m /\ (u.kind \in Sends => c = "user")
  /\ \/ u.kind = "delete" /\ u.id \in h /\ m = n
     \/ u.kind # "delete" /\ u.id = n + 1 /\ m = n + 1
  /\ q \in Seq(UpdateType) /\ Fits(c, q, n, g)
  /\ n \in Nat /\ m \in Nat /\ g \subseteq h

\* What t is then.
HasJoined(c, u, q, t, m, h) ==
  /\ t \in Seq(UpdateType) /\ Fits(c, t, m, h)
  /\ Announces(q) \subseteq Announces(t)
  /\ u.kind # "delete" => u.id \in Announces(t)

\* The queue is in order as before, and the update is among those to come.
LEMMA AppendFact ==
  ASSUME NEW c, NEW u, NEW q, NEW n, NEW m, NEW g, NEW h, Joins(c, u, q, n, m, g, h)
  PROVE  HasJoined(c, u, q, Append(q, u), m, h)
<1>. DEFINE t == Append(q, u)
<1>. USE DEF Joins, Fits
<1>1. /\ t \in Seq(UpdateType) /\ Len(t) = Len(q) + 1 /\ Len(q) \in Nat
      /\ t[Len(q) + 1] = u /\ \A i \in 1 .. Len(q) : t[i] = q[i]
  OBVIOUS
<1>2. DOMAIN t = 1 .. Len(q) + 1 /\ DOMAIN q = 1 .. Len(q)
  BY <1>1
<1>. HIDE DEF t
<1>3. \A k \in 1 .. Len(q) : q[k].id \in 1 .. n /\ t[k].id \in 1 .. m
  BY <1>1, <1>2 DEF InOrder
<1>4. ASSUME NEW k \in DOMAIN t
      PROVE  /\ t[k].id \in 1 .. m /\ (t[k].kind = "delete" => t[k].id \in h)
             /\ \A j \in 1 .. k - 1 :
                  t[j].kind # "delete" /\ t[k].kind # "delete" => t[j].id < t[k].id
  <2>1. CASE k \in 1 .. Len(q)
    <3>1. \A j \in 1 .. k - 1 : j \in 1 .. Len(q) /\ t[j] = q[j]
      BY <1>1, <2>1
    <3>2. t[k] = q[k]
      BY <1>1, <2>1
    <3>. QED
      BY <1>2, <1>3, <2>1, <3>1, <3>2 DEF InOrder
  <2>2. CASE k = Len(q) + 1
    <3>1. \A j \in 1 .. k - 1 : j \in 1 .. Len(q) /\ t[j] = q[j]
      BY <1>1, <2>2
    <3>2. t[k] = u
      BY <1>1, <2>2
    <3>. QED
      BY <1>3, <3>1, <3>2
  <2>. QED
    BY <1>1, <1>2, <2>1, <2>2
<1>5. InOrder(t, m, h)
  BY <1>4 DEF InOrder
<1>6. \A k \in DOMAIN q : k \in DOMAIN t /\ t[k] = q[k]
  BY <1>1, <1>2
<1>7. Len(q) + 1 \in DOMAIN t
  BY <1>1, <1>2
<1>8. Announces(q) \subseteq Announces(t) /\ (u.kind # "delete" => u.id \in Announces(t))
  <2>1. ASSUME NEW i \in Announces(q) PROVE i \in Announces(t)
    <3>1. PICK k \in DOMAIN q : q[k].kind # "delete" /\ q[k].id = i
      BY AnnouncesFact
    <3>2. k \in DOMAIN t /\ t[k].kind # "delete" /\ t[k].id = i
      BY <1>6, <3>1
    <3>. QED
      BY <3>2, AnnouncesFact
  <2>2. t[Len(q) + 1] = u
    BY <1>1
  <2>. QED
    BY <1>7, <2>1, <2>2, AnnouncesFact
<1>9. \A k \in DOMAIN t : t[k] = u \/ (k \in DOMAIN q /\ t[k] = q[k])
  BY <1>1, <1>2
<1>10. OfSequence(c, t)
  BY <1>9 DEF OfSequence
<1>11. ASSUME NEW i \in Announces(t), NEW j \in i .. m PROVE j \in Announces(t)
  <2>1. i \in Announces(q) \/ (u.kind # "delete" /\ i = u.id)
    BY <1>9, AnnouncesFact
  <2>2. CASE j <= n
    <3>1. i \in Announces(q) /\ j \in i .. n
      BY <2>1, <2>2
    <3>. QED
      BY <1>8, <3>1 DEF Unbroken
  <2>3. CASE j > n
    <3>1. u.kind # "delete" /\ j = u.id
      BY <2>3
    <3>. QED
      BY <1>8, <3>1
  <2>4. i \in Int
    <3>1. PICK k \in DOMAIN t : t[k].id = i
      BY AnnouncesFact
    <3>. QED
      BY <1>4, <3>1
  <2>. QED
    BY <2>2, <2>3, <2>4
<1>. QED
  BY <1>1, <1>5, <1>8, <1>10, <1>11 DEF t, HasJoined, Unbroken

\* The messages of a queue in order are numbers.
LEMMA AnnouncedNat ==
  ASSUME NEW q, NEW n \in Nat, NEW g, InOrder(q, n, g)
  PROVE  Announces(q) \subseteq 1 .. n
<1>1. ASSUME NEW i \in Announces(q) PROVE i \in 1 .. n
  <2>1. PICK k \in DOMAIN q : q[k].id = i
    BY AnnouncesFact
  <2>. QED
    BY <2>1 DEF InOrder
<1>. QED
  BY <1>1

\* A queue q is cut after m updates.
Splits(q, m, s, t) ==
  /\ m \in 0 .. Len(q)
  /\ s \in Seq(UpdateType) /\ Len(s) = m /\ \A k \in 1 .. m : s[k] = q[k]
  /\ t \in Seq(UpdateType) /\ Len(t) = Len(q) - m /\ \A k \in 1 .. Len(q) - m : t[k] = q[k + m]

LEMMA SplitFact ==
  ASSUME NEW q \in Seq(UpdateType), NEW m \in 0 .. Len(q)
  PROVE  Splits(q, m, SubSeq(q, 1, m), SubSeq(q, m + 1, Len(q)))
BY DEF Splits

\* The first m updates go: the others are of later messages.
LEMMA CutFact ==
  ASSUME NEW c, NEW q \in Seq(UpdateType), NEW n \in Nat, NEW g, Fits(c, q, n, g),
         NEW m, NEW s, NEW t, Splits(q, m, s, t)
  PROVE  /\ t \in Seq(UpdateType) /\ Fits(c, t, n, g)
         /\ Announces(s) \subseteq 1 .. n
         /\ \A i \in Announces(q) : i \in Announces(t) \/ i \in Announces(s)
         /\ \A i \in Announces(s), j \in Announces(t) : i < j
<1>1. /\ Len(q) \in Nat /\ m \in Nat /\ m <= Len(q)
      /\ t \in Seq(UpdateType) /\ Len(t) = Len(q) - m /\ s \in Seq(UpdateType) /\ Len(s) = m
      /\ \A k \in 1 .. m : s[k] = q[k]
      /\ \A k \in 1 .. Len(q) - m : t[k] = q[k + m]
  BY DEF Splits
<1>2. DOMAIN q = 1 .. Len(q) /\ DOMAIN t = 1 .. Len(q) - m /\ DOMAIN s = 1 .. m
  BY <1>1
<1>3. \A k \in DOMAIN t : k + m \in DOMAIN q /\ t[k] = q[k + m]
  BY <1>1, <1>2
<1>4. \A k \in DOMAIN s : k \in DOMAIN q /\ s[k] = q[k]
  BY <1>1, <1>2
<1>5. InOrder(q, n, g) /\ Unbroken(q, n) /\ OfSequence(c, q)
  BY DEF Fits
<1>6. ASSUME NEW k \in DOMAIN t
      PROVE  /\ t[k].id \in 1 .. n /\ (t[k].kind = "delete" => t[k].id \in g)
             /\ \A j \in 1 .. k - 1 :
                  t[j].kind # "delete" /\ t[k].kind # "delete" => t[j].id < t[k].id
  <2>1. \A j \in 1 .. k - 1 : j \in DOMAIN t /\ j + m \in 1 .. (k + m) - 1
    BY <1>1, <1>2
  <2>2. k + m \in DOMAIN q /\ t[k] = q[k + m] /\ \A j \in 1 .. k - 1 : t[j] = q[j + m]
    BY <1>3, <2>1
  <2>. QED
    BY <1>5, <2>1, <2>2 DEF InOrder
<1>7. InOrder(t, n, g)
  BY <1>6 DEF InOrder
<1>8. ASSUME NEW i \in Announces(q) PROVE i \in Announces(t) \/ i \in Announces(s)
  <2>1. PICK k \in DOMAIN q : q[k].kind # "delete" /\ q[k].id = i
    BY AnnouncesFact
  <2>2. CASE k <= m
    <3>1. k \in DOMAIN s /\ s[k] = q[k]
      BY <1>1, <1>2, <2>2
    <3>. QED
      BY <2>1, <3>1, AnnouncesFact
  <2>3. CASE k > m
    <3>1. k - m \in 1 .. Len(q) - m /\ (k - m) + m = k
      BY <1>1, <1>2, <2>3
    <3>2. k - m \in DOMAIN t /\ t[k - m] = q[k]
      BY <1>1, <1>2, <3>1
    <3>. QED
      BY <2>1, <3>2, AnnouncesFact
  <2>. QED
    BY <1>1, <1>2, <2>2, <2>3
<1>9. Announces(s) \subseteq 1 .. n /\ Announces(t) \subseteq 1 .. n
  <2>1. InOrder(s, n, g)
    BY <1>1, <1>2, <1>4, <1>5 DEF InOrder
  <2>. QED
    BY <1>7, <2>1, AnnouncedNat
<1>10. ASSUME NEW i \in Announces(s), NEW j \in Announces(t) PROVE i < j
  <2>1. PICK k \in DOMAIN s : s[k].kind # "delete" /\ s[k].id = i
    BY AnnouncesFact
  <2>2. PICK l \in DOMAIN t : t[l].kind # "delete" /\ t[l].id = j
    BY AnnouncesFact
  <2>3. k \in 1 .. (l + m) - 1 /\ s[k] = q[k] /\ l + m \in DOMAIN q /\ t[l] = q[l + m]
    BY <1>1, <1>2, <1>3, <1>4
  <2>. QED
    BY <1>5, <2>1, <2>2, <2>3 DEF InOrder
<1>11. Announces(t) \subseteq Announces(q)
  BY <1>3, AnnouncesFact
<1>12. Unbroken(t, n)
  <2>1. SUFFICES ASSUME NEW i \in Announces(t), NEW j \in i .. n PROVE j \in Announces(t)
    BY DEF Unbroken
  <2>2. j \in Announces(q)
    BY <1>5, <1>11, <2>1 DEF Unbroken
  <2>3. i \in Int /\ j \in Int /\ i <= j
    BY <1>9, <2>1
  <2>. QED
    BY <1>8, <1>10, <2>1, <2>2, <2>3
<1>13. OfSequence(c, t)
  BY <1>3, <1>5 DEF OfSequence
<1>. QED
  BY <1>1, <1>7, <1>8, <1>9, <1>10, <1>12, <1>13 DEF Fits

\* The first update is handed over.
LEMMA TailFact ==
  ASSUME NEW c, NEW q \in Seq(UpdateType), q # <<>>, NEW n \in Nat, NEW g, Fits(c, q, n, g)
  PROVE  /\ Head(q) \in UpdateType /\ Head(q).id \in 1 .. n /\ Tail(q) \in Seq(UpdateType)
         /\ Head(q).kind = "delete" => Head(q).id \in g
         /\ Head(q).kind \in Sends => c = "user"
         /\ Fits(c, Tail(q), n, g)
         /\ Head(q).kind # "delete" => Head(q).id \in Announces(q)
         /\ \A i \in Announces(q) : \/ i \in Announces(Tail(q))
                                    \/ Head(q).kind # "delete" /\ i = Head(q).id
         /\ Head(q).kind # "delete" => \A i \in Announces(Tail(q)) : i > Head(q).id
<1>. DEFINE s == SubSeq(q, 1, 1)
            t == SubSeq(q, 1 + 1, Len(q))
<1>1. /\ Len(q) \in Nat /\ 1 \in 0 .. Len(q) /\ 1 \in DOMAIN q /\ Head(q) = q[1]
      /\ Head(q) \in UpdateType
  OBVIOUS
<1>2. Tail(q) = t
  OBVIOUS
<1>3. DOMAIN s = {1} /\ s[1] = Head(q)
  BY <1>1
<1>9. Splits(q, 1, s, t)
  BY <1>1, SplitFact
<1>. HIDE DEF s, t
<1>4. /\ t \in Seq(UpdateType) /\ Fits(c, t, n, g)
      /\ Announces(s) \subseteq 1 .. n
      /\ \A i \in Announces(q) : i \in Announces(t) \/ i \in Announces(s)
      /\ \A i \in Announces(s), j \in Announces(t) : i < j
  BY <1>9, CutFact
<1>5. \A i : i \in Announces(s) <=> Head(q).kind # "delete" /\ i = Head(q).id
  BY <1>3, AnnouncesFact
<1>6. /\ Head(q).id \in 1 .. n /\ (Head(q).kind = "delete" => Head(q).id \in g)
      /\ (Head(q).kind \in Sends => c = "user")
  BY <1>1 DEF Fits, InOrder, OfSequence
<1>7. Head(q).kind # "delete" => Head(q).id \in Announces(q)
  BY <1>1, AnnouncesFact
<1>8. Head(q).kind # "delete" => \A i \in Announces(t) : i > Head(q).id
  <2>1. Announces(t) \subseteq 1 .. n
    BY <1>4, AnnouncedNat DEF Fits
  <2>. QED
    BY <1>4, <1>5, <1>6, <2>1
<1>. QED
  BY <1>1, <1>2, <1>4, <1>5, <1>6, <1>7, <1>8

\* An acknowledgement that was lost comes as an update like any.
LEMMA DemotedFact ==
  ASSUME NEW q \in Seq(UpdateType), NEW n, NEW g, Fits("user", q, n, g), NEW t,
         t = [k \in DOMAIN q |-> IF q[k].kind \in Sends THEN Update("new", q[k].id) ELSE q[k]]
  PROVE  t \in Seq(UpdateType) /\ Fits("user", t, n, g) /\ Announces(t) = Announces(q)
<1>1. DOMAIN t = DOMAIN q /\ DOMAIN q = 1 .. Len(q) /\ Len(q) \in Nat
  OBVIOUS
<1>2. ASSUME NEW k \in DOMAIN q
      PROVE  /\ t[k] \in UpdateType /\ t[k].id = q[k].id
             /\ (t[k].kind = "delete" <=> q[k].kind = "delete")
  <2>1. q[k] \in UpdateType
    OBVIOUS
  <2>. QED
    BY <2>1 DEF UpdateType, Update, Sends
<1>3. t \in Seq(UpdateType)
  <2>1. t \in [1 .. Len(q) -> UpdateType]
    BY <1>1, <1>2
  <2>. QED
    BY <1>1, <2>1
<1>4. InOrder(t, n, g)
  <2>1. \A k \in DOMAIN q : \A j \in 1 .. k - 1 : j \in DOMAIN q
    BY <1>1
  <2>. QED
    BY <1>1, <1>2, <2>1 DEF InOrder, Fits
<1>5. \A i : i \in Announces(t) <=> i \in Announces(q)
  BY <1>1, <1>2, AnnouncesFact
<1>6. Announces(t) = Announces(q)
  BY <1>5
<1>7. Unbroken(t, n) /\ OfSequence("user", t)
  BY <1>6 DEF Fits, Unbroken, OfSequence
<1>. QED
  BY <1>3, <1>4, <1>6, <1>7 DEF Fits

-----------------------------------------------------------------------------
(***************************************************************************)
(* What the open chat shows.                                               *)
(***************************************************************************)
LEMMA OwnIdsFact ==
  ASSUME ChatOK
  PROVE  /\ \A i : i \in OwnIds <=> \E x \in Range(rows) : x.chat = peer /\ x.id = i
         /\ peer \in Chats => OwnIds \subseteq 1 .. log[peer]
         /\ peer = None => OwnIds = {}
<1>1. \A i : i \in OwnIds <=> \E x \in Range(rows) : x.chat = peer /\ x.id = i
  <2>1. rows \in Seq(RowType)
    BY DEF ChatOK
  <2>. QED
    BY <2>1, OwnFact DEF OwnIds
<1>2. ASSUME peer \in Chats PROVE OwnIds \subseteq 1 .. log[peer]
  <2>1. \A x \in Range(rows) : x.id \in 1 .. log[x.chat]
    BY DEF ChatOK
  <2>2. ASSUME NEW i \in OwnIds PROVE i \in 1 .. log[peer]
    <3>1. PICK x \in Range(rows) : x.chat = peer /\ x.id = i
      BY <1>1
    <3>. QED
      BY <2>1, <3>1
  <2>. QED
    BY <2>2
<1>3. ASSUME peer = None PROVE OwnIds = {}
  <2>1. Range(rows) = {}
    BY <1>3 DEF ChatOK, Range
  <2>. QED
    BY <1>1, <2>1
<1>. QED
  BY <1>1, <1>2, <1>3

\* The same after a step.
LEMMA OwnIdsNext ==
  ASSUME rows' \in Seq(RowType)
  PROVE  \A i : i \in OwnIds' <=> \E x \in Range(rows') : x.chat = peer' /\ x.id = i
BY OwnFact DEF OwnIds

\* The open chat, and its counters.
LEMMA OpenFact ==
  ASSUME MessagesAssumption, ServerOK, ChatOK, Joined, peer # None
  PROVE  /\ peer \in Chats /\ log[peer] \in Nat /\ mark \in 1 .. log[peer]
         /\ offset["up"] \in -1 .. mark /\ offset["up"] # 0 /\ Top \in 1 .. mark
         /\ offset["down"] \in {-1} \cup (mark .. log[peer])
         /\ gone[peer] \subseteq 1 .. log[peer]
<1>1. peer \in Chats /\ log[peer] \in Nat /\ mark \in 1 .. log[peer] /\ gone[peer] \subseteq 1 .. log[peer]
  BY DEF ServerOK, ChatOK, Joined
<1>2. offset["up"] \in Int /\ offset["down"] \in Int
  BY DEF ChatOK, Ways
<1>3. Top \in 1 .. mark
  BY DEF Joined, JoinedAbove
<1>4. offset["up"] \in -1 .. mark /\ offset["up"] # 0
  BY <1>1, <1>2, <1>3 DEF Top
<1>5. offset["down"] \in {-1} \cup (mark .. log[peer])
  BY DEF Joined, JoinedBelow
<1>. QED
  BY <1>1, <1>3, <1>4, <1>5

\* From the mark to a row nothing is missing.
LEMMA ReachFact ==
  ASSUME MessagesAssumption, ServerOK, ChatOK, Joined, peer # None,
         NEW j \in OwnIds, NEW i \in mark .. j
  PROVE  i \in Shown
<1>1. j \in Nat /\ j <= log[peer] /\ log[peer] \in Nat /\ mark \in Nat
  BY OpenFact, OwnIdsFact
<1>2. i \in mark .. log[peer] /\ i <= j
  BY <1>1
<1>3. CASE offset["down"] # -1
  <2>1. /\ offset["down"] \in Int /\ j <= offset["down"]
        /\ \A k \in mark .. offset["down"] - 1 : k \in Shown
    BY <1>3, OpenFact DEF Joined, JoinedBelow
  <2>2. i < offset["down"] \/ i = j
    BY <1>1, <1>2, <2>1
  <2>3. i < offset["down"] => i \in mark .. offset["down"] - 1
    BY <1>1, <2>1
  <2>. QED
    BY <2>1, <2>2, <2>3 DEF Shown
<1>4. CASE offset["down"] = -1
  <2>1. i \in Shown \/ j < i
    BY <1>2, <1>4 DEF Joined, JoinedBelow
  <2>. QED
    BY <1>1, <1>2, <2>1
<1>. QED
  BY <1>3, <1>4

\* What the assumption says of the chats.
LEMMA NoChat ==
  ASSUME MessagesAssumption
  PROVE  None \notin Chats /\ "user" \in Chats
BY DEF MessagesAssumption, None

\* The counters are numbers.
LEMMA CountersFact ==
  ASSUME MessagesAssumption, ServerOK
  PROVE  /\ events \in Nat /\ MaxEvents \in Nat /\ First \in Nat
         /\ unsent["sent"] \in Nat /\ unsent["unclaimed"] \in Nat
         /\ \A c \in Chats : log[c] \in Nat /\ First <= log[c] /\ log[c] <= First + events
         /\ log["user"] + unsent["sent"] + unsent["unclaimed"] <= First + events
         /\ log["user"] \in Nat
BY NoChat DEF MessagesAssumption, ServerOK, Sends

\* The types of the variables, as the run states them.
LEMMA TypeFact ==
  ASSUME MessagesAssumption, ServerOK, ChatOK, Joined
  PROVE  MessagesTypeOK
<1>. DEFINE top == First + MaxEvents
<1>1. /\ First \in Nat /\ MaxEvents \in Nat /\ top \in Nat
      /\ \A c \in Chats : log[c] \in First .. top
  <2>1. /\ First \in Nat /\ MaxEvents \in Nat /\ events \in Nat /\ events <= MaxEvents
        /\ \A c \in Chats : log[c] \in Nat /\ First <= log[c] /\ log[c] <= First + events
    BY CountersFact DEF ServerOK
  <2>. QED
    BY <2>1
<1>2. mark \in 0 .. top /\ \A w \in Ways : offset[w] \in -1 .. top
  <2>1. CASE peer = None
    BY <1>1, <2>1 DEF ChatOK, Neither, Ways
  <2>2. CASE peer # None
    <3>1. /\ log[peer] \in First .. top /\ log[peer] \in Nat /\ mark \in 1 .. log[peer]
          /\ offset["up"] \in -1 .. mark /\ offset["down"] \in {-1} \cup (mark .. log[peer])
      BY <1>1, <2>2, OpenFact
    <3>. HIDE DEF top
    <3>2. mark \in 0 .. top /\ offset["up"] \in -1 .. top /\ offset["down"] \in -1 .. top
      BY <1>1, <3>1
    <3>. QED
      BY <3>2 DEF Ways
  <2>. QED
    BY <2>1, <2>2
<1>3. \A k \in DOMAIN rows : rows[k] \in [chat : Chats, id : 1 .. top]
  <2>1. TAKE k \in DOMAIN rows
  <2>2. rows[k] \in RowType /\ rows[k] \in Range(rows)
    BY DEF ChatOK, Range
  <2>3. rows[k].chat \in Chats /\ rows[k].id \in 1 .. log[rows[k].chat]
    BY <2>2 DEF ChatOK, RowType
  <2>4. rows[k].id \in 1 .. top
    <3>. HIDE DEF top
    <3>1. log[rows[k].chat] \in First .. top
      BY <1>1, <2>3
    <3>. QED
      BY <1>1, <2>3, <3>1
  <2>. QED
    BY <2>2, <2>3, <2>4 DEF RowType
<1>4. offset \in [Ways -> -1 .. top] /\ log \in [Chats -> First .. top]
  BY <1>1, <1>2 DEF ChatOK, ServerOK
<1>5. \A c \in Chats : gone[c] \subseteq 1 .. log[c]
  BY DEF ServerOK
<1>. QED
  BY <1>2, <1>3, <1>4, <1>5 DEF MessagesTypeOK, ChatOK

\* No message is missing between the oldest row and the newest.
LEMMA HoleFact ==
  ASSUME MessagesAssumption, ServerOK, ChatOK, Joined
  PROVE  NoHole
<1>. DEFINE ends == OwnIds \ amiss.late
<1>1. SUFFICES ASSUME ends # {}, NEW i \in Min(ends) .. Max(ends)
               PROVE  i \in Shown
  BY DEF NoHole, Shown
<1>2. peer # None
  BY <1>1, OwnIdsFact
<1>3. ends \subseteq 1 .. log[peer] /\ log[peer] \in Nat /\ mark \in Nat
  BY <1>2, OpenFact, OwnIdsFact
<1>4. ends \in SUBSET Nat /\ ends \in SUBSET (0 .. log[peer])
  BY <1>3
<1>5. Min(ends) \in ends /\ Max(ends) \in ends
  <2>. HIDE DEF ends
  <2>. QED
    BY <1>1, <1>3, <1>4, MinFact, MaxFact
<1>6. Top <= Min(ends) /\ \A k \in Top .. mark - 1 : k \in Shown
  BY <1>2, <1>5 DEF Joined, JoinedAbove
<1>7. Min(ends) \in Nat /\ Max(ends) \in Nat /\ Top \in Nat
  BY <1>2, <1>4, <1>5, OpenFact
<1>. HIDE DEF ends
<1>8. CASE i < mark
  <2>1. i \in Top .. mark - 1
    BY <1>3, <1>6, <1>7, <1>8
  <2>. QED
    BY <1>6, <2>1
<1>9. CASE i >= mark
  <2>1. i \in mark .. Max(ends)
    BY <1>3, <1>7, <1>9
  <2>2. Max(ends) \in OwnIds
    BY <1>5 DEF ends
  <2>. QED
    BY <1>2, <2>1, <2>2, ReachFact
<1>. QED
  BY <1>3, <1>7, <1>8, <1>9

-----------------------------------------------------------------------------
(***************************************************************************)
(* What a step keeps.                                                      *)
(***************************************************************************)
\* The messages of the open chat whose updates are still to come, or that the
\* step has it show: those that were to come, and those that are new.
Expects(S) ==
  /\ \A i \in Announces(queue[peer]) : i \in Announces(queue[peer]') \/ i \in S
  /\ \A i \in log[peer] + 1 .. log[peer]' : i \in Announces(queue[peer]') \/ i \in S

\* The rows stay joined when none is added and what goes is excused.
LEMMA JoinedKept ==
  ASSUME MessagesAssumption, ServerOK, ChatOK, Joined,
         UNCHANGED <<peer, mark, offset>>,
         peer # None => /\ log[peer]' \in Nat /\ log[peer] <= log[peer]'
                        /\ Shown \subseteq Shown' /\ OwnIds' \subseteq OwnIds
                        /\ amiss.late \subseteq amiss'.late
                        /\ offset["down"] = -1 => Expects(Shown')
  PROVE  Joined'
<1>1. SUFFICES ASSUME peer # None
               PROVE  mark \in 1 .. log[peer]' /\ JoinedAbove' /\ JoinedBelow'
  BY DEF Joined
<1>2. /\ peer \in Chats /\ log[peer] \in Nat /\ mark \in 1 .. log[peer]
      /\ offset["down"] \in Int /\ OwnIds \subseteq 1 .. log[peer]
  BY <1>1, OpenFact, OwnIdsFact
<1>3. mark \in 1 .. log[peer]'
  BY <1>1, <1>2
<1>4. JoinedAbove /\ JoinedBelow /\ Top' = Top
  BY <1>1 DEF Joined, Top
<1>5. JoinedAbove'
  BY <1>1, <1>4 DEF JoinedAbove
<1>6. CASE offset["down"] # -1
  <2>1. offset["down"] \in mark .. log[peer]'
    BY <1>1, <1>2, <1>4, <1>6 DEF JoinedBelow
  <2>. QED
    BY <1>1, <1>3, <1>4, <1>5, <1>6, <2>1 DEF JoinedBelow
<1>7. CASE offset["down"] = -1
  <2>1. ASSUME NEW i \in mark .. log[peer]'
        PROVE  i \in Shown' \/ (i \in Announces(queue[peer]') /\ \A j \in OwnIds' : j < i)
    <3>1. CASE i <= log[peer]
      <4>1. i \in mark .. log[peer]
        BY <1>1, <1>2, <2>1, <3>1
      <4>2. i \in Shown \/ (i \in Announces(queue[peer]) /\ \A j \in OwnIds : j < i)
        BY <1>4, <1>7, <4>1 DEF JoinedBelow
      <4>. QED
        BY <1>1, <1>7, <4>2 DEF Expects
    <3>2. CASE i > log[peer]
      <4>1. i \in log[peer] + 1 .. log[peer]' /\ \A j \in OwnIds : j < i
        BY <1>1, <1>2, <2>1, <3>2
      <4>. QED
        BY <1>1, <1>7, <4>1 DEF Expects
    <3>. QED
      BY <1>1, <1>2, <2>1, <3>1, <3>2
  <2>2. JoinedBelow'
    BY <1>7, <2>1 DEF JoinedBelow
  <2>. QED
    BY <1>3, <1>5, <2>2
<1>. QED
  BY <1>6, <1>7

\* A row is added at the end.
LEMMA JoinedAppend ==
  ASSUME MessagesAssumption, ServerOK, ChatOK, QueueOK, Joined,
         peer # None, offset["down"] = -1,
         UNCHANGED <<peer, mark, offset, log>>,
         NEW i, OwnIds' = OwnIds \cup {i}, Shown \cup {i} \subseteq Shown',
         amiss.late \subseteq amiss'.late, i \notin amiss'.late => i > mark,
         i \in Nat,
         \A k \in Announces(queue[peer]) : k = i \/ k \in Announces(queue[peer]'),
         \A k \in Announces(queue[peer]') : i < k
  PROVE  Joined'
<1>1. /\ peer \in Chats /\ log[peer] \in Nat /\ mark \in 1 .. log[peer] /\ Top \in 1 .. mark
      /\ OwnIds \subseteq 1 .. log[peer]
  BY OpenFact, OwnIdsFact
<1>2. JoinedAbove /\ JoinedBelow /\ Top' = Top
  BY DEF Joined, Top
<1>3. JoinedAbove'
  <2>1. i \notin amiss'.late => Top <= i
    BY <1>1
  <2>. QED
    BY <1>2, <2>1 DEF JoinedAbove
<1>4. ASSUME NEW k \in mark .. log[peer]
      PROVE  k \in Shown' \/ (k \in Announces(queue[peer]') /\ \A j \in OwnIds' : j < k)
  BY <1>2, <1>4 DEF JoinedBelow
<1>5. JoinedBelow'
  BY <1>4 DEF JoinedBelow
<1>. QED
  BY <1>1, <1>3, <1>5 DEF Joined

\* Nothing is awaited that was not.
LEMMA AskedKept ==
  ASSUME Asked, peer' = peer, offset' = offset,
         \A r \in requests', w \in Ways : r.id = pending'[w] =>
            r \in requests /\ r.id = pending[w]
  PROVE  Asked'
BY DEF Asked

\* The answers under way fit the chat as they did.
LEMMA ToldKept ==
  ASSUME MessagesAssumption, ServerOK, WireOK, ChatOK, Told,
         peer' = peer, answers' \subseteq answers,
         \A a \in answers', w \in Ways : a.id = pending'[w] =>
            a.id = pending[w] /\ offset'[w] = offset[w],
         peer # None => /\ log[peer]' \in Nat /\ log[peer] <= log[peer]'
                        /\ gone[peer] \subseteq gone[peer]'
                        /\ amiss.overtaken \subseteq amiss'.overtaken,
         \A a \in answers' : a.id = pending["down"] /\ peer # None =>
            Expects(amiss'.overtaken \cup a.ids)
  PROVE  Told'
<1>1. SUFFICES ASSUME NEW a \in answers'
               PROVE  /\ IsFiniteSet(a.ids)
                      /\ \A w \in Ways : a.id = pending'[w] => a.chat = peer /\ offset'[w] # -1
                      /\ a.id = pending'["up"] => PageAbove(a)'
                      /\ a.id = pending'["down"] => PageBelow(a)'
  BY DEF Told
<1>2. /\ a \in answers /\ IsFiniteSet(a.ids)
      /\ \A w \in Ways : a.id = pending[w] => a.chat = peer /\ offset[w] # -1
      /\ a.id = pending["up"] => PageAbove(a)
      /\ a.id = pending["down"] => PageBelow(a)
  BY <1>1 DEF Told
<1>0. peer # None \/ \A w \in Ways : pending[w] # a.id
  <2>1. a.id # 0
    BY <1>2 DEF WireOK, AnswerType
  <2>. QED
    BY <2>1 DEF ChatOK, Neither
<1>3. \A w \in Ways : a.id = pending'[w] => a.id = pending[w] /\ offset'[w] = offset[w]
  BY <1>1
<1>4. \A w \in Ways : a.id = pending'[w] => a.chat = peer /\ offset'[w] # -1
  BY <1>2, <1>3
<1>5. ASSUME a.id = pending'["up"] PROVE PageAbove(a)'
  <2>1. PageAbove(a) /\ offset'["up"] = offset["up"] /\ a.chat = peer
    BY <1>2, <1>3, <1>5 DEF Ways
  <2>2. peer # None
    BY <1>0, <1>2, <1>3, <1>5 DEF Ways
  <2>. QED
    BY <2>1, <2>2 DEF PageAbove
<1>6. ASSUME a.id = pending'["down"] PROVE PageBelow(a)'
  <2>1. PageBelow(a) /\ offset'["down"] = offset["down"] /\ a.id = pending["down"]
    BY <1>2, <1>3, <1>6 DEF Ways
  <2>2. peer # None
    BY <1>0, <2>1 DEF Ways
  <2>3. log[peer] \in Nat /\ offset["down"] \in Int
    BY <2>2 DEF ServerOK, ChatOK, Ways
  <2>. DEFINE lo == offset["down"]
  <2>4. PICK n \in lo .. log[peer] :
          /\ a.ids \subseteq lo .. n
          /\ \A i \in lo .. n :
               \/ i \in a.ids \cup gone[peer]
               \/ Cardinality(a.ids) = Batch /\ \A j \in a.ids : j < i
          /\ \A i \in n + 1 .. log[peer] : i \in Announces(queue[peer]) \cup amiss.overtaken
    BY <2>1 DEF PageBelow
  <2>. HIDE DEF lo
  <2>5. n \in lo .. log[peer]'
    BY <2>2, <2>3, <2>4 DEF lo
  <2>6. ASSUME NEW i \in n + 1 .. log[peer]'
        PROVE  i \in Announces(queue[peer]') \cup amiss'.overtaken
    <3>1. i \notin a.ids
      BY <2>2, <2>3, <2>4, <2>6 DEF lo
    <3>2. i \in n + 1 .. log[peer] \/ i \in log[peer] + 1 .. log[peer]'
      BY <2>2, <2>3, <2>4, <2>6 DEF lo
    <3>3. Expects(amiss'.overtaken \cup a.ids)
      BY <2>1, <2>2
    <3>. QED
      BY <2>2, <2>4, <3>1, <3>2, <3>3 DEF Expects
  <2>7. \A i \in lo .. n : \/ i \in a.ids \cup gone[peer]'
                           \/ Cardinality(a.ids) = Batch /\ \A j \in a.ids : j < i
    BY <2>2, <2>4
  <2>. QED
    BY <2>1, <2>4, <2>5, <2>6, <2>7 DEF PageBelow, lo
<1>. QED
  BY <1>2, <1>4, <1>5, <1>6

\* What is read stays read.
LEMMA ReadKept ==
  ASSUME ReadWasShown, UNCHANGED <<peer, mark, readUpTo>>,
         amiss.strays \subseteq amiss'.strays, Shown \subseteq Shown'
  PROVE  ReadWasShown'
BY DEF ReadWasShown, Shown

-----------------------------------------------------------------------------
(***************************************************************************)
(* Parts that a step leaves alone.                                         *)
(***************************************************************************)
LEMMA ServerSame ==
  ASSUME ServerOK, UNCHANGED <<log, gone, unsent, events>>
  PROVE  ServerOK'
BY DEF ServerOK

\* Nothing is asked or answered.
LEMMA WireSame ==
  ASSUME WireOK, UNCHANGED <<requests, answers>>
  PROVE  WireOK'
BY DEF WireOK

\* Nothing happens at the server and nothing is handed over.
LEMMA QueueSame ==
  ASSUME QueueOK, UNCHANGED <<queue, log, gone>>
  PROVE  QueueOK'
BY DEF QueueOK

\* The queue of one chat changes.
LEMMA QueueChanged ==
  ASSUME QueueOK, NEW c \in Chats, NEW t \in Seq(UpdateType), Fits(c, t, log'[c], gone'[c]),
         queue' = [queue EXCEPT ![c] = t],
         \A d \in Chats \ {c} : log'[d] = log[d] /\ gone'[d] = gone[d]
  PROVE  QueueOK' /\ queue'[c] = t /\ \A d \in Chats \ {c} : queue'[d] = queue[d]
<1>1. /\ queue' \in [Chats -> Seq(UpdateType)] /\ queue'[c] = t
      /\ \A d \in Chats \ {c} : queue'[d] = queue[d]
  BY DEF QueueOK
<1>2. ASSUME NEW d \in Chats PROVE Fits(d, queue'[d], log'[d], gone'[d])
  <2>1. CASE d = c
    BY <1>1, <2>1
  <2>2. CASE d # c
    <3>1. queue'[d] = queue[d] /\ log'[d] = log[d] /\ gone'[d] = gone[d]
      BY <1>1, <2>2
    <3>. QED
      BY <3>1 DEF QueueOK
  <2>. QED
    BY <2>1, <2>2
<1>3. ASSUME NEW d \in Chats PROVE Fits(d, queue[d], log[d], gone[d])'
  BY <1>2 DEF Fits, InOrder, Unbroken, OfSequence, Announces
<1>. QED
  BY <1>1, <1>3 DEF QueueOK

\* Rows remain rows of messages there are.
LEMMA ChatSame ==
  ASSUME ChatOK, ServerOK, \A c \in Chats : log'[c] \in Nat /\ log[c] <= log'[c],
         UNCHANGED <<peer, mark, rows, offset, readUpTo, userId>>,
         pending' \in [Ways -> Nat], peer = None => pending' = pending,
         link' \in BOOLEAN, amiss' \in AmissType
  PROVE  ChatOK'
<1>1. ASSUME NEW x \in Range(rows) PROVE x.id \in 1 .. log'[x.chat]
  <2>0. rows \in Seq(RowType) /\ \A y \in Range(rows) : y.id \in 1 .. log[y.chat]
    BY DEF ChatOK
  <2>1. x \in RowType /\ x.id \in 1 .. log[x.chat]
    BY <2>0, RangeType
  <2>2. x.chat \in Chats /\ log[x.chat] \in Nat
    BY <2>1 DEF RowType, ServerOK
  <2>. QED
    BY <2>1, <2>2
<1>2. \A x \in Range(rows') : x.id \in 1 .. log'[x.chat]
  BY <1>1
<1>. QED
  BY <1>2 DEF ChatOK

\* As many rows, and as much to excuse what is missing.
LEMMA ShownSame ==
  ASSUME UNCHANGED <<peer, rows>>,
         peer # None => gone[peer] \subseteq gone[peer]',
         Excuses \subseteq Excuses'
  PROVE  OwnIds' = OwnIds /\ (peer # None => Shown \subseteq Shown')
BY DEF OwnIds, Shown, Excused, Excuses

\* No row comes and no chat is opened.
LEMMA BelongSame ==
  ASSUME Belong, UNCHANGED <<peer, rows>>, amiss.strays \subseteq amiss'.strays
  PROVE  Belong'
BY DEF Belong

\* The chat is not touched, nor anything it is compared with.
LEMMA ChatStill ==
  ASSUME Joined, Belong, ReadWasShown,
         UNCHANGED <<log, gone, queue, peer, mark, rows, offset, readUpTo>>,
         Excuses' = Excuses, amiss'.late = amiss.late, amiss'.strays = amiss.strays
  PROVE  Joined' /\ Belong' /\ ReadWasShown'
<1>1. OwnIds' = OwnIds /\ Excused' = Excused /\ Shown' = Shown
  BY DEF OwnIds, Excused, Excuses, Shown
<1>2. Joined'
  BY <1>1 DEF Joined, JoinedAbove, JoinedBelow, Top
<1>3. Belong' /\ ReadWasShown'
  BY <1>1 DEF Belong, ReadWasShown
<1>. QED
  BY <1>2, <1>3

-----------------------------------------------------------------------------
(***************************************************************************)
(* Opening a chat.                                                         *)
(***************************************************************************)
LEMMA InitFact ==
  ASSUME MessagesAssumption, Init
  PROVE  MInv
<1>. USE DEF Init
<1>1. First \in Nat /\ MaxEvents \in Nat
  BY DEF MessagesAssumption
<1>2. ServerOK
  BY <1>1 DEF ServerOK, Sends
<1>3. WireOK
  BY FS_EmptySet DEF WireOK
<1>4. Range(rows) = {}
  BY DEF Range
<1>5. Fine \in AmissType
  BY DEF Fine, AmissType
<1>6. ChatOK
  <2>1. rows \in Seq(RowType)
    OBVIOUS
  <2>2. Neither \in [Ways -> Nat] /\ Neither \in [Ways -> Int]
    BY DEF Neither
  <2>3. 0 \in 0 .. First + MaxEvents
    BY <1>1
  <2>. QED
    BY <1>4, <1>5, <2>1, <2>2, <2>3 DEF ChatOK
<1>7. QueueOK
  BY DEF QueueOK, Fits, InOrder, Unbroken, OfSequence, Announces
<1>8. OneEach /\ Asked /\ Told
  BY DEF OneEach, Asked, Told, Neither, Ways
<1>9. Joined /\ Belong /\ ReadWasShown
  BY <1>4 DEF Joined, Belong, ReadWasShown
<1>. QED
  BY <1>2, <1>3, <1>6, <1>7, <1>8, <1>9 DEF MInv

\* Nobody has an answer to the two new requests.
LEMMA SetPeerFact ==
  ASSUME MessagesAssumption, MInv, NEW c \in Chats, NEW m \in 1 .. log[c], SetPeer(c, m),
         UNCHANGED <<log, gone, answers, userId, link>>
  PROVE  WireOK' /\ ChatOK' /\ OneEach' /\ Asked' /\ Told' /\ Joined' /\ Belong' /\ ReadWasShown'
<1>. DEFINE up == NextId
            down == Min(Unused \ {up})
            ru == Request("up", c, m, up)
            rd == Request("down", c, m, down)
<1>1. /\ peer' = c /\ mark' = m /\ rows' = <<>> /\ readUpTo' = 0
      /\ offset' = [w \in Ways |-> m]
      /\ pending' = [w \in Ways |-> IF w = "up" THEN up ELSE down]
      /\ requests' = IF link THEN requests \cup {ru, rd} ELSE requests
      /\ amiss' = [Fine EXCEPT !.severed = ~link]
  BY DEF SetPeer, Ways
<1>2. log[c] \in Nat /\ First \in Nat /\ MaxEvents \in Nat
  BY DEF MInv, ServerOK, MessagesAssumption
<1>3. /\ up \in Nat \ {0} /\ up \notin Used /\ down \in Nat \ {0} /\ down \notin Used /\ down # up
  BY FreshIds DEF MInv
<1>. HIDE DEF up, down
<1>4. /\ ru.id = up /\ ru.way = "up" /\ ru.chat = c /\ ru.offset = m
      /\ rd.id = down /\ rd.way = "down" /\ rd.chat = c /\ rd.offset = m
      /\ ru \in RequestType /\ rd \in RequestType
  BY <1>3 DEF Request, RequestType, Ways
<1>. HIDE DEF ru, rd
<1>5. /\ pending'["up"] = up /\ pending'["down"] = down /\ pending' \in [Ways -> Nat]
      /\ offset'["up"] = m /\ offset'["down"] = m /\ offset' \in [Ways -> Int]
      /\ \A w \in Ways : offset'[w] = m /\ pending'[w] \in {up, down}
  BY <1>1, <1>3 DEF Ways
<1>6. /\ \A r \in requests : r.id # up /\ r.id # down
      /\ \A a \in answers : a.id # up /\ a.id # down
  BY <1>3, UnusedFact
<1>7. requests' \subseteq requests \cup {ru, rd}
  BY <1>1
<1>8. WireOK'
  <2>0. IsFiniteSet((requests \cup {ru}) \cup {rd})
    BY FS_AddElement DEF MInv, WireOK
  <2>1. IsFiniteSet(requests \cup {ru, rd})
    <3>1. requests \cup {ru, rd} = (requests \cup {ru}) \cup {rd}
      OBVIOUS
    <3>. QED
      BY <2>0, <3>1
  <2>2. requests' = requests \cup {ru, rd} \/ requests' = requests
    BY <1>1
  <2>. QED
    BY <1>4, <2>1, <2>2 DEF MInv, WireOK
<1>9. Range(rows') = {} /\ OwnIds' = {}
  <2>1. Range(rows') = {}
    BY <1>1 DEF Range
  <2>2. rows' \in Seq(RowType)
    BY <1>1
  <2>. QED
    BY <2>1, <2>2, OwnIdsNext
<1>10. amiss' \in AmissType /\ amiss'.late = {} /\ amiss'.strays = {}
  BY <1>1 DEF Fine, AmissType, MInv, ChatOK
<1>11. ChatOK'
  <2>1. c # None /\ m \in Nat
    BY NoChat
  <2>2. rows' \in Seq(RowType) /\ readUpTo' \in 0 .. First + MaxEvents
    BY <1>1, <1>2
  <2>3. userId' \in BOOLEAN /\ link' \in BOOLEAN
    BY DEF MInv, ChatOK
  <2>. QED
    BY <1>1, <1>5, <1>9, <1>10, <2>1, <2>2, <2>3 DEF ChatOK
<1>12. OneEach'
  <2>1. OneEach
    BY DEF MInv
  <2>2. \A r, s \in requests' : r.id = s.id => r = s
    BY <1>3, <1>4, <1>6, <1>7, <2>1 DEF OneEach
  <2>3. \A r \in requests', a \in answers' : r.id # a.id
    BY <1>4, <1>6, <1>7, <2>1 DEF OneEach
  <2>. QED
    BY <1>3, <1>5, <2>1, <2>2, <2>3 DEF OneEach
<1>13. Asked'
  <2>1. ASSUME NEW r \in requests', NEW w \in Ways, r.id = pending'[w]
        PROVE  r.way = w /\ r.chat = c /\ r.offset = m
    <3>1. r = ru \/ r = rd
      BY <1>5, <1>6, <1>7, <2>1
    <3>. QED
      BY <1>3, <1>4, <1>5, <2>1, <3>1 DEF Ways
  <2>2. m # -1
    OBVIOUS
  <2>. QED
    BY <1>1, <1>5, <2>1, <2>2 DEF Asked
<1>14. Told'
  BY <1>5, <1>6 DEF Told, MInv, Ways
<1>15. Joined'
  <2>1. /\ Top' = m /\ m \in 1 .. log[c]
        /\ \A i \in m .. m - 1 : FALSE
    BY <1>2, <1>5 DEF Top
  <2>2. JoinedAbove' /\ JoinedBelow'
    BY <1>1, <1>2, <1>5, <1>9, <2>1 DEF JoinedAbove, JoinedBelow
  <2>. QED
    BY <1>1, <2>2 DEF Joined
<1>16. Belong' /\ ReadWasShown'
  <2>1. \A i \in m .. 0 : FALSE
    OBVIOUS
  <2>. QED
    BY <1>1, <1>9, <2>1 DEF Belong, ReadWasShown
<1>. QED
  BY <1>8, <1>11, <1>12, <1>13, <1>14, <1>15, <1>16

\* resetState(): no chat, no row, nothing awaited.
LEMMA ResetStateFact ==
  ASSUME MessagesAssumption, MInv, ResetState,
         UNCHANGED <<log, requests, answers>>, userId' \in BOOLEAN, link' \in BOOLEAN
  PROVE  ChatOK' /\ OneEach' /\ Asked' /\ Told' /\ Joined' /\ Belong' /\ ReadWasShown'
<1>. USE DEF ResetState
<1>1. Range(rows') = {} /\ First \in Nat /\ MaxEvents \in Nat
  BY DEF Range, MessagesAssumption
<1>2. amiss' \in AmissType
  BY DEF Fine, AmissType
<1>3. \A w \in Ways : pending'[w] = 0
  BY DEF Neither
<1>4. Neither \in [Ways -> Nat] /\ Neither \in [Ways -> Int]
  BY DEF Neither
<1>5. ChatOK'
  BY <1>1, <1>2, <1>4 DEF ChatOK
<1>6. /\ \A r \in requests : r.id # 0
      /\ \A a \in answers : a.id # 0
  BY DEF MInv, WireOK, RequestType, AnswerType
<1>7. OneEach'
  BY <1>3 DEF MInv, OneEach, Ways
<1>8. Asked' /\ Told'
  BY <1>3, <1>6 DEF Asked, Told, MInv, Ways
<1>9. Joined' /\ Belong' /\ ReadWasShown'
  BY <1>1 DEF Joined, Belong, ReadWasShown
<1>. QED
  BY <1>5, <1>7, <1>8, <1>9

-----------------------------------------------------------------------------
(***************************************************************************)
(* Pages.                                                                  *)
(***************************************************************************)
LEMMA FetchMoreFact ==
  ASSUME MessagesAssumption, MInv, NEW w \in Ways, FetchMore(w)
  PROVE  MInv'
<1>. DEFINE id == NextId
            n == Request(w, peer, offset[w], id)
<1>1. /\ peer # None /\ pending[w] = 0 /\ offset[w] # -1
      /\ pending' = [pending EXCEPT ![w] = id] /\ requests' = requests \cup {n}
      /\ UNCHANGED <<server, answers, unsent, queue, peer, mark, rows, offset, readUpTo,
                     userId, link, events, amiss>>
  BY DEF FetchMore, CanFetchMore
<1>2. id \in Nat \ {0} /\ id \notin Used
  BY FreshIds DEF MInv
<1>. HIDE DEF id
<1>3. /\ n.id = id /\ n.way = w /\ n.chat = peer /\ n.offset = offset[w]
      /\ n \in RequestType
  BY <1>1, <1>2 DEF Request, RequestType, MInv, ChatOK
<1>. HIDE DEF n
<1>4. /\ \A r \in requests : r.id # id
      /\ \A a \in answers : a.id # id
      /\ \A v \in Ways : pending[v] # id
  BY <1>2, UnusedFact
<1>5. /\ pending' \in [Ways -> Nat] /\ pending'[w] = id
      /\ \A v \in Ways \ {w} : pending'[v] = pending[v]
  BY <1>1, <1>2 DEF MInv, ChatOK
<1>6. ServerOK' /\ QueueOK'
  BY <1>1, ServerSame, QueueSame DEF MInv, server
<1>7. WireOK'
  BY <1>1, <1>3, FS_AddElement DEF MInv, WireOK
<1>8. ChatOK'
  <2>1. \A c \in Chats : log'[c] \in Nat /\ log[c] <= log'[c]
    BY <1>1 DEF MInv, ServerOK, server
  <2>2. link' \in BOOLEAN /\ amiss' \in AmissType
    BY <1>1 DEF MInv, ChatOK
  <2>. QED
    BY <1>1, <1>5, <2>1, <2>2, ChatSame DEF MInv
<1>9. OneEach'
  <2>1. OneEach
    BY DEF MInv
  <2>2. \A r, s \in requests' : r.id = s.id => r = s
    BY <1>1, <1>3, <1>4, <2>1 DEF OneEach
  <2>3. \A r \in requests', a \in answers' : r.id # a.id
    BY <1>1, <1>3, <1>4, <2>1 DEF OneEach
  <2>4. pending'["up"] = pending'["down"] => pending'["up"] = 0
    BY <1>4, <1>5 DEF Ways
  <2>. QED
    BY <1>1, <2>1, <2>2, <2>3, <2>4 DEF OneEach
<1>10. Asked'
  <2>1. ASSUME NEW r \in requests', NEW v \in Ways, r.id = pending'[v]
        PROVE  r.way = v /\ r.chat = peer /\ r.offset = offset[v] /\ offset[v] # -1
    <3>1. CASE v = w
      <4>1. r = n
        BY <1>1, <1>4, <1>5, <2>1, <3>1
      <4>. QED
        BY <1>1, <1>3, <3>1, <4>1
    <3>2. CASE v # w
      <4>1. r \in requests /\ r.id = pending[v]
        BY <1>1, <1>3, <1>4, <1>5, <2>1, <3>2
      <4>. QED
        BY <4>1 DEF MInv, Asked
    <3>. QED
      BY <3>1, <3>2
  <2>. QED
    BY <1>1, <2>1 DEF Asked
<1>11. Told'
  <2>1. \A a \in answers', v \in Ways : a.id = pending'[v] =>
          a.id = pending[v] /\ offset'[v] = offset[v]
    BY <1>1, <1>4, <1>5
  <2>2. peer # None => log[peer] \in Nat
    BY DEF MInv, ServerOK, ChatOK
  <2>3. /\ peer' = peer /\ answers' = answers /\ log' = log /\ gone' = gone
        /\ queue' = queue /\ amiss' = amiss
    BY <1>1 DEF server
  <2>4. peer # None => log[peer]' \in Nat /\ log[peer] <= log[peer]' /\ log[peer]' = log[peer]
    BY <2>2, <2>3
  <2>5. \A a \in answers' : a.id = pending["down"] /\ peer # None =>
          Expects(amiss'.overtaken \cup a.ids)
    BY <2>2, <2>3 DEF Expects
  <2>. QED
    BY <2>1, <2>3, <2>4, <2>5, ToldKept DEF MInv
<1>12. Joined' /\ Belong' /\ ReadWasShown'
  BY <1>1, ChatStill DEF MInv, server, Excuses
<1>. QED
  BY <1>6, <1>7, <1>8, <1>9, <1>10, <1>11, <1>12 DEF MInv

\* A page is an unbroken run of messages.
LEMMA PageFact ==
  ASSUME MessagesAssumption, ServerOK, NEW r \in RequestType
  PROVE  /\ Page(r) \in SUBSET (1 .. log[r.chat]) /\ IsFiniteSet(Page(r))
         /\ r.way = "up" =>
              /\ \A i \in Page(r) : i < r.offset
              /\ \A i \in 1 .. log[r.chat] : i < r.offset =>
                   \/ i \in Page(r) \cup gone[r.chat]
                   \/ Cardinality(Page(r)) = Batch /\ \A j \in Page(r) : i < j
         /\ r.way # "up" =>
              /\ \A i \in Page(r) : i >= r.offset
              /\ \A i \in 1 .. log[r.chat] : i >= r.offset =>
                   \/ i \in Page(r) \cup gone[r.chat]
                   \/ Cardinality(Page(r)) = Batch /\ \A j \in Page(r) : j < i
<1>. DEFINE n == log[r.chat]
            U == {i \in Has(r.chat) : i < r.offset}
            D == {i \in Has(r.chat) : i >= r.offset}
<1>1. n \in Nat /\ Batch \in Nat
  BY DEF ServerOK, RequestType, MessagesAssumption
<1>2. Has(r.chat) = (1 .. n) \ gone[r.chat]
  BY DEF Has
<1>3. IsFiniteSet(1 .. n)
  BY <1>1, FS_Interval
<1>4. /\ U \in SUBSET (1 .. n) /\ IsFiniteSet(U) /\ U \in SUBSET Nat
      /\ D \in SUBSET (1 .. n) /\ IsFiniteSet(D) /\ D \in SUBSET Nat
  <2>1. U \in SUBSET (1 .. n) /\ D \in SUBSET (1 .. n) /\ (1 .. n) \in SUBSET Nat
    BY <1>1, <1>2
  <2>. HIDE DEF U, D, n
  <2>. QED
    BY <1>3, <2>1, FS_Subset
<1>5. /\ r.way = "up" => Page(r) = Newest(U)
      /\ r.way # "up" => Page(r) = Oldest(D)
  BY DEF Page
<1>6. /\ \A i \in U : i < r.offset
      /\ \A i \in D : i >= r.offset
      /\ \A i \in 1 .. n : i < r.offset => i \in U \cup gone[r.chat]
      /\ \A i \in 1 .. n : i >= r.offset => i \in D \cup gone[r.chat]
  BY <1>2
<1>. HIDE DEF U, D, n
<1>7. CASE r.way = "up"
  <2>1. /\ Newest(U) \in SUBSET U /\ IsFiniteSet(Newest(U))
        /\ \A i \in U \ Newest(U) :
             Cardinality(Newest(U)) = Batch /\ \A j \in Newest(U) : i < j
    BY <1>1, <1>4, NewestFact
  <2>. QED
    BY <1>4, <1>5, <1>6, <1>7, <2>1 DEF n
<1>8. CASE r.way # "up"
  <2>1. /\ Oldest(D) \in SUBSET D /\ IsFiniteSet(Oldest(D))
        /\ \A i \in D \ Oldest(D) :
             Cardinality(Oldest(D)) = Batch /\ \A j \in Oldest(D) : j < i
    BY <1>1, <1>4, OldestFact
  <2>. QED
    BY <1>4, <1>5, <1>6, <1>8, <2>1 DEF n
<1>. QED
  BY <1>7, <1>8

\* The server answers with a page that joins what the chat has.
LEMMA AnswerFact ==
  ASSUME MessagesAssumption, MInv, NEW r \in requests, Answer(r)
  PROVE  MInv'
<1>0. PICK n : n = [id |-> r.id, chat |-> r.chat, ids |-> Page(r)]
  OBVIOUS
<1>1. /\ requests' = requests \ {r} /\ answers' = answers \cup {n}
      /\ UNCHANGED <<server, unsent, queue, peer, mark, rows, offset, pending, readUpTo,
                     userId, link, events, amiss>>
  BY <1>0 DEF Answer
<1>2. r \in RequestType
  BY DEF MInv, WireOK
<1>3. /\ n.id = r.id /\ n.chat = r.chat /\ n.ids = Page(r)
  BY <1>0
<1>4. Page(r) \in SUBSET (1 .. log[r.chat]) /\ IsFiniteSet(Page(r)) /\ log[r.chat] \in Nat
  BY <1>2, PageFact DEF MInv, ServerOK, RequestType
<1>5. n \in AnswerType
  BY <1>0, <1>2, <1>4 DEF RequestType, AnswerType
<1>6. ServerOK' /\ QueueOK'
  BY <1>1, ServerSame, QueueSame DEF MInv, server
<1>7. WireOK'
  <2>1. IsFiniteSet(requests \ {r}) /\ IsFiniteSet(answers \cup {n})
    BY FS_RemoveElement, FS_AddElement DEF MInv, WireOK
  <2>. QED
    BY <1>1, <1>5, <2>1 DEF MInv, WireOK
<1>8. ChatOK'
  <2>1. \A c \in Chats : log'[c] \in Nat /\ log[c] <= log'[c]
    BY <1>1 DEF MInv, ServerOK, server
  <2>2. link' \in BOOLEAN /\ amiss' \in AmissType /\ pending' \in [Ways -> Nat]
    BY <1>1 DEF MInv, ChatOK
  <2>. QED
    BY <1>1, <2>1, <2>2, ChatSame DEF MInv
<1>9. OneEach'
  <2>1. OneEach
    BY DEF MInv
  <2>2. \A a, b \in answers' : a.id = b.id => a = b
    BY <1>1, <1>3, <2>1 DEF OneEach
  <2>3. \A s \in requests', a \in answers' : s.id # a.id
    BY <1>1, <1>3, <2>1 DEF OneEach
  <2>. QED
    BY <1>1, <2>1, <2>2, <2>3 DEF OneEach
<1>10. Asked'
  BY <1>1, AskedKept DEF MInv
<1>11. Told'
  <2>0. /\ peer' = peer /\ pending' = pending /\ offset' = offset /\ log' = log
        /\ gone' = gone /\ queue' = queue /\ amiss' = amiss
    BY <1>1 DEF server
  <2>1. ASSUME NEW a \in answers
        PROVE  /\ IsFiniteSet(a.ids)
               /\ \A w \in Ways : a.id = pending[w] => a.chat = peer /\ offset[w] # -1
               /\ a.id = pending["up"] => PageAbove(a)'
               /\ a.id = pending["down"] => PageBelow(a)'
    BY <2>0 DEF MInv, Told, PageAbove, PageBelow
  <2>2. ASSUME NEW w \in Ways, r.id = pending[w]
        PROVE  /\ r.way = w /\ r.chat = peer /\ r.offset = offset[w] /\ offset[w] # -1
               /\ peer # None
    <3>1. r.way = w /\ r.chat = peer /\ r.offset = offset[w] /\ offset[w] # -1
      BY <2>2 DEF MInv, Asked
    <3>. QED
      BY <1>2, <3>1, NoChat DEF RequestType
  <2>3. ASSUME r.id = pending["up"] PROVE PageAbove(n)'
    <3>1. /\ r.way = "up" /\ r.chat = peer /\ r.offset = offset["up"] /\ offset["up"] # -1
          /\ peer # None
      BY <2>2, <2>3 DEF Ways
    <3>2. offset["up"] \in -1 .. mark /\ mark \in 1 .. log[peer] /\ log[peer] \in Nat
      BY <3>1, OpenFact DEF MInv
    <3>3. /\ Page(r) \in SUBSET (1 .. log[peer])
          /\ \A i \in Page(r) : i < offset["up"]
          /\ \A i \in 1 .. log[peer] : i < offset["up"] =>
               \/ i \in Page(r) \cup gone[peer]
               \/ Cardinality(Page(r)) = Batch /\ \A j \in Page(r) : i < j
      BY <1>2, <3>1, PageFact DEF MInv
    <3>4. \A i \in Page(r) : i \in 1 .. offset["up"] - 1
      BY <3>2, <3>3
    <3>5. \A i \in 1 .. offset["up"] - 1 : i \in 1 .. log[peer] /\ i < offset["up"]
      BY <3>2
    <3>. QED
      BY <1>3, <2>0, <3>3, <3>4, <3>5 DEF PageAbove
  <2>4. ASSUME r.id = pending["down"] PROVE PageBelow(n)'
    <3>1. /\ r.way = "down" /\ r.chat = peer /\ r.offset = offset["down"]
          /\ offset["down"] # -1 /\ peer # None
      BY <2>2, <2>4 DEF Ways
    <3>2. offset["down"] \in mark .. log[peer] /\ mark \in 1 .. log[peer] /\ log[peer] \in Nat
      BY <3>1, OpenFact DEF MInv
    <3>3. /\ Page(r) \in SUBSET (1 .. log[peer])
          /\ \A i \in Page(r) : i >= offset["down"]
          /\ \A i \in 1 .. log[peer] : i >= offset["down"] =>
               \/ i \in Page(r) \cup gone[peer]
               \/ Cardinality(Page(r)) = Batch /\ \A j \in Page(r) : j < i
      BY <1>2, <3>1, PageFact DEF MInv
    <3>. DEFINE m == log[peer]
                lo == offset["down"]
    <3>4. m \in lo .. m /\ \A i \in m + 1 .. m : FALSE
      BY <3>2
    <3>5. Page(r) \subseteq lo .. m
      BY <3>2, <3>3
    <3>6. \A i \in lo .. m : i \in 1 .. log[peer] /\ i >= lo
      BY <3>2
    <3>7. \A i \in lo .. m : \/ i \in Page(r) \cup gone[peer]
                             \/ Cardinality(Page(r)) = Batch /\ \A j \in Page(r) : j < i
      BY <3>3, <3>6
    <3>8. log'[peer'] = m /\ offset'["down"] = lo
      BY <2>0
    <3>. HIDE DEF m, lo
    <3>. QED
      BY <1>3, <2>0, <3>4, <3>5, <3>7, <3>8 DEF PageBelow
  <2>5. ASSUME NEW a \in answers'
        PROVE  /\ IsFiniteSet(a.ids)
               /\ \A w \in Ways : a.id = pending[w] => a.chat = peer /\ offset[w] # -1
               /\ a.id = pending["up"] => PageAbove(a)'
               /\ a.id = pending["down"] => PageBelow(a)'
    <3>1. CASE a = n
      BY <1>3, <1>4, <2>2, <2>3, <2>4, <3>1
    <3>2. CASE a # n
      <4>1. a \in answers
        BY <1>1, <3>2
      <4>. QED
        BY <2>1, <4>1
    <3>. QED
      BY <3>1, <3>2
  <2>. QED
    BY <2>0, <2>5 DEF Told
<1>12. Joined' /\ Belong' /\ ReadWasShown'
  BY <1>1, ChatStill DEF MInv, server, Excuses
<1>. QED
  BY <1>6, <1>7, <1>8, <1>9, <1>10, <1>11, <1>12 DEF MInv

\* One answer less under way, and one request less awaited.
LEMMA AnsweredFact ==
  ASSUME MessagesAssumption, MInv, NEW a \in answers, NEW w \in Ways,
         answers' = answers \ {a}, pending' = [pending EXCEPT ![w] = 0],
         UNCHANGED <<requests, log, gone, queue, peer, amiss>>,
         \A v \in Ways \ {w} : offset'[v] = offset[v]
  PROVE  WireOK' /\ OneEach' /\ Asked' /\ Told'
<1>1. /\ \A r \in requests : r.id # 0
      /\ \A b \in answers : b.id # 0
  BY DEF MInv, WireOK, RequestType, AnswerType
<1>2. pending'[w] = 0 /\ \A v \in Ways \ {w} : pending'[v] = pending[v]
  BY DEF MInv, ChatOK
<1>3. WireOK'
  <2>1. IsFiniteSet(answers \ {a})
    BY FS_RemoveElement DEF MInv, WireOK
  <2>. QED
    BY <2>1 DEF MInv, WireOK
<1>4. OneEach'
  BY <1>2 DEF MInv, OneEach, Ways
<1>5. \A r \in requests, v \in Ways : r.id = pending'[v] => v # w /\ r.id = pending[v]
  BY <1>1, <1>2
<1>6. Asked'
  BY <1>5 DEF MInv, Asked
<1>7. \A b \in answers', v \in Ways : b.id = pending'[v] =>
        b.id = pending[v] /\ offset'[v] = offset[v]
  BY <1>1, <1>2
<1>8. peer # None => log[peer] \in Nat
  BY DEF MInv, ServerOK, ChatOK
<1>9. Told'
  <2>1. peer # None => log[peer]' \in Nat /\ log[peer] <= log[peer]' /\ log[peer]' = log[peer]
    BY <1>8
  <2>2. \A b \in answers' : b.id = pending["down"] /\ peer # None =>
          Expects(amiss'.overtaken \cup b.ids)
    BY <1>8 DEF Expects
  <2>. QED
    BY <1>7, <2>1, <2>2, ToldKept DEF MInv
<1>. QED
  BY <1>3, <1>4, <1>6, <1>9

\* The messages of an answer become rows.
LEMMA PageRowsFact ==
  ASSUME ServerOK, ChatOK, Belong, NEW a, peer # None, a.chat = peer,
         a.ids \subseteq 1 .. log[peer], IsFiniteSet(a.ids),
         UNCHANGED <<log, gone, peer, amiss>>,
         \/ a.ids = {} /\ rows' = rows
         \/ rows' = rows \o NewRows(a)
         \/ rows' = NewRows(a) \o rows
  PROVE  /\ rows' \in Seq(RowType) /\ \A x \in Range(rows') : x.id \in 1 .. log'[x.chat]
         /\ OwnIds' = OwnIds \cup a.ids /\ Shown' = Shown \cup a.ids
         /\ Belong'
<1>. DEFINE q == NewRows(a)
<1>1. peer \in Chats /\ log[peer] \in Nat /\ a.ids \in SUBSET Nat
  BY DEF ServerOK, ChatOK
<1>2. q \in Seq(RowType) /\ \A x : x \in Range(q) <=> \E i \in a.ids : x = Row(peer, i)
  BY <1>1, NewRowsFact
<1>. HIDE DEF q
<1>3. rows \in Seq(RowType)
  BY DEF ChatOK
<1>4. rows' \in Seq(RowType) /\ Range(rows') = Range(rows) \cup {Row(peer, i) : i \in a.ids}
  <2>1. Range(q) = {Row(peer, i) : i \in a.ids}
    BY <1>2
  <2>2. CASE a.ids = {} /\ rows' = rows
    BY <1>3, <2>2
  <2>3. CASE rows' = rows \o q
    BY <1>2, <1>3, <2>1, <2>3, RangeConcat
  <2>4. CASE rows' = q \o rows
    <3>1. q \o rows \in Seq(RowType) /\ Range(q \o rows) = Range(q) \cup Range(rows)
      BY <1>2, <1>3, RangeConcat
    <3>. QED
      BY <2>1, <2>4, <3>1
  <2>. QED
    BY <2>2, <2>3, <2>4 DEF q
<1>5. \A i : Row(peer, i).chat = peer /\ Row(peer, i).id = i
  BY DEF Row
<1>6. \A x \in Range(rows') : x \in Range(rows) \/ (x.chat = peer /\ x.id \in a.ids)
  BY <1>4, <1>5
<1>7. \A x \in Range(rows') : x.id \in 1 .. log'[x.chat]
  BY <1>6 DEF ChatOK
<1>8. \A i : i \in OwnIds' <=> \E x \in Range(rows') : x.chat = peer /\ x.id = i
  BY <1>4, OwnIdsNext
<1>9. \A i : i \in OwnIds <=> \E x \in Range(rows) : x.chat = peer /\ x.id = i
  BY OwnIdsFact
<1>10. \A i \in a.ids : i \in OwnIds'
  BY <1>4, <1>5, <1>8
<1>11. \A i : i \in OwnIds' <=> i \in OwnIds \/ i \in a.ids
  BY <1>4, <1>6, <1>8, <1>9, <1>10
<1>12. OwnIds' = OwnIds \cup a.ids
  BY <1>11
<1>13. Shown' = Shown \cup a.ids
  BY <1>12 DEF Shown, Excused, Excuses
<1>14. Belong'
  BY <1>6 DEF Belong
<1>. QED
  BY <1>4, <1>7, <1>12, <1>13, <1>14

\* handleHistoryResponse(): the page joins below.
LEMMA DownFact ==
  ASSUME MessagesAssumption, MInv, NEW a \in answers, a.id = pending["down"],
         answers' = answers \ {a}, HandleHistoryResponse(a), pending' = Answered("down"),
         UNCHANGED <<server, requests, unsent, queue, peer, mark, readUpTo, userId, link,
                     events, amiss>>
  PROVE  MInv'
<1>. DEFINE lo == offset["down"]
            S == a.ids
<1>1. /\ a \in AnswerType /\ IsFiniteSet(S) /\ a.chat = peer /\ lo # -1 /\ PageBelow(a)
      /\ peer # None
  BY NoChat DEF MInv, WireOK, Told, AnswerType, Ways
<1>2. /\ log[peer] \in Nat /\ mark \in 1 .. log[peer] /\ lo \in mark .. log[peer]
      /\ Top \in 1 .. mark /\ OwnIds \subseteq 1 .. log[peer]
  BY <1>1, OpenFact, OwnIdsFact DEF MInv
<1>3. /\ \A i \in mark .. lo - 1 : i \in Shown
      /\ \A i \in OwnIds : i <= lo
      /\ JoinedAbove
  BY <1>1 DEF MInv, Joined, JoinedBelow
<1>4. PICK n \in lo .. log[peer] :
        /\ S \subseteq lo .. n
        /\ \A i \in lo .. n : \/ i \in S \cup gone[peer]
                              \/ Cardinality(S) = Batch /\ \A j \in S : j < i
        /\ \A i \in n + 1 .. log[peer] : i \in Announces(queue[peer]) \cup amiss.overtaken
  BY <1>1 DEF PageBelow
<1>5. S \subseteq 1 .. log[peer] /\ \A i \in S : i \in Nat /\ lo <= i /\ i <= n
  BY <1>2, <1>4
<1>6. /\ offset' \in [Ways -> Int] /\ offset'["up"] = offset["up"] /\ offset'["down"] \in Int
      /\ \A v \in Ways \ {"down"} : offset'[v] = offset[v]
      /\ S = {} => offset'["down"] = -1 /\ rows' = rows
      /\ S # {} => offset'["down"] = NextOffset(lo, Max(S), S) /\ rows' = rows \o NewRows(a)
  <2>1. offset \in [Ways -> Int]
    BY DEF MInv, ChatOK
  <2>2. S # {} => Max(S) \in Int
    <3>1. S \in SUBSET (0 .. log[peer]) /\ \A i \in S : i \in Int
      BY <1>2, <1>5
    <3>. HIDE DEF S
    <3>2. S # {} => Max(S) \in S
      BY <1>2, <3>1, MaxFact
    <3>. QED
      BY <3>1, <3>2
  <2>3. S # {} => NextOffset(lo, Max(S), S) \in Int
    BY <2>2 DEF NextOffset
  <2>. QED
    BY <2>1, <2>3 DEF HandleHistoryResponse, Ways
<1>7. /\ rows' \in Seq(RowType) /\ \A x \in Range(rows') : x.id \in 1 .. log'[x.chat]
      /\ OwnIds' = OwnIds \cup S /\ Shown' = Shown \cup S /\ Belong'
  <2>1. \/ a.ids = {} /\ rows' = rows
        \/ rows' = rows \o NewRows(a)
    BY <1>6
  <2>. QED
    BY <1>1, <1>5, <2>1, PageRowsFact DEF MInv, server
<1>8. ServerOK' /\ QueueOK'
  BY ServerSame, QueueSame DEF MInv, server
<1>9. WireOK' /\ OneEach' /\ Asked' /\ Told'
  BY <1>6, AnsweredFact DEF Answered, Ways, server
<1>10. ChatOK'
  <2>1. pending' \in [Ways -> Nat]
    BY DEF MInv, ChatOK, Answered
  <2>. QED
    BY <1>1, <1>6, <1>7, <2>1 DEF MInv, ChatOK
<1>11. JoinedAbove'
  <2>1. Top' = Top
    BY <1>6 DEF Top
  <2>2. \A i \in S : Top <= i
    BY <1>2, <1>5
  <2>. QED
    BY <1>3, <1>7, <2>1, <2>2 DEF JoinedAbove
<1>12. JoinedBelow'
  <2>1. CASE S # {} /\ offset'["down"] # -1
    <3>. DEFINE m == Max(S)
    <3>1. m \in S /\ \A j \in S : j <= m
      <4>1. S \in SUBSET (0 .. log[peer])
        BY <1>2, <1>5
      <4>. HIDE DEF S
      <4>. QED
        BY <1>2, <2>1, <4>1, MaxFact
    <3>. HIDE DEF m
    <3>2. offset'["down"] = m /\ lo # m /\ Cardinality(S) = Batch
      BY <1>6, <2>1 DEF NextOffset, m
    <3>3. m \in mark .. log[peer] /\ lo <= m /\ m <= n /\ m \in Nat
      BY <1>2, <1>4, <1>5, <3>1
    <3>4. ASSUME NEW i \in mark .. m - 1 PROVE i \in Shown'
      <4>1. CASE i < lo
        <5>1. i \in mark .. lo - 1
          BY <1>2, <3>3, <3>4, <4>1
        <5>. QED
          BY <1>3, <1>7, <5>1
      <4>2. CASE i >= lo
        <5>1. i \in lo .. n /\ i < m
          BY <1>2, <1>4, <3>3, <3>4, <4>2
        <5>2. i \in S \cup gone[peer]
          BY <1>4, <3>1, <3>3, <5>1
        <5>. QED
          BY <1>7, <5>2 DEF Shown, Excused, Excuses
      <4>. QED
        BY <1>2, <3>4, <4>1, <4>2
    <3>5. ASSUME NEW i \in OwnIds' PROVE i <= m
      <4>1. i \in OwnIds \/ i \in S
        BY <1>7, <3>5
      <4>2. ASSUME i \in OwnIds PROVE i <= m
        <5>1. i \in Int /\ i <= lo /\ lo \in Int
          BY <1>2, <1>3, <4>2
        <5>. QED
          BY <3>3, <5>1
      <4>. QED
        BY <3>1, <4>1, <4>2
    <3>. QED
      BY <2>1, <3>2, <3>3, <3>4, <3>5 DEF JoinedBelow, server
  <2>2. CASE S = {} \/ offset'["down"] = -1
    <3>1. offset'["down"] = -1
      BY <1>6, <2>2
    <3>2. S = {} \/ Cardinality(S) # Batch \/ lo = Max(S)
      <4>1. ASSUME S # {} PROVE Max(S) # -1
        <5>1. S \in SUBSET (0 .. log[peer])
          BY <1>2, <1>5
        <5>2. Max(S) \in S
          <6>. HIDE DEF S
          <6>. QED
            BY <1>2, <4>1, <5>1, MaxFact
        <5>. QED
          BY <1>5, <5>2
      <4>. QED
        BY <1>6, <3>1, <4>1 DEF NextOffset
    <3>3. ASSUME NEW i \in lo .. n PROVE i \in Shown'
      <4>1. CASE S = {}
        <5>1. Cardinality(S) # Batch
          BY <4>1, FS_EmptySet DEF MessagesAssumption
        <5>. QED
          BY <1>4, <1>7, <3>3, <5>1 DEF Shown, Excused, Excuses
      <4>2. CASE Cardinality(S) # Batch
        BY <1>4, <1>7, <3>3, <4>2 DEF Shown, Excused, Excuses
      <4>3. CASE S # {} /\ lo = Max(S)
        <5>1. S \in SUBSET (0 .. log[peer])
          BY <1>2, <1>5
        <5>2. lo \in S /\ \A j \in S : j <= lo
          <6>. HIDE DEF S
          <6>. QED
            BY <1>2, <4>3, <5>1, MaxFact
        <5>3. S = {lo}
          BY <1>2, <1>5, <5>2
        <5>4. Cardinality(S) = 1
          <6>. HIDE DEF S
          <6>. QED
            BY <5>3, FS_Singleton
        <5>5. Cardinality(S) # Batch
          BY <5>4 DEF MessagesAssumption
        <5>. QED
          BY <1>4, <1>7, <3>3, <5>5 DEF Shown, Excused, Excuses
      <4>. QED
        BY <3>2, <4>1, <4>2, <4>3
    <3>4. ASSUME NEW i \in mark .. log[peer]
          PROVE  i \in Shown' \/ (i \in Announces(queue[peer]) /\ \A j \in OwnIds' : j < i)
      <4>1. CASE i < lo
        <5>1. i \in mark .. lo - 1
          BY <1>2, <3>4, <4>1
        <5>. QED
          BY <1>3, <1>7, <5>1
      <4>2. CASE i \in lo .. n
        BY <3>3, <4>2
      <4>3. CASE i > n
        <5>1. i \in n + 1 .. log[peer]
          BY <1>2, <1>4, <3>4, <4>3
        <5>2. i \in Announces(queue[peer]) \/ i \in amiss.overtaken
          BY <1>4, <5>1
        <5>3. \A j \in OwnIds \cup S : j <= n
          BY <1>2, <1>3, <1>4, <1>5
        <5>4. \A j \in OwnIds' : j < i
          BY <1>2, <1>4, <1>5, <1>7, <4>3, <5>3
        <5>. QED
          BY <1>7, <5>2, <5>4 DEF Shown, Excused, Excuses
      <4>. QED
        BY <1>2, <1>4, <3>4, <4>1, <4>2, <4>3
    <3>. QED
      BY <3>1, <3>4 DEF JoinedBelow, server
  <2>. QED
    BY <2>1, <2>2
<1>13. Joined' /\ ReadWasShown'
  <2>1. ReadWasShown'
    BY <1>7, ReadKept DEF MInv
  <2>. QED
    BY <1>2, <1>11, <1>12, <2>1 DEF Joined, server
<1>. QED
  BY <1>7, <1>8, <1>9, <1>10, <1>13 DEF MInv

\* handleHistoryResponseUpwards(): the page joins above.
LEMMA UpFact ==
  ASSUME MessagesAssumption, MInv, NEW a \in answers, a.id = pending["up"],
         answers' = answers \ {a}, HandleHistoryResponseUpwards(a), pending' = Answered("up"),
         UNCHANGED <<server, requests, unsent, queue, peer, mark, readUpTo, userId, link,
                     events, amiss>>
  PROVE  MInv'
<1>. DEFINE hi == offset["up"]
            S == a.ids
<1>1. /\ a \in AnswerType /\ IsFiniteSet(S) /\ a.chat = peer /\ hi # -1 /\ PageAbove(a)
      /\ peer # None
  BY NoChat DEF MInv, WireOK, Told, AnswerType, Ways
<1>2. /\ log[peer] \in Nat /\ mark \in 1 .. log[peer] /\ hi \in 1 .. mark
      /\ OwnIds \subseteq 1 .. log[peer]
  <2>1. /\ log[peer] \in Nat /\ mark \in 1 .. log[peer] /\ Top \in 1 .. mark
        /\ OwnIds \subseteq 1 .. log[peer]
    BY <1>1, OpenFact, OwnIdsFact DEF MInv
  <2>. QED
    BY <1>1, <2>1 DEF Top
<1>3. /\ \A i \in hi .. mark - 1 : i \in Shown
      /\ \A i \in OwnIds \ amiss.late : hi <= i
      /\ JoinedBelow
  BY <1>1 DEF MInv, Joined, JoinedAbove, Top
<1>4. /\ \A i \in S : i \in 1 .. hi - 1
      /\ \A i \in 1 .. hi - 1 : \/ i \in S \cup gone[peer]
                                \/ Cardinality(S) = Batch /\ \A j \in S : i < j
  BY <1>1 DEF PageAbove
<1>5. S \subseteq 1 .. log[peer] /\ \A i \in S : i \in Nat /\ i >= 1 /\ i < hi /\ i < mark
  BY <1>2, <1>4
<1>6. S # {} => Min(S) \in S /\ (\A j \in S : Min(S) <= j) /\ Min(S) \in Nat
  <2>1. S \in SUBSET Nat
    BY <1>5
  <2>. HIDE DEF S
  <2>. QED
    BY <2>1, MinFact
<1>7. /\ offset' \in [Ways -> Int] /\ offset'["down"] = offset["down"] /\ offset'["up"] \in Int
      /\ \A v \in Ways \ {"up"} : offset'[v] = offset[v]
      /\ S = {} => offset'["up"] = -1 /\ rows' = rows
      /\ S # {} => offset'["up"] = NextOffset(hi, Min(S), S) /\ rows' = NewRows(a) \o rows
  <2>1. offset \in [Ways -> Int]
    BY DEF MInv, ChatOK
  <2>2. S # {} => NextOffset(hi, Min(S), S) \in Int
    BY <1>6 DEF NextOffset
  <2>. QED
    BY <2>1, <2>2 DEF HandleHistoryResponseUpwards, Ways
<1>8. /\ rows' \in Seq(RowType) /\ \A x \in Range(rows') : x.id \in 1 .. log'[x.chat]
      /\ OwnIds' = OwnIds \cup S /\ Shown' = Shown \cup S /\ Belong'
  <2>1. \/ a.ids = {} /\ rows' = rows
        \/ rows' = NewRows(a) \o rows
    BY <1>7
  <2>. QED
    BY <1>1, <1>5, <2>1, PageRowsFact DEF MInv, server
<1>9. ServerOK' /\ QueueOK'
  BY ServerSame, QueueSame DEF MInv, server
<1>10. WireOK' /\ OneEach' /\ Asked' /\ Told'
  BY <1>7, AnsweredFact DEF Answered, Ways, server
<1>11. ChatOK'
  <2>1. pending' \in [Ways -> Nat]
    BY DEF MInv, ChatOK, Answered
  <2>. QED
    BY <1>1, <1>7, <1>8, <2>1 DEF MInv, ChatOK
<1>12. JoinedAbove'
  <2>1. CASE S # {} /\ offset'["up"] # -1
    <3>. DEFINE m == Min(S)
    <3>1. offset'["up"] = m /\ m \in S /\ (\A j \in S : m <= j) /\ m \in Nat
      BY <1>6, <1>7, <2>1 DEF NextOffset
    <3>. HIDE DEF m
    <3>2. Top' = m /\ m \in 1 .. mark /\ m < hi
      BY <1>2, <1>5, <2>1, <3>1 DEF Top
    <3>3. ASSUME NEW i \in m .. mark - 1 PROVE i \in Shown'
      <4>1. CASE i >= hi
        <5>1. i \in hi .. mark - 1
          BY <1>2, <3>1, <3>3, <4>1
        <5>. QED
          BY <1>3, <1>8, <5>1
      <4>2. CASE i < hi
        <5>1. i \in 1 .. hi - 1 /\ ~(i < m)
          BY <1>2, <3>1, <3>2, <3>3, <4>2
        <5>2. i \in S \cup gone[peer]
          BY <1>4, <3>1, <5>1
        <5>. QED
          BY <1>8, <5>2 DEF Shown, Excused, Excuses
      <4>. QED
        BY <1>2, <3>1, <3>3, <4>1, <4>2
    <3>4. ASSUME NEW i \in OwnIds' \ amiss.late PROVE m <= i
      <4>1. i \in OwnIds \/ i \in S
        BY <1>8, <3>4
      <4>2. ASSUME i \in OwnIds PROVE m <= i
        <5>1. i \in Int /\ hi <= i /\ hi \in Int
          BY <1>2, <1>3, <3>4, <4>2
        <5>. QED
          BY <3>1, <3>2, <5>1
      <4>. QED
        BY <3>1, <4>1, <4>2
    <3>. QED
      BY <3>2, <3>3, <3>4 DEF JoinedAbove
  <2>2. CASE S = {} \/ offset'["up"] = -1
    <3>1. offset'["up"] = -1 /\ Top' = 1
      BY <1>7, <2>2 DEF Top
    <3>2. S = {} \/ Cardinality(S) # Batch
      <4>1. ASSUME S # {} PROVE hi # Min(S) /\ Min(S) # -1
        BY <1>2, <1>5, <1>6, <4>1
      <4>. QED
        BY <1>7, <3>1, <4>1 DEF NextOffset
    <3>3. Cardinality(S) # Batch
      <4>1. ASSUME S = {} PROVE Cardinality(S) # Batch
        BY <4>1, FS_EmptySet DEF MessagesAssumption
      <4>. QED
        BY <3>2, <4>1
    <3>4. ASSUME NEW i \in 1 .. mark - 1 PROVE i \in Shown'
      <4>1. CASE i >= hi
        <5>1. i \in hi .. mark - 1
          BY <1>2, <3>4, <4>1
        <5>. QED
          BY <1>3, <1>8, <5>1
      <4>2. CASE i < hi
        <5>1. i \in 1 .. hi - 1
          BY <1>2, <3>4, <4>2
        <5>2. i \in S \cup gone[peer]
          BY <1>4, <3>3, <5>1
        <5>. QED
          BY <1>8, <5>2 DEF Shown, Excused, Excuses
      <4>. QED
        BY <1>2, <3>4, <4>1, <4>2
    <3>5. \A i \in OwnIds' : 1 <= i
      BY <1>2, <1>5, <1>8
    <3>6. 1 \in 1 .. mark
      BY <1>2
    <3>. QED
      BY <3>1, <3>4, <3>5, <3>6 DEF JoinedAbove
  <2>. QED
    BY <2>1, <2>2
<1>13. JoinedBelow'
  <2>1. CASE offset["down"] # -1
    <3>1. /\ offset["down"] \in mark .. log[peer]
          /\ \A i \in mark .. offset["down"] - 1 : i \in Shown
          /\ \A i \in OwnIds : i <= offset["down"]
      BY <1>3, <2>1 DEF JoinedBelow
    <3>2. \A i \in S : i <= offset["down"]
      BY <1>2, <1>5, <3>1
    <3>. QED
      BY <1>7, <1>8, <2>1, <3>1, <3>2 DEF JoinedBelow, server
  <2>2. CASE offset["down"] = -1
    <3>1. \A i \in mark .. log[peer] :
            i \in Shown \/ (i \in Announces(queue[peer]) /\ \A j \in OwnIds : j < i)
      BY <1>3, <2>2 DEF JoinedBelow
    <3>2. \A i \in mark .. log[peer] : \A j \in S : j < i
      BY <1>2, <1>5
    <3>. QED
      BY <1>7, <1>8, <2>2, <3>1, <3>2 DEF JoinedBelow, server
  <2>. QED
    BY <2>1, <2>2
<1>14. Joined' /\ ReadWasShown'
  <2>1. ReadWasShown'
    BY <1>8, ReadKept DEF MInv
  <2>. QED
    BY <1>2, <1>12, <1>13, <2>1 DEF Joined, server
<1>. QED
  BY <1>8, <1>9, <1>10, <1>11, <1>14 DEF MInv

\* An answer to nobody's question changes nothing.
LEMMA DroppedFact ==
  ASSUME MessagesAssumption, MInv, answers' \subseteq answers, requests' \subseteq requests,
         UNCHANGED <<log, gone, queue, peer, mark, rows, offset, pending,
                     readUpTo, userId>>,
         link' \in BOOLEAN, amiss' = [amiss EXCEPT !.severed = amiss'.severed],
         amiss'.severed \in BOOLEAN
  PROVE  /\ WireOK' /\ ChatOK' /\ QueueOK' /\ OneEach' /\ Asked' /\ Told'
         /\ Joined' /\ Belong' /\ ReadWasShown'
<1>1. /\ amiss' \in AmissType /\ amiss'.overtaken = amiss.overtaken
      /\ Excuses' = Excuses
      /\ amiss'.late = amiss.late /\ amiss'.strays = amiss.strays
  <2>. DEFINE b == amiss'.severed
  <2>1. amiss \in AmissType /\ b \in BOOLEAN /\ amiss' = [amiss EXCEPT !.severed = b]
    BY DEF MInv, ChatOK
  <2>. HIDE DEF b
  <2>. QED
    BY <2>1 DEF AmissType, Excuses
<1>2. WireOK'
  BY FS_Subset DEF MInv, WireOK
<1>3. QueueOK'
  BY QueueSame DEF MInv
<1>4. ChatOK'
  <2>1. \A c \in Chats : log'[c] \in Nat /\ log[c] <= log'[c]
    BY DEF MInv, ServerOK
  <2>2. pending' \in [Ways -> Nat]
    BY DEF MInv, ChatOK
  <2>. QED
    BY <1>1, <2>1, <2>2, ChatSame DEF MInv
<1>5. OneEach' /\ Asked'
  BY DEF MInv, OneEach, Asked
<1>6. Told'
  <2>1. peer # None => log[peer] \in Nat
    BY DEF MInv, ServerOK, ChatOK
  <2>2. peer # None => log[peer]' \in Nat /\ log[peer] <= log[peer]' /\ log[peer]' = log[peer]
    BY <2>1
  <2>3. \A b \in answers' : b.id = pending["down"] /\ peer # None =>
          Expects(amiss'.overtaken \cup b.ids)
    BY <1>1, <2>1 DEF Expects
  <2>. QED
    BY <1>1, <2>2, <2>3, ToldKept DEF MInv
<1>7. Joined' /\ Belong' /\ ReadWasShown'
  BY <1>1, ChatStill DEF MInv
<1>. QED
  BY <1>2, <1>3, <1>4, <1>5, <1>6, <1>7

\* messagesGetHistoryResponse(): one of the three.
LEMMA ResponseFact ==
  ASSUME MessagesAssumption, MInv, NEW a \in answers, MessagesGetHistoryResponse(a)
  PROVE  MInv'
<1>1. /\ answers' = answers \ {a}
      /\ UNCHANGED <<server, requests, unsent, queue, peer, mark, readUpTo, userId, link,
                     events, amiss>>
  BY DEF MessagesGetHistoryResponse
<1>2. CASE a.id = pending["down"] /\ HandleHistoryResponse(a) /\ pending' = Answered("down")
  BY <1>1, <1>2, DownFact
<1>3. CASE a.id = pending["up"] /\ HandleHistoryResponseUpwards(a) /\ pending' = Answered("up")
  BY <1>1, <1>3, UpFact
<1>4. CASE UNCHANGED <<rows, offset, pending>>
  <2>1. ServerOK'
    BY <1>1, ServerSame DEF MInv, server
  <2>2. /\ link' \in BOOLEAN /\ amiss'.severed \in BOOLEAN
        /\ amiss' = [amiss EXCEPT !.severed = amiss'.severed]
    BY <1>1 DEF MInv, ChatOK, AmissType
  <2>. QED
    BY <1>1, <1>4, <2>1, <2>2, DroppedFact DEF MInv, server
<1>. QED
  BY <1>2, <1>3, <1>4 DEF MessagesGetHistoryResponse

-----------------------------------------------------------------------------
(***************************************************************************)
(* Other steps that leave the chat's rows alone.                           *)
(***************************************************************************)
\* The counters, one event later.
LEMMA EventFact ==
  ASSUME MessagesAssumption, ServerOK, events < MaxEvents, events' = events + 1,
         UNCHANGED server, unsent' \in [Sends -> Nat],
         unsent'["sent"] + unsent'["unclaimed"] <= unsent["sent"] + unsent["unclaimed"] + 1
  PROVE  ServerOK'
<1>1. /\ events \in Nat /\ MaxEvents \in Nat /\ First \in Nat /\ log["user"] \in Nat
      /\ unsent["sent"] \in Nat /\ unsent["unclaimed"] \in Nat
      /\ \A c \in Chats : log[c] \in Nat /\ log[c] <= First + events
      /\ log["user"] + unsent["sent"] + unsent["unclaimed"] <= First + events
  BY CountersFact
<1>2. /\ unsent'["sent"] \in Nat /\ unsent'["unclaimed"] \in Nat
  BY DEF Sends
<1>3. /\ log["user"] + unsent'["sent"] + unsent'["unclaimed"] <= First + events'
      /\ events' \in 0 .. MaxEvents /\ \A c \in Chats : log[c] <= First + events'
  BY <1>1, <1>2
<1>. QED
  BY <1>3 DEF ServerOK, server

\* A message is sent.
LEMMA SendMessageFact ==
  ASSUME MessagesAssumption, MInv, SendMessage
  PROVE  MInv'
<1>1. unsent \in [Sends -> Nat]
  BY DEF MInv, ServerOK
<1>2. /\ unsent' \in [Sends -> Nat] /\ unsent'["unclaimed"] = unsent["unclaimed"]
      /\ unsent'["sent"] = unsent["sent"] + 1
  BY <1>1 DEF SendMessage, Sends
<1>3. unsent["sent"] \in Nat /\ unsent["unclaimed"] \in Nat
  BY <1>1 DEF Sends
<1>4. unsent'["sent"] + unsent'["unclaimed"] <= unsent["sent"] + unsent["unclaimed"] + 1
  BY <1>2, <1>3
<1>5. ServerOK'
  BY <1>2, <1>4, EventFact DEF SendMessage, MInv
<1>6. /\ link' \in BOOLEAN /\ amiss'.severed \in BOOLEAN
      /\ amiss' = [amiss EXCEPT !.severed = amiss'.severed]
  BY DEF MInv, ChatOK, AmissType, SendMessage
<1>. QED
  BY <1>5, <1>6, DroppedFact DEF MInv, SendMessage, server

\* The transport changes the id of a sent message.
LEMMA RenamedSendFact ==
  ASSUME MessagesAssumption, MInv, RenamedSend
  PROVE  MInv'
<1>1. unsent \in [Sends -> Nat] /\ unsent["sent"] > 0
  BY DEF MInv, ServerOK, RenamedSend
<1>2. unsent["sent"] \in Nat /\ unsent["unclaimed"] \in Nat
  BY <1>1 DEF Sends
<1>3. /\ unsent' \in [Sends -> Nat] /\ unsent'["unclaimed"] = unsent["unclaimed"] + 1
      /\ unsent'["sent"] = unsent["sent"] - 1
  BY <1>1, <1>2 DEF RenamedSend, Sends
<1>4. unsent'["sent"] + unsent'["unclaimed"] <= unsent["sent"] + unsent["unclaimed"] + 1
  BY <1>2, <1>3
<1>5. ServerOK'
  BY <1>3, <1>4, EventFact DEF RenamedSend, MInv
<1>6. /\ link' \in BOOLEAN /\ amiss'.severed \in BOOLEAN
      /\ amiss' = [amiss EXCEPT !.severed = amiss'.severed]
  BY DEF MInv, ChatOK, AmissType, RenamedSend
<1>. QED
  BY <1>5, <1>6, DroppedFact DEF MInv, RenamedSend, server

\* A request that is refused, or renamed, is severed from who awaits it.
LEMMA SeveredFact ==
  ASSUME MInv, NEW S, amiss' = [amiss EXCEPT !.severed = @ \/ Awaited(S)]
  PROVE  /\ amiss' = [amiss EXCEPT !.severed = amiss'.severed]
         /\ amiss'.severed \in BOOLEAN
<1>. DEFINE b == amiss.severed \/ Awaited(S)
<1>1. amiss \in AmissType
  BY DEF MInv, ChatOK
<1>2. amiss' = [amiss EXCEPT !.severed = b] /\ b \in BOOLEAN
  OBVIOUS
<1>. HIDE DEF b
<1>. QED
  BY <1>1, <1>2 DEF AmissType, Excuses

\* A request is refused: nobody answers it.
LEMMA RefusedFact ==
  ASSUME MessagesAssumption, MInv, NEW r \in requests, Refused(r)
  PROVE  MInv'
<1>1. unsent \in [Sends -> Nat]
  BY DEF MInv, ServerOK
<1>2. unsent' = unsent /\ unsent["sent"] \in Nat /\ unsent["unclaimed"] \in Nat
  BY <1>1 DEF Refused, Sends
<1>3. unsent'["sent"] + unsent'["unclaimed"] <= unsent["sent"] + unsent["unclaimed"] + 1
  BY <1>2
<1>4. ServerOK'
  BY <1>1, <1>2, <1>3, EventFact DEF Refused, MInv
<1>5. /\ link' \in BOOLEAN /\ amiss'.severed \in BOOLEAN
      /\ amiss' = [amiss EXCEPT !.severed = amiss'.severed]
  BY SeveredFact DEF MInv, ChatOK, Refused
<1>. QED
  BY <1>4, <1>5, DroppedFact DEF MInv, Refused, server

\* A request is sent again under an id that nobody awaits.
LEMMA RenamedFact ==
  ASSUME MessagesAssumption, MInv, NEW r \in requests, Renamed(r)
  PROVE  MInv'
<1>0. PICK n : n = [r EXCEPT !.id = NextId]
  OBVIOUS
<1>1. NextId \in Nat \ {0} /\ NextId \notin Used
  BY FreshIds DEF MInv
<1>2. r \in RequestType
  BY DEF MInv, WireOK
<1>3. n \in RequestType /\ n.id = NextId
  BY <1>0, <1>1, <1>2 DEF RequestType
<1>4. requests' = (requests \ {r}) \cup {n}
  BY <1>0 DEF Renamed
<1>5. /\ \A s \in requests : s.id # n.id
      /\ \A a \in answers : a.id # n.id
      /\ \A w \in Ways : pending[w] # n.id
  BY <1>1, <1>3, UnusedFact
<1>6. ServerOK'
  <2>1. unsent \in [Sends -> Nat]
    BY DEF MInv, ServerOK
  <2>2. unsent' = unsent /\ unsent["sent"] \in Nat /\ unsent["unclaimed"] \in Nat
    BY <2>1 DEF Renamed, Sends
  <2>3. unsent'["sent"] + unsent'["unclaimed"] <= unsent["sent"] + unsent["unclaimed"] + 1
    BY <2>2
  <2>. QED
    BY <2>1, <2>2, <2>3, EventFact DEF Renamed, MInv
<1>7. /\ link' \in BOOLEAN /\ amiss'.severed \in BOOLEAN
      /\ amiss' = [amiss EXCEPT !.severed = amiss'.severed]
  BY SeveredFact DEF MInv, ChatOK, Renamed
<1>8. /\ amiss' \in AmissType /\ amiss'.overtaken = amiss.overtaken
      /\ Excuses' = Excuses
      /\ amiss'.late = amiss.late /\ amiss'.strays = amiss.strays
  <2>. DEFINE b == amiss'.severed
  <2>1. amiss \in AmissType /\ b \in BOOLEAN /\ amiss' = [amiss EXCEPT !.severed = b]
    BY <1>7 DEF MInv, ChatOK
  <2>. HIDE DEF b
  <2>. QED
    BY <2>1 DEF AmissType, Excuses
<1>9. /\ UNCHANGED <<log, gone, answers, queue, peer, mark, rows, offset, pending, readUpTo,
                     userId, link>>
  BY DEF Renamed, server
<1>10. WireOK'
  <2>1. IsFiniteSet((requests \ {r}) \cup {n})
    BY FS_RemoveElement, FS_AddElement DEF MInv, WireOK
  <2>. QED
    BY <1>3, <1>4, <1>9, <2>1 DEF MInv, WireOK
<1>11. ChatOK'
  <2>1. \A c \in Chats : log'[c] \in Nat /\ log[c] <= log'[c]
    BY <1>9 DEF MInv, ServerOK
  <2>2. pending' \in [Ways -> Nat]
    BY <1>9 DEF MInv, ChatOK
  <2>. QED
    BY <1>7, <1>8, <1>9, <2>1, <2>2, ChatSame DEF MInv
<1>12. QueueOK'
  BY <1>9, QueueSame DEF MInv
<1>13. OneEach' /\ Asked'
  <2>1. OneEach'
    BY <1>4, <1>5, <1>9 DEF MInv, OneEach
  <2>2. Asked'
    BY <1>4, <1>5, <1>9 DEF MInv, Asked
  <2>. QED
    BY <2>1, <2>2
<1>14. Told'
  BY <1>8, <1>9 DEF MInv, Told, PageAbove, PageBelow
<1>15. Joined' /\ Belong' /\ ReadWasShown'
  BY <1>8, <1>9, ChatStill DEF MInv
<1>. QED
  BY <1>6, <1>10, <1>11, <1>12, <1>13, <1>14, <1>15 DEF MInv

\* markRead(): the last row is the open chat's, or a stray.
LEMMA MarkReadFact ==
  ASSUME MessagesAssumption, MInv, MarkRead
  PROVE  MInv'
<1>. DEFINE x == Last(rows)
<1>1. /\ rows # <<>> /\ readUpTo' = x.id
      /\ UNCHANGED <<server, wire, queue, peer, mark, rows, offset, pending, userId, link,
                     events, amiss>>
  BY DEF MarkRead
<1>2. rows \in Seq(RowType) /\ peer # None
  BY <1>1 DEF MInv, ChatOK
<1>3. x \in Range(rows)
  <2>1. Len(rows) \in DOMAIN rows /\ x = rows[Len(rows)]
    BY <1>1, <1>2 DEF Last
  <2>. QED
    BY <2>1 DEF Range
<1>4. x \in RowType /\ x.id \in 1 .. log[x.chat]
  BY <1>2, <1>3, RangeType DEF MInv, ChatOK
<1>. HIDE DEF x
<1>5. x.id \in 0 .. First + MaxEvents
  <2>1. MessagesTypeOK
    BY TypeFact DEF MInv
  <2>2. x.chat \in Chats /\ log[x.chat] \in First .. First + MaxEvents
    BY <1>4, <2>1 DEF MessagesTypeOK, RowType
  <2>. QED
    BY <1>4, <2>2 DEF MessagesAssumption
<1>6. ServerOK' /\ WireOK' /\ QueueOK'
  BY <1>1, ServerSame, WireSame, QueueSame DEF MInv, server, wire
<1>7. ChatOK'
  BY <1>1, <1>5 DEF MInv, ChatOK, server
<1>8. OneEach' /\ Asked' /\ Told'
  <2>1. OneEach' /\ Asked'
    BY <1>1 DEF MInv, OneEach, Asked, wire
  <2>2. Told'
    BY <1>1 DEF MInv, Told, PageAbove, PageBelow, wire, server
  <2>. QED
    BY <2>1, <2>2
<1>9. OwnIds' = OwnIds /\ Shown' = Shown
  BY <1>1 DEF OwnIds, Shown, Excused, Excuses, server
<1>10. Joined' /\ Belong'
  BY <1>1, <1>9 DEF MInv, Joined, JoinedAbove, JoinedBelow, Top, Belong, server
<1>11. ReadWasShown'
  <2>1. SUFFICES ASSUME amiss.strays = {}, NEW i \in mark .. x.id
                 PROVE  i \in Shown
    BY <1>1, <1>9 DEF ReadWasShown, Shown
  <2>2. x.chat = peer
    BY <1>3, <2>1 DEF MInv, Belong
  <2>3. x.id \in OwnIds
    BY <1>3, <2>2, OwnIdsFact DEF MInv
  <2>. QED
    BY <1>2, <2>1, <2>3, ReachFact DEF MInv
<1>. QED
  BY <1>6, <1>7, <1>8, <1>10, <1>11 DEF MInv

-----------------------------------------------------------------------------
(***************************************************************************)
(* A chat is opened, reloaded or closed.                                   *)
(***************************************************************************)
LEMMA OpenDialogFact ==
  ASSUME MessagesAssumption, MInv, NEW c \in Chats, OpenDialog(c)
  PROVE  MInv'
<1>1. PICK m \in 1 .. log[c] : SetPeer(c, m)
  BY DEF OpenDialog
<1>2. UNCHANGED <<log, gone, answers, unsent, queue, userId, link>>
  BY DEF OpenDialog, server
<1>3. /\ WireOK' /\ ChatOK' /\ OneEach' /\ Asked' /\ Told' /\ Joined' /\ Belong'
      /\ ReadWasShown'
  BY <1>1, <1>2, SetPeerFact
<1>4. QueueOK'
  BY <1>2, QueueSame DEF MInv
<1>5. ServerOK'
  <2>1. /\ events \in Nat /\ MaxEvents \in Nat /\ First \in Nat /\ log["user"] \in Nat
        /\ unsent["sent"] \in Nat /\ unsent["unclaimed"] \in Nat
        /\ \A d \in Chats : log[d] \in Nat /\ log[d] <= First + events
        /\ log["user"] + unsent["sent"] + unsent["unclaimed"] <= First + events
    BY CountersFact DEF MInv
  <2>2. events + 2 <= MaxEvents /\ events' = events + 2
    BY DEF OpenDialog
  <2>3. /\ log["user"] + unsent["sent"] + unsent["unclaimed"] <= First + events'
        /\ events' \in 0 .. MaxEvents /\ \A d \in Chats : log[d] <= First + events'
    BY <2>1, <2>2
  <2>. QED
    BY <1>2, <2>3 DEF MInv, ServerOK
<1>. QED
  BY <1>3, <1>4, <1>5 DEF MInv

\* authorized() closes the chat, the first time, or leaves it.
LEMMA AuthorizedFact ==
  ASSUME MessagesAssumption, MInv, Authorized
  PROVE  MInv'
<1>1. /\ link' = TRUE /\ userId' = TRUE
      /\ UNCHANGED <<log, gone, requests, answers, unsent, queue, events>>
  BY DEF Authorized, server, wire
<1>2. ServerOK' /\ WireOK' /\ QueueOK'
  BY <1>1, ServerSame, WireSame, QueueSame DEF MInv
<1>3. CASE userId
  <2>1. UNCHANGED <<peer, mark, rows, offset, pending, readUpTo, amiss>> /\ userId' = userId
    BY <1>1, <1>3 DEF Authorized
  <2>2. /\ link' \in BOOLEAN /\ amiss'.severed \in BOOLEAN
        /\ amiss' = [amiss EXCEPT !.severed = amiss'.severed]
    BY <1>1, <2>1 DEF MInv, ChatOK, AmissType
  <2>. QED
    BY <1>1, <1>2, <2>1, <2>2, DroppedFact DEF MInv
<1>4. CASE ~userId
  <2>1. ResetState
    BY <1>4 DEF Authorized
  <2>. QED
    BY <1>1, <1>2, <2>1, ResetStateFact DEF MInv
<1>. QED
  BY <1>3, <1>4

\* A lost connection takes requests and answers with it, and no update.
LEMMA DisconnectedFact ==
  ASSUME MessagesAssumption, MInv, Disconnected
  PROVE  MInv'
<1>. DEFINE t(q) == [k \in DOMAIN q |-> IF q[k].kind \in Sends THEN Update("new", q[k].id) ELSE q[k]]
<1>1. /\ events < MaxEvents /\ events' = events + 1 /\ link' = FALSE
      /\ requests' = {} /\ answers' \subseteq answers /\ unsent' = [k \in Sends |-> 0]
      /\ queue' = [queue EXCEPT !["user"] = t(@)]
      /\ amiss' = [amiss EXCEPT !.severed = @ \/ Awaited(requests \cup (answers \ answers'))]
      /\ UNCHANGED server /\ UNCHANGED <<log, gone, peer, mark, rows, offset, pending, readUpTo, userId>>
  BY DEF Disconnected, server
<1>2. ServerOK'
  <2>1. unsent \in [Sends -> Nat]
    BY DEF MInv, ServerOK
  <2>2. /\ unsent' \in [Sends -> Nat] /\ unsent'["sent"] = 0 /\ unsent'["unclaimed"] = 0
        /\ unsent["sent"] \in Nat /\ unsent["unclaimed"] \in Nat
    BY <1>1, <2>1 DEF Sends
  <2>3. unsent'["sent"] + unsent'["unclaimed"] <= unsent["sent"] + unsent["unclaimed"] + 1
    BY <2>2
  <2>. QED
    BY <1>1, <2>2, <2>3, EventFact DEF MInv
<1>3. WireOK'
  BY <1>1, FS_EmptySet, FS_Subset DEF MInv, WireOK
<1>4. /\ amiss' \in AmissType /\ amiss'.overtaken = amiss.overtaken
      /\ Excuses' = Excuses
      /\ amiss'.late = amiss.late /\ amiss'.strays = amiss.strays
  <2>. DEFINE b == amiss'.severed
  <2>1. amiss \in AmissType /\ b \in BOOLEAN /\ amiss' = [amiss EXCEPT !.severed = b]
    BY <1>1, SeveredFact DEF MInv, ChatOK
  <2>. HIDE DEF b
  <2>. QED
    BY <2>1 DEF AmissType, Excuses
<1>5. ChatOK'
  <2>1. \A c \in Chats : log'[c] \in Nat /\ log[c] <= log'[c]
    BY <1>1 DEF MInv, ServerOK
  <2>2. pending' \in [Ways -> Nat] /\ link' \in BOOLEAN
    BY <1>1 DEF MInv, ChatOK
  <2>. QED
    BY <1>1, <1>4, <2>1, <2>2, ChatSame DEF MInv
<1>6. queue \in [Chats -> Seq(UpdateType)] /\ "user" \in Chats
  BY NoChat DEF MInv, QueueOK
<1>7. /\ t(queue["user"]) \in Seq(UpdateType)
      /\ Fits("user", t(queue["user"]), log["user"], gone["user"])
      /\ Announces(t(queue["user"])) = Announces(queue["user"])
  <2>1. /\ queue["user"] \in Seq(UpdateType)
        /\ Fits("user", queue["user"], log["user"], gone["user"])
    BY <1>6 DEF MInv, QueueOK
  <2>. QED
    BY <2>1, DemotedFact
<1>. HIDE DEF t
<1>8. queue' = [queue EXCEPT !["user"] = t(queue["user"])]
  BY <1>1
<1>9. /\ QueueOK' /\ queue'["user"] = t(queue["user"])
      /\ \A d \in Chats \ {"user"} : queue'[d] = queue[d]
  BY <1>1, <1>6, <1>7, <1>8, QueueChanged DEF MInv
<1>10. \A c \in Chats : Announces(queue'[c]) = Announces(queue[c])
  BY <1>7, <1>9
<1>11. OneEach' /\ Asked' /\ Told'
  <2>1. OneEach'
    BY <1>1 DEF MInv, OneEach
  <2>2. Asked'
    BY <1>1 DEF Asked
  <2>3. peer # None => peer \in Chats /\ log[peer] \in Nat
    BY DEF MInv, ServerOK, ChatOK
  <2>4. peer # None => /\ log[peer]' \in Nat /\ log[peer] <= log[peer]' /\ log[peer]' = log[peer]
                       /\ Announces(queue[peer]') = Announces(queue[peer])
    BY <1>1, <1>10, <2>3
  <2>5. \A b \in answers' : b.id = pending["down"] /\ peer # None =>
          Expects(amiss'.overtaken \cup b.ids)
    BY <2>3, <2>4 DEF Expects
  <2>6. Told'
    BY <1>1, <1>4, <2>4, <2>5, ToldKept DEF MInv
  <2>. QED
    BY <2>1, <2>2, <2>6
<1>12. OwnIds' = OwnIds /\ Shown' = Shown
  BY <1>1, <1>4 DEF OwnIds, Shown, Excused, Excuses
<1>13. Joined'
  <2>1. peer # None => peer \in Chats /\ log[peer] \in Nat
    BY DEF MInv, ServerOK, ChatOK
  <2>2. peer # None => log[peer]' \in Nat /\ log[peer] <= log[peer]' /\ log[peer]' = log[peer]
    BY <1>1, <2>1
  <2>3. peer # None => Announces(queue[peer]') = Announces(queue[peer])
    BY <1>1, <1>10, <2>1
  <2>4. peer # None => Expects(Shown')
    BY <2>1, <2>2, <2>3 DEF Expects
  <2>. QED
    BY <1>1, <1>4, <1>12, <2>2, <2>4, JoinedKept DEF MInv
<1>14. Belong' /\ ReadWasShown'
  BY <1>1, <1>4, <1>12, BelongSame, ReadKept DEF MInv
<1>. QED
  BY <1>2, <1>3, <1>5, <1>9, <1>11, <1>13, <1>14 DEF MInv

-----------------------------------------------------------------------------
(***************************************************************************)
(* What happens at the server is told by an update.                        *)
(***************************************************************************)
\* The step of c's sequence that u is about.
Announced(c, u) ==
  /\ u \in UpdateType /\ u.id \in 1 .. log'[c]
  /\ u.kind \in Sends => c = "user"
  /\ log' \in [Chats -> Nat] /\ gone' \in [Chats -> SUBSET Nat]
  /\ \A d \in Chats : log[d] <= log'[d] /\ gone[d] \subseteq gone'[d]
  /\ \A d \in Chats \ {c} : log'[d] = log[d] /\ gone'[d] = gone[d]
  /\ \/ u.kind = "delete" /\ u.id \in gone'[c] /\ log'[c] = log[c]
     \/ u.kind # "delete" /\ u.id = log[c] + 1 /\ log'[c] = log[c] + 1
  /\ queue' = [queue EXCEPT ![c] = Append(@, u)]

\* What it does to the chat: there is an update more to come.
LEMMA AnnouncedFact ==
  ASSUME MessagesAssumption, MInv, NEW c \in Chats, NEW u, Announced(c, u),
         UNCHANGED <<requests, answers, peer, mark, rows, offset, pending, readUpTo,
                     userId, link, amiss>>
  PROVE  /\ WireOK' /\ ChatOK' /\ QueueOK' /\ OneEach' /\ Asked' /\ Told'
         /\ Joined' /\ Belong' /\ ReadWasShown'
<1>1. /\ u \in UpdateType /\ u.id \in 1 .. log'[c] /\ (u.kind \in Sends => c = "user")
      /\ \A d \in Chats : /\ log[d] \in Nat /\ log'[d] \in Nat /\ log[d] <= log'[d]
                          /\ gone[d] \subseteq gone'[d]
      /\ \A d \in Chats \ {c} : log'[d] = log[d] /\ gone'[d] = gone[d]
      /\ \/ u.kind = "delete" /\ u.id \in gone'[c] /\ log'[c] = log[c]
         \/ u.kind # "delete" /\ u.id = log[c] + 1 /\ log'[c] = log[c] + 1
  BY DEF Announced, MInv, ServerOK
<1>2. queue \in [Chats -> Seq(UpdateType)] /\ queue[c] \in Seq(UpdateType)
  BY DEF MInv, QueueOK
<1>3. Fits(c, queue[c], log[c], gone[c])
  BY DEF MInv, QueueOK
<1>. DEFINE t == Append(queue[c], u)
<1>4. Joins(c, u, queue[c], log[c], log'[c], gone[c], gone'[c])
  BY <1>1, <1>2, <1>3 DEF Joins
<1>5. /\ t \in Seq(UpdateType) /\ Fits(c, t, log'[c], gone'[c])
      /\ Announces(queue[c]) \subseteq Announces(t)
      /\ u.kind # "delete" => u.id \in Announces(t)
  <2>1. HasJoined(c, u, queue[c], t, log'[c], gone'[c])
    BY <1>4, AppendFact
  <2>. HIDE DEF t
  <2>. QED
    BY <2>1 DEF HasJoined
<1>6. queue' = [queue EXCEPT ![c] = t]
  BY DEF Announced
<1>. HIDE DEF t
<1>7. QueueOK' /\ queue'[c] = t /\ \A d \in Chats \ {c} : queue'[d] = queue[d]
  BY <1>1, <1>5, <1>6, QueueChanged DEF MInv
<1>8. WireOK' /\ OneEach' /\ Asked'
  BY DEF MInv, WireOK, OneEach, Asked
<1>9. ChatOK'
  <2>1. link' \in BOOLEAN /\ amiss' \in AmissType /\ pending' \in [Ways -> Nat]
    BY DEF MInv, ChatOK
  <2>. QED
    BY <1>1, <2>1, ChatSame DEF MInv
<1>10. peer # None => /\ peer \in Chats /\ log[peer]' \in Nat /\ log[peer] <= log[peer]'
                      /\ gone[peer] \subseteq gone[peer]'
  BY <1>1 DEF MInv, ChatOK
<1>11. \A S : peer # None => Expects(S)
  <2>1. ASSUME NEW S, peer # None PROVE Expects(S)
    <3>1. CASE peer = c
      <4>1. queue[peer]' = t /\ log[peer]' = log'[c]
        BY <1>7, <3>1
      <4>2. ASSUME NEW i \in log[c] + 1 .. log'[c] PROVE i \in Announces(t)
        <5>1. u.kind # "delete" /\ i = u.id
          BY <1>1, <4>2
        <5>. QED
          BY <1>5, <5>1
      <4>. QED
        BY <1>5, <3>1, <4>1, <4>2 DEF Expects
    <3>2. CASE peer # c
      <4>1. queue[peer]' = queue[peer] /\ log[peer]' = log[peer] /\ log[peer] \in Nat
        BY <1>1, <1>7, <1>10, <2>1, <3>2
      <4>. QED
        BY <4>1 DEF Expects
    <3>. QED
      BY <3>1, <3>2
  <2>. QED
    BY <2>1
<1>12. Told'
  <2>1. \A b \in answers' : b.id = pending["down"] /\ peer # None =>
          Expects(amiss'.overtaken \cup b.ids)
    BY <1>11
  <2>. QED
    BY <1>10, <2>1, ToldKept DEF MInv
<1>13. OwnIds' = OwnIds /\ (peer # None => Shown \subseteq Shown')
  BY <1>10, ShownSame DEF Excuses
<1>14. Joined'
  <2>1. peer # None => Expects(Shown')
    BY <1>11
  <2>. QED
    BY <1>10, <1>13, <2>1, JoinedKept DEF MInv
<1>15. Belong' /\ ReadWasShown'
  <2>1. Belong'
    BY BelongSame DEF MInv
  <2>2. ReadWasShown'
    <3>1. CASE peer = None
      BY <3>1 DEF ReadWasShown
    <3>2. CASE peer # None
      BY <1>13, <3>2, ReadKept DEF MInv
    <3>. QED
      BY <3>1, <3>2
  <2>. QED
    BY <2>1, <2>2
<1>. QED
  BY <1>7, <1>8, <1>9, <1>12, <1>14, <1>15

\* A new message of a chat.
LEMMA NewLogFact ==
  ASSUME MInv, NEW c \in Chats, NEW k \in {"new"} \cup Sends, k \in Sends => c = "user",
         log' = [log EXCEPT ![c] = @ + 1], gone' = gone,
         queue' = [queue EXCEPT ![c] = Append(@, Update(k, log[c] + 1))]
  PROVE  Announced(c, Update(k, log[c] + 1))
<1>. DEFINE u == Update(k, log[c] + 1)
<1>1. log \in [Chats -> Nat] /\ gone \in [Chats -> SUBSET Nat]
  BY DEF MInv, ServerOK
<1>2. /\ log' \in [Chats -> Nat] /\ log'[c] = log[c] + 1 /\ log[c] \in Nat
      /\ \A d \in Chats \ {c} : log'[d] = log[d] /\ log[d] \in Nat
  BY <1>1
<1>3. u.id = log[c] + 1 /\ u.kind = k /\ u \in UpdateType /\ k # "delete"
  BY <1>2 DEF Update, UpdateType, Sends
<1>4. queue' = [queue EXCEPT ![c] = Append(@, u)]
  OBVIOUS
<1>. HIDE DEF u
<1>5. \A d \in Chats : log[d] <= log'[d]
  BY <1>2
<1>6. u.id \in 1 .. log'[c]
  BY <1>2, <1>3
<1>7. Announced(c, u)
  BY <1>1, <1>2, <1>3, <1>4, <1>5, <1>6 DEF Announced
<1>. QED
  BY <1>7 DEF u

\* A message of somebody's.
LEMMA PublishFact ==
  ASSUME MessagesAssumption, MInv, NEW c \in Chats, Publish(c)
  PROVE  MInv'
<1>1. /\ events < MaxEvents /\ events' = events + 1
      /\ log' = [log EXCEPT ![c] = @ + 1] /\ gone' = gone /\ unsent' = unsent
      /\ queue' = [queue EXCEPT ![c] = Append(@, Update("new", log[c] + 1))]
      /\ UNCHANGED <<requests, answers, peer, mark, rows, offset, pending, readUpTo,
                     userId, link, amiss>>
  BY DEF Publish, wire
<1>2. Announced(c, Update("new", log[c] + 1))
  BY <1>1, NewLogFact DEF Sends
<1>3. /\ WireOK' /\ ChatOK' /\ QueueOK' /\ OneEach' /\ Asked' /\ Told'
      /\ Joined' /\ Belong' /\ ReadWasShown'
  BY <1>1, <1>2, AnnouncedFact
<1>4. ServerOK'
  <2>1. /\ log \in [Chats -> Nat] /\ unsent \in [Sends -> Nat] /\ gone \in [Chats -> SUBSET Nat]
        /\ \A d \in Chats : gone[d] \subseteq 1 .. log[d]
    BY DEF MInv, ServerOK
  <2>2. /\ events \in Nat /\ MaxEvents \in Nat /\ First \in Nat /\ log["user"] \in Nat
        /\ unsent["sent"] \in Nat /\ unsent["unclaimed"] \in Nat
        /\ \A d \in Chats : log[d] \in Nat /\ First <= log[d] /\ log[d] <= First + events
        /\ log["user"] + unsent["sent"] + unsent["unclaimed"] <= First + events
    BY CountersFact DEF MInv
  <2>3. log' \in [Chats -> Nat] /\ \A d \in Chats : log'[d] = log[d] \/ log'[d] = log[d] + 1
    BY <1>1, <2>1
  <2>4. ASSUME NEW d \in Chats
        PROVE  First <= log'[d] /\ log'[d] <= First + events' /\ gone'[d] \subseteq 1 .. log'[d]
    <3>1. log[d] \in Nat /\ log'[d] \in Nat /\ log[d] <= log'[d]
      BY <2>1, <2>3
    <3>2. /\ 1 .. log[d] \subseteq 1 .. log'[d] /\ First <= log'[d]
          /\ log'[d] <= First + events'
      BY <1>1, <2>2, <2>3, <3>1
    <3>. QED
      BY <1>1, <2>1, <3>2
  <2>5. log'["user"] = log["user"] \/ log'["user"] = log["user"] + 1
    BY <2>3, NoChat
  <2>6. log'["user"] + unsent["sent"] + unsent["unclaimed"] <= First + events'
    BY <1>1, <2>1, <2>2, <2>5
  <2>7. events' \in 0 .. MaxEvents
    BY <1>1, <2>2
  <2>. QED
    BY <1>1, <2>1, <2>3, <2>4, <2>6, <2>7 DEF ServerOK
<1>. QED
  BY <1>3, <1>4 DEF MInv

\* A message sent from here.
LEMMA TakeFact ==
  ASSUME MessagesAssumption, MInv, NEW k \in Sends, Take(k)
  PROVE  MInv'
<1>1. /\ unsent[k] > 0 /\ unsent' = [unsent EXCEPT ![k] = @ - 1]
      /\ log' = [log EXCEPT !["user"] = @ + 1] /\ gone' = gone /\ events' = events
      /\ queue' = [queue EXCEPT !["user"] = Append(@, Update(k, log["user"] + 1))]
      /\ UNCHANGED <<requests, answers, peer, mark, rows, offset, pending, readUpTo,
                     userId, link, amiss>>
  BY DEF Take
<1>2. Announced("user", Update(k, log["user"] + 1))
  BY <1>1, NewLogFact, NoChat
<1>3. /\ WireOK' /\ ChatOK' /\ QueueOK' /\ OneEach' /\ Asked' /\ Told'
      /\ Joined' /\ Belong' /\ ReadWasShown'
  BY <1>1, <1>2, AnnouncedFact, NoChat
<1>4. ServerOK'
  <2>1. /\ log \in [Chats -> Nat] /\ unsent \in [Sends -> Nat] /\ gone \in [Chats -> SUBSET Nat]
        /\ events \in 0 .. MaxEvents /\ \A d \in Chats : gone[d] \subseteq 1 .. log[d]
    BY DEF MInv, ServerOK
  <2>2. /\ events \in Nat /\ First \in Nat /\ log["user"] \in Nat
        /\ unsent["sent"] \in Nat /\ unsent["unclaimed"] \in Nat
        /\ \A d \in Chats : log[d] \in Nat /\ First <= log[d] /\ log[d] <= First + events
        /\ log["user"] + unsent["sent"] + unsent["unclaimed"] <= First + events
    BY CountersFact DEF MInv
  <2>3. /\ log' \in [Chats -> Nat] /\ log'["user"] = log["user"] + 1
        /\ \A d \in Chats \ {"user"} : log'[d] = log[d]
    BY <1>1, <2>1, <2>2, NoChat
  <2>4. /\ unsent' \in [Sends -> Nat]
        /\ unsent'["sent"] + unsent'["unclaimed"] = unsent["sent"] + unsent["unclaimed"] - 1
    <3>1. CASE k = "sent"
      BY <1>1, <2>1, <2>2, <3>1 DEF Sends
    <3>2. CASE k = "unclaimed"
      BY <1>1, <2>1, <2>2, <3>2 DEF Sends
    <3>. QED
      BY <3>1, <3>2 DEF Sends
  <2>5. unsent'["sent"] \in Nat /\ unsent'["unclaimed"] \in Nat
    BY <2>4 DEF Sends
  <2>6. /\ log'["user"] + unsent'["sent"] + unsent'["unclaimed"] <= First + events
        /\ log'["user"] <= First + events
    BY <2>1, <2>2, <2>3, <2>4, <2>5
  <2>7. ASSUME NEW d \in Chats
        PROVE  First <= log'[d] /\ log'[d] <= First + events /\ gone'[d] \subseteq 1 .. log'[d]
    <3>1. /\ log[d] \in Nat /\ log'[d] \in Nat /\ log[d] <= log'[d]
          /\ log'[d] <= First + events
      BY <2>1, <2>2, <2>3, <2>6
    <3>2. 1 .. log[d] \subseteq 1 .. log'[d] /\ First <= log'[d]
      BY <2>1, <2>2, <3>1
    <3>. QED
      BY <1>1, <2>1, <3>1, <3>2
  <2>. QED
    BY <1>1, <2>1, <2>3, <2>4, <2>6, <2>7 DEF ServerOK
<1>. QED
  BY <1>3, <1>4 DEF MInv

\* A message is deleted.
LEMMA DeleteFact ==
  ASSUME MessagesAssumption, MInv, NEW c \in Chats, NEW i \in 1 .. log[c], Delete(c, i)
  PROVE  MInv'
<1>. DEFINE u == Update("delete", i)
<1>1. /\ events < MaxEvents /\ events' = events + 1
      /\ gone' = [gone EXCEPT ![c] = @ \cup {i}] /\ log' = log /\ unsent' = unsent
      /\ queue' = [queue EXCEPT ![c] = Append(@, u)]
      /\ UNCHANGED <<requests, answers, peer, mark, rows, offset, pending, readUpTo,
                     userId, link, amiss>>
  BY DEF Delete, wire
<1>2. log \in [Chats -> Nat] /\ gone \in [Chats -> SUBSET Nat] /\ i \in Nat
  BY DEF MInv, ServerOK
<1>3. u.id = i /\ u.kind = "delete" /\ u \in UpdateType /\ "delete" \notin Sends
  BY <1>2 DEF Update, UpdateType, Sends
<1>. HIDE DEF u
<1>4. /\ gone' \in [Chats -> SUBSET Nat] /\ i \in gone'[c]
      /\ \A d \in Chats \ {c} : gone'[d] = gone[d]
      /\ \A d \in Chats : gone[d] \subseteq gone'[d] /\ gone'[d] \subseteq gone[d] \cup {i}
  BY <1>1, <1>2
<1>5. \A d \in Chats : log[d] <= log'[d]
  BY <1>1, <1>2
<1>6. Announced(c, u)
  BY <1>1, <1>2, <1>3, <1>4, <1>5 DEF Announced
<1>7. /\ WireOK' /\ ChatOK' /\ QueueOK' /\ OneEach' /\ Asked' /\ Told'
      /\ Joined' /\ Belong' /\ ReadWasShown'
  BY <1>1, <1>6, AnnouncedFact
<1>8. ServerOK'
  <2>1. /\ unsent \in [Sends -> Nat] /\ \A d \in Chats : gone[d] \subseteq 1 .. log[d]
    BY DEF MInv, ServerOK
  <2>2. /\ events \in Nat /\ MaxEvents \in Nat /\ First \in Nat /\ log["user"] \in Nat
        /\ unsent["sent"] \in Nat /\ unsent["unclaimed"] \in Nat
        /\ \A d \in Chats : log[d] \in Nat /\ First <= log[d] /\ log[d] <= First + events
        /\ log["user"] + unsent["sent"] + unsent["unclaimed"] <= First + events
    BY CountersFact DEF MInv
  <2>3. /\ log["user"] + unsent["sent"] + unsent["unclaimed"] <= First + events'
        /\ events' \in 0 .. MaxEvents
        /\ \A d \in Chats : First <= log[d] /\ log[d] <= First + events'
    BY <1>1, <2>1, <2>2
  <2>4. \A d \in Chats : gone'[d] \subseteq 1 .. log[d]
    <3>1. TAKE d \in Chats
    <3>2. CASE d = c
      BY <1>4, <2>1, <3>2
    <3>3. CASE d # c
      BY <1>4, <2>1, <3>3
    <3>. QED
      BY <3>2, <3>3
  <2>. QED
    BY <1>1, <1>2, <1>4, <2>1, <2>3, <2>4 DEF ServerOK
<1>. QED
  BY <1>7, <1>8 DEF MInv

-----------------------------------------------------------------------------
(***************************************************************************)
(* An update is handed over.                                               *)
(***************************************************************************)
\* What a step about c's sequence leaves alone that takes at most the messages S out
\* of its queue.
Leaves(c, S) ==
  /\ ServerOK' /\ QueueOK'
  /\ \A i \in Announces(queue[c]) : i \in Announces(queue'[c]) \/ i \in S
  /\ \A d \in Chats \ {c} : queue'[d] = queue[d]
  /\ UNCHANGED <<log, gone, requests, answers, peer, mark, offset, pending, readUpTo,
                 userId, link>>

\* The update u is the first of c's queue, or is none of it, and comes again.
Hands(c, u) ==
  /\ \/ /\ queue[c] # <<>> /\ u = Head(queue[c]) /\ queue' = [queue EXCEPT ![c] = Tail(@)]
        /\ events' = events
     \/ /\ u \in UpdateType /\ u.kind \notin Sends /\ u.id \in 1 .. log[c] \ Announces(queue[c])
        /\ u.kind = "delete" => u.id \in gone[c]
        /\ queue' = queue /\ events < MaxEvents /\ events' = events + 1
  /\ UNCHANGED <<log, gone, requests, answers, unsent, peer, mark, offset, pending, readUpTo,
                 userId, link>>

\* The message that leaves the queue with it, if one does.
Taken(c, u) == IF u.kind = "delete" THEN {} ELSE {u.id} \cap Announces(queue[c])

\* One event later nothing else is.
LEMMA EventOnly ==
  ASSUME MessagesAssumption, MInv, events < MaxEvents, events' = events + 1,
         UNCHANGED <<log, gone, unsent>>
  PROVE  ServerOK'
<1>1. unsent \in [Sends -> Nat]
  BY DEF MInv, ServerOK
<1>2. unsent' = unsent /\ unsent["sent"] \in Nat /\ unsent["unclaimed"] \in Nat
  BY <1>1 DEF Sends
<1>3. unsent'["sent"] + unsent'["unclaimed"] <= unsent["sent"] + unsent["unclaimed"] + 1
  BY <1>2
<1>. QED
  BY <1>1, <1>2, <1>3, EventFact DEF MInv, server

\* The others of the sequence are of later messages.
LEMMA HandsFact ==
  ASSUME MessagesAssumption, MInv, NEW c \in Chats, NEW u, Hands(c, u)
  PROVE  /\ Leaves(c, Taken(c, u))
         /\ u \in UpdateType /\ u.id \in 1 .. log[c]
         /\ u.kind = "delete" => u.id \in gone[c]
         /\ u.kind \in Sends => c = "user"
         /\ u.kind # "delete" => \A i \in Announces(queue'[c]) : i > u.id
<1>. DEFINE q == queue[c]
            n == log[c]
            g == gone[c]
<1>1. /\ q \in Seq(UpdateType) /\ Fits(c, q, n, g) /\ n \in Nat
      /\ queue \in [Chats -> Seq(UpdateType)]
  BY DEF MInv, QueueOK, ServerOK
<1>. HIDE DEF q, n, g
<1>2. UNCHANGED <<log, gone, requests, answers, unsent, peer, mark, offset, pending, readUpTo,
                  userId, link>>
  BY DEF Hands
<1>3. CASE /\ q # <<>> /\ u = Head(q) /\ queue' = [queue EXCEPT ![c] = Tail(@)]
           /\ events' = events
  <2>1. /\ Head(q) \in UpdateType /\ Head(q).id \in 1 .. n /\ Tail(q) \in Seq(UpdateType)
        /\ Head(q).kind = "delete" => Head(q).id \in g
        /\ Head(q).kind \in Sends => c = "user"
        /\ Fits(c, Tail(q), n, g)
        /\ Head(q).kind # "delete" => Head(q).id \in Announces(q)
        /\ \A i \in Announces(q) : \/ i \in Announces(Tail(q))
                                   \/ Head(q).kind # "delete" /\ i = Head(q).id
        /\ Head(q).kind # "delete" => \A i \in Announces(Tail(q)) : i > Head(q).id
    BY <1>1, <1>3, TailFact
  <2>2. queue' = [queue EXCEPT ![c] = Tail(q)] /\ log'[c] = n /\ gone'[c] = g
    BY <1>2, <1>3 DEF q, n, g
  <2>3. /\ QueueOK' /\ queue'[c] = Tail(q)
        /\ \A d \in Chats \ {c} : queue'[d] = queue[d]
    BY <1>2, <2>1, <2>2, QueueChanged DEF MInv
  <2>4. ServerOK'
    BY <1>2, <1>3, ServerSame DEF MInv
  <2>5. \A i \in Announces(q) : i \in Announces(queue'[c]) \/ i \in Taken(c, u)
    BY <1>3, <2>1, <2>3 DEF Taken, q
  <2>6. Leaves(c, Taken(c, u))
    BY <1>2, <2>3, <2>4, <2>5 DEF Leaves, q
  <2>. QED
    BY <1>3, <2>1, <2>3, <2>6 DEF n, g
<1>4. CASE /\ u \in UpdateType /\ u.kind \notin Sends /\ u.id \in 1 .. n \ Announces(q)
           /\ u.kind = "delete" => u.id \in g
           /\ queue' = queue /\ events < MaxEvents /\ events' = events + 1
  <2>1. QueueOK'
    BY <1>2, <1>4, QueueSame DEF MInv
  <2>2. ServerOK'
    BY <1>2, <1>4, EventOnly
  <2>3. Leaves(c, Taken(c, u))
    BY <1>2, <1>4, <2>1, <2>2 DEF Leaves, q
  <2>4. ASSUME NEW i \in Announces(q) PROVE i > u.id
    <3>1. i \in 1 .. n
      BY <1>1, AnnouncedNat DEF Fits
    <3>2. i <= u.id => u.id \in i .. n
      BY <1>1, <1>4, <3>1
    <3>. QED
      BY <1>1, <1>4, <3>1, <3>2 DEF Fits, Unbroken
  <2>. QED
    BY <1>4, <2>3, <2>4 DEF n, g, q
<1>. QED
  BY <1>3, <1>4 DEF Hands, q, n, g

\* No row is added that is the open chat's, and the messages that leave the queue are
\* shown or excused, or are in the answers that are under way.
LEMMA LeavesKept ==
  ASSUME MessagesAssumption, MInv, NEW c \in Chats, NEW S, Leaves(c, S),
         rows' \in Seq(RowType), \A x \in Range(rows') : x.id \in 1 .. log[x.chat],
         peer = None => rows' = <<>>, Belong',
         amiss' \in AmissType, amiss.overtaken \subseteq amiss'.overtaken,
         amiss.late \subseteq amiss'.late, amiss.strays \subseteq amiss'.strays,
         OwnIds' \subseteq OwnIds, peer # None => Shown \subseteq Shown',
         peer = c =>
           /\ offset["down"] = -1 => S \subseteq Shown'
           /\ \A a \in answers : a.id = pending["down"] => S \subseteq amiss'.overtaken \cup a.ids
  PROVE  MInv'
<1>1. UNCHANGED <<log, gone, requests, answers, peer, mark, offset, pending, readUpTo, userId,
                  link>>
  BY DEF Leaves
<1>2. ServerOK' /\ WireOK' /\ QueueOK' /\ OneEach' /\ Asked'
  BY <1>1, WireSame DEF MInv, Leaves, OneEach, Asked
<1>3. /\ \A i \in Announces(queue[c]) : i \in Announces(queue'[c]) \/ i \in S
      /\ \A d \in Chats \ {c} : queue'[d] = queue[d]
  BY DEF Leaves
<1>4. ChatOK'
  BY <1>1 DEF MInv, ChatOK
<1>5. peer # None => /\ peer \in Chats /\ log[peer] \in Nat /\ log[peer]' \in Nat
                     /\ log[peer]' = log[peer] /\ log[peer] <= log[peer]'
  BY <1>1 DEF MInv, ServerOK, ChatOK
<1>6. ASSUME NEW T, peer # None, peer = c => S \subseteq T
      PROVE  Expects(T)
  <2>1. \A i \in log[peer] + 1 .. log[peer]' : FALSE
    BY <1>5, <1>6
  <2>2. \A i \in Announces(queue[peer]) : i \in Announces(queue[peer]') \/ i \in T
    <3>1. CASE peer = c
      <4>1. queue[peer]' = queue'[c] /\ queue[peer] = queue[c]
        BY <1>1, <3>1
      <4>. QED
        BY <1>3, <1>6, <3>1, <4>1
    <3>2. CASE peer # c
      <4>1. queue[peer]' = queue[peer]
        BY <1>1, <1>3, <1>5, <1>6, <3>2
      <4>. QED
        BY <4>1
    <3>. QED
      BY <3>1, <3>2
  <2>. QED
    BY <2>1, <2>2 DEF Expects
<1>7. Told'
  <2>1. ASSUME NEW a \in answers', a.id = pending["down"], peer # None
        PROVE  Expects(amiss'.overtaken \cup a.ids)
    <3>1. peer = c => S \subseteq amiss'.overtaken \cup a.ids
      BY <1>1, <2>1
    <3>. QED
      BY <1>6, <2>1, <3>1
  <2>2. \A a \in answers' : a.id = pending["down"] /\ peer # None =>
          Expects(amiss'.overtaken \cup a.ids)
    BY <2>1
  <2>. QED
    BY <1>1, <1>5, <2>2, ToldKept DEF MInv
<1>8. Joined'
  <2>1. peer # None /\ offset["down"] = -1 => Expects(Shown')
    BY <1>6
  <2>. QED
    BY <1>1, <1>5, <2>1, JoinedKept DEF MInv
<1>9. ReadWasShown'
  <2>1. CASE peer = None
    BY <1>1, <2>1 DEF ReadWasShown
  <2>2. CASE peer # None
    BY <1>1, <2>2, ReadKept DEF MInv
  <2>. QED
    BY <2>1, <2>2
<1>. QED
  BY <1>2, <1>4, <1>7, <1>8, <1>9 DEF MInv

\* The rows stay as they are.
LEMMA LeavesQuiet ==
  ASSUME MessagesAssumption, MInv, NEW c \in Chats, NEW S, Leaves(c, S), rows' = rows,
         amiss' \in AmissType, amiss.overtaken \subseteq amiss'.overtaken,
         amiss'.late = amiss.late, amiss'.strays = amiss.strays, Excuses \subseteq Excuses',
         peer = c =>
           /\ offset["down"] = -1 => S \subseteq Excuses'
           /\ \A a \in answers : a.id = pending["down"] => S \subseteq amiss'.overtaken \cup a.ids
  PROVE  MInv'
<1>1. UNCHANGED <<log, gone, peer>>
  BY DEF Leaves
<1>2. OwnIds' = OwnIds /\ (peer # None => Shown \subseteq Shown')
  BY <1>1, ShownSame
<1>3. Belong'
  BY <1>1, BelongSame DEF MInv
<1>4. /\ rows' \in Seq(RowType) /\ \A x \in Range(rows') : x.id \in 1 .. log[x.chat]
      /\ peer = None => rows' = <<>>
  BY DEF MInv, ChatOK
<1>5. Excuses' \subseteq Shown'
  BY DEF Shown, Excused, Excuses
<1>. QED
  BY <1>2, <1>3, <1>4, <1>5, LeavesKept

\* Messages that became no rows are excused, or passed the answer they are not in.
LEMMA MissedFact ==
  ASSUME MInv, NEW c \in Chats, NEW way \in {"unclaimed", "skipped", "jumped"},
         NEW S \in SUBSET Nat, Missed(way, c, S)
  PROVE  /\ amiss' \in AmissType /\ amiss.overtaken \subseteq amiss'.overtaken
         /\ amiss'.late = amiss.late /\ amiss'.strays = amiss.strays
         /\ Excuses \subseteq Excuses'
         /\ peer = c =>
              /\ offset["down"] = -1 => S \subseteq Excuses'
              /\ \A a \in answers : a.id = pending["down"] => S \subseteq amiss'.overtaken \cup a.ids
<1>1. amiss \in AmissType
  BY DEF MInv, ChatOK
<1>2. CASE peer # c
  <2>1. amiss' = amiss
    BY <1>2 DEF Missed, IsOpen
  <2>. QED
    BY <1>1, <1>2, <2>1 DEF Excuses
<1>3. CASE peer = c /\ offset["down"] = -1
  <2>1. amiss' = [amiss EXCEPT ![way] = @ \cup S]
    BY <1>3 DEF Missed, IsOpen, Complete
  <2>2. /\ amiss' \in AmissType /\ amiss'.overtaken = amiss.overtaken
        /\ amiss'.late = amiss.late /\ amiss'.strays = amiss.strays
        /\ Excuses' = Excuses \cup S
    <3>1. CASE way = "unclaimed"
      BY <1>1, <2>1, <3>1 DEF AmissType, Excuses
    <3>2. CASE way = "skipped"
      BY <1>1, <2>1, <3>2 DEF AmissType, Excuses
    <3>3. CASE way = "jumped"
      BY <1>1, <2>1, <3>3 DEF AmissType, Excuses
    <3>. QED
      BY <3>1, <3>2, <3>3
  <2>3. \A a \in answers : a.id # pending["down"]
    BY <1>3 DEF MInv, Told, Ways
  <2>. QED
    BY <2>2, <2>3
<1>4. CASE peer = c /\ offset["down"] # -1
  <2>. DEFINE T == amiss.overtaken \cup {i \in S : Overtaking(i)}
  <2>1. amiss' = [amiss EXCEPT !.overtaken = T] /\ T \in SUBSET Nat
    BY <1>1, <1>4 DEF Missed, IsOpen, Complete, AmissType
  <2>2. \A a \in answers : a.id = pending["down"] => S \subseteq T \cup a.ids
    BY DEF Overtaking
  <2>3. amiss.overtaken \subseteq T
    OBVIOUS
  <2>. HIDE DEF T
  <2>4. /\ amiss' \in AmissType /\ amiss'.overtaken = T
        /\ amiss'.late = amiss.late /\ amiss'.strays = amiss.strays
        /\ Excuses \subseteq Excuses'
    BY <1>1, <2>1, <2>3 DEF AmissType, Excuses
  <2>. QED
    BY <1>4, <2>2, <2>3, <2>4
<1>. QED
  BY <1>2, <1>3, <1>4

\* Without the last page nothing is waited for below it that could lack the message.
LEMMA OvertakenFact ==
  ASSUME MInv, NEW i \in Nat, amiss' = Overtaken(i)
  PROVE  /\ amiss' \in AmissType /\ amiss.overtaken \subseteq amiss'.overtaken
         /\ amiss'.late = amiss.late /\ amiss'.strays = amiss.strays
         /\ Excuses \subseteq Excuses'
         /\ \A a \in answers : a.id = pending["down"] => i \in amiss'.overtaken \cup a.ids
<1>. DEFINE S == IF Overtaking(i) THEN amiss.overtaken \cup {i} ELSE amiss.overtaken
<1>1. amiss \in AmissType
  BY DEF MInv, ChatOK
<1>2. amiss' = [amiss EXCEPT !.overtaken = S]
  BY DEF Overtaken
<1>3. S \in SUBSET Nat /\ amiss.overtaken \subseteq S
  BY <1>1 DEF AmissType, Excuses
<1>4. \A a \in answers : a.id = pending["down"] => i \in S \cup a.ids
  BY DEF Overtaking
<1>. HIDE DEF S
<1>5. /\ amiss' \in AmissType /\ amiss'.overtaken = S
      /\ amiss'.late = amiss.late /\ amiss'.strays = amiss.strays
      /\ Excuses \subseteq Excuses'
  BY <1>1, <1>2, <1>3 DEF AmissType, Excuses
<1>. QED
  BY <1>3, <1>4, <1>5

\* A row that is no news counts as neither end.
LEMMA LateFact ==
  ASSUME MInv, peer # None, NEW i \in Nat, amiss' = Late(i)
  PROVE  /\ amiss' \in AmissType /\ amiss'.overtaken = amiss.overtaken
         /\ amiss.late \subseteq amiss'.late /\ amiss'.strays = amiss.strays
         /\ Excuses' = Excuses
         /\ i \notin amiss'.late => i > mark
<1>. DEFINE S == IF i <= mark \/ \E k \in DOMAIN rows : rows[k].chat = peer /\ rows[k].id >= i
                 THEN amiss.late \cup {i} ELSE amiss.late
<1>1. amiss \in AmissType /\ mark \in Nat
  BY DEF MInv, ChatOK
<1>2. amiss' = [amiss EXCEPT !.late = S]
  BY DEF Late
<1>3. S \in SUBSET Nat /\ amiss.late \subseteq S /\ (i \notin S => ~(i <= mark))
  BY <1>1 DEF AmissType, Excuses
<1>. HIDE DEF S
<1>4. /\ amiss' \in AmissType /\ amiss'.late = S
      /\ amiss'.overtaken = amiss.overtaken /\ amiss'.strays = amiss.strays
      /\ Excuses' = Excuses
  BY <1>1, <1>2, <1>3 DEF AmissType, Excuses
<1>. QED
  BY <1>1, <1>3, <1>4

\* A row more.
LEMMA AppendRowFact ==
  ASSUME MInv, NEW d \in Chats, NEW i \in 1 .. log[d], UNCHANGED <<log, peer>>,
         rows' = Append(rows, Row(d, i))
  PROVE  /\ rows' \in Seq(RowType) /\ \A x \in Range(rows') : x.id \in 1 .. log[x.chat]
         /\ \A x \in Range(rows') : x \in Range(rows) \/ (x.chat = d /\ x.id = i)
         /\ peer = d => OwnIds' = OwnIds \cup {i}
         /\ peer # d => OwnIds' = OwnIds
<1>1. /\ rows \in Seq(RowType) /\ \A x \in Range(rows) : x.id \in 1 .. log[x.chat]
      /\ i \in Nat
  BY DEF MInv, ChatOK, ServerOK
<1>2. Row(d, i) \in RowType /\ Row(d, i).chat = d /\ Row(d, i).id = i
  BY <1>1 DEF Row, RowType
<1>3. rows' \in Seq(RowType) /\ Range(rows') = Range(rows) \cup {Row(d, i)}
  BY <1>1, <1>2, RangeAppend
<1>4. /\ \A k : k \in OwnIds <=> \E x \in Range(rows) : x.chat = peer /\ x.id = k
      /\ \A k : k \in OwnIds' <=> \E x \in Range(rows') : x.chat = peer /\ x.id = k
  <2>1. \A k : k \in OwnIds <=> \E x \in Range(rows) : x.chat = peer /\ x.id = k
    BY OwnIdsFact DEF MInv
  <2>2. \A k : k \in OwnIds' <=> \E x \in Range(rows') : x.chat = peer' /\ x.id = k
    BY <1>3, OwnIdsNext
  <2>. QED
    BY <2>1, <2>2
<1>5. \A x \in Range(rows') : x \in Range(rows) \/ x = Row(d, i)
  BY <1>3
<1>6. \A x \in Range(rows) : x \in Range(rows')
  BY <1>3
<1>7. Row(d, i) \in Range(rows')
  BY <1>3
<1>8. ASSUME peer = d PROVE OwnIds' = OwnIds \cup {i}
  <2>1. \A k : k \in OwnIds' <=> k \in OwnIds \/ k = i
    BY <1>2, <1>4, <1>5, <1>6, <1>7, <1>8
  <2>. QED
    BY <2>1
<1>9. ASSUME peer # d PROVE OwnIds' = OwnIds
  <2>1. \A k : k \in OwnIds' <=> k \in OwnIds
    BY <1>2, <1>4, <1>5, <1>6, <1>9
  <2>. QED
    BY <2>1
<1>. QED
  BY <1>1, <1>2, <1>3, <1>5, <1>8, <1>9

\* The message joins the last page.
LEMMA HandsRow ==
  ASSUME MessagesAssumption, MInv, NEW u, peer # None, Hands(peer, u), u.kind # "delete",
         offset["down"] = -1, rows' = Append(rows, Row(peer, u.id)), amiss' = Late(u.id)
  PROVE  MInv'
<1>1. UNCHANGED <<log, gone, answers, peer, mark, offset, pending, readUpTo, userId, link>>
  BY DEF Hands
<1>2. peer \in Chats /\ log[peer] \in Nat
  BY DEF MInv, ServerOK, ChatOK
<1>3. /\ ServerOK' /\ WireOK' /\ QueueOK' /\ OneEach' /\ Asked'
      /\ u.id \in 1 .. log[peer]
      /\ \A i \in Announces(queue[peer]) : i = u.id \/ i \in Announces(queue'[peer])
      /\ \A i \in Announces(queue'[peer]) : u.id < i
  <2>1. /\ Leaves(peer, Taken(peer, u)) /\ u.id \in 1 .. log[peer]
        /\ u.kind # "delete" => \A i \in Announces(queue'[peer]) : i > u.id
    BY <1>2, HandsFact
  <2>2. ServerOK' /\ QueueOK'
    BY <2>1 DEF Leaves
  <2>3. WireOK' /\ OneEach' /\ Asked'
    BY <2>1, WireSame DEF Leaves, MInv, OneEach, Asked
  <2>4. Announces(queue'[peer]) \subseteq 1 .. log[peer]
    <3>1. InOrder(queue'[peer], log'[peer], gone'[peer])
      BY <1>2, <2>2, <1>1 DEF QueueOK, Fits
    <3>. QED
      BY <1>1, <1>2, <3>1, AnnouncedNat
  <2>. QED
    BY <1>2, <2>1, <2>2, <2>3, <2>4 DEF Leaves, Taken
<1>4. u.id \in Nat
  BY <1>2, <1>3
<1>5. /\ amiss' \in AmissType /\ amiss'.overtaken = amiss.overtaken
      /\ amiss.late \subseteq amiss'.late /\ amiss'.strays = amiss.strays
      /\ Excuses' = Excuses
      /\ u.id \notin amiss'.late => u.id > mark
  BY <1>4, LateFact
<1>6. /\ rows' \in Seq(RowType) /\ \A x \in Range(rows') : x.id \in 1 .. log[x.chat]
      /\ \A x \in Range(rows') : x \in Range(rows) \/ (x.chat = peer /\ x.id = u.id)
      /\ OwnIds' = OwnIds \cup {u.id}
  BY <1>1, <1>2, <1>3, AppendRowFact
<1>7. Shown \cup {u.id} \subseteq Shown'
  BY <1>1, <1>5, <1>6 DEF Shown, Excused, Excuses
<1>8. ChatOK'
  BY <1>1, <1>5, <1>6 DEF MInv, ChatOK
<1>9. Told'
  <2>1. \A a \in answers : a.id # pending["down"]
    BY DEF MInv, Told, Ways
  <2>. QED
    BY <1>1, <1>2, <1>5, <2>1, ToldKept DEF MInv
<1>10. Joined'
  BY <1>1, <1>3, <1>4, <1>5, <1>6, <1>7, JoinedAppend DEF MInv
<1>11. Belong'
  BY <1>1, <1>5, <1>6 DEF MInv, Belong
<1>12. ReadWasShown'
  BY <1>1, <1>5, <1>7, ReadKept DEF MInv
<1>. QED
  BY <1>3, <1>8, <1>9, <1>10, <1>11, <1>12 DEF MInv

-----------------------------------------------------------------------------
(***************************************************************************)
(* The kinds of updates.                                                   *)
(***************************************************************************)
LEMMA NewMessageFact ==
  ASSUME MessagesAssumption, MInv, NEW c \in Chats, NEW u, Hands(c, u), u.kind = "new",
         NewMessage(c, u.id)
  PROVE  MInv'
<1>1. u.id \in 1 .. log[c] /\ u.id \in Nat
  BY HandsFact DEF MInv, ServerOK, UpdateType
<1>2. /\ amiss \in AmissType /\ Leaves(c, Taken(c, u))
      /\ Taken(c, u) \subseteq {u.id}
  BY HandsFact DEF Taken, MInv, ChatOK
<1>3. CASE peer # c
  <2>1. rows' = rows /\ amiss' = amiss
    BY <1>3 DEF NewMessage, IsOpen
  <2>2. Excuses' = Excuses
    BY <2>1 DEF Excuses
  <2>. QED
    BY <1>2, <1>3, <2>1, <2>2, LeavesQuiet
<1>4. CASE peer = c /\ offset["down"] # -1
  <2>1. rows' = rows /\ amiss' = Overtaken(u.id)
    BY <1>4 DEF NewMessage, IsOpen, Complete
  <2>2. /\ amiss' \in AmissType /\ amiss.overtaken \subseteq amiss'.overtaken
        /\ amiss'.late = amiss.late /\ amiss'.strays = amiss.strays
        /\ Excuses \subseteq Excuses'
        /\ \A a \in answers : a.id = pending["down"] => u.id \in amiss'.overtaken \cup a.ids
    BY <1>1, <2>1, OvertakenFact
  <2>. QED
    BY <1>2, <1>4, <2>1, <2>2, LeavesQuiet
<1>5. CASE peer = c /\ offset["down"] = -1
  <2>1. rows' = Append(rows, Row(peer, u.id)) /\ amiss' = Late(u.id) /\ peer # None
    BY <1>5, NoChat DEF NewMessage, IsOpen, Complete
  <2>. QED
    BY <1>5, <2>1, HandsRow
<1>. QED
  BY <1>3, <1>4, <1>5

\* UpdateShortSentMessage.
LEMMA SentMessageFact ==
  ASSUME MessagesAssumption, MInv, NEW c \in Chats, NEW u, Hands(c, u), u.kind = "sent",
         SentMessage(u.id)
  PROVE  MInv'
<1>1. u.id \in 1 .. log[c] /\ u.id \in Nat /\ c = "user" /\ u.kind # "delete"
  BY HandsFact DEF MInv, ServerOK, UpdateType, Sends
<1>2. /\ amiss \in AmissType /\ Leaves(c, Taken(c, u))
      /\ Taken(c, u) \subseteq {u.id}
  BY HandsFact DEF Taken, MInv, ChatOK
<1>3. CASE offset["down"] # -1 /\ peer # "user"
  <2>1. rows' = rows /\ amiss' = amiss
    BY <1>3 DEF SentMessage, Complete
  <2>2. Excuses' = Excuses
    BY <2>1 DEF Excuses
  <2>. QED
    BY <1>1, <1>2, <1>3, <2>1, <2>2, LeavesQuiet
<1>4. CASE offset["down"] # -1 /\ peer = "user"
  <2>1. rows' = rows /\ amiss' = Overtaken(u.id)
    BY <1>4 DEF SentMessage, Complete
  <2>2. /\ amiss' \in AmissType /\ amiss.overtaken \subseteq amiss'.overtaken
        /\ amiss'.late = amiss.late /\ amiss'.strays = amiss.strays
        /\ Excuses \subseteq Excuses'
        /\ \A a \in answers : a.id = pending["down"] => u.id \in amiss'.overtaken \cup a.ids
    BY <1>1, <2>1, OvertakenFact
  <2>. QED
    BY <1>1, <1>2, <1>4, <2>1, <2>2, LeavesQuiet
<1>5. CASE offset["down"] = -1 /\ peer = "user"
  <2>1. rows' = Append(rows, Row(peer, u.id)) /\ amiss' = Late(u.id) /\ peer # None
    BY <1>5 DEF SentMessage, Complete, None
  <2>. QED
    BY <1>1, <1>5, <2>1, HandsRow
<1>6. CASE offset["down"] = -1 /\ peer # "user"
  <2>1. rows' = Append(rows, Row("user", u.id)) /\ amiss' = [amiss EXCEPT !.strays = @ \cup {u.id}]
    BY <1>6 DEF SentMessage, Complete
  <2>2. UNCHANGED <<log, gone, peer>>
    BY DEF Hands
  <2>3. peer # None
    BY <1>6 DEF MInv, ChatOK, Neither, Ways
  <2>4. /\ amiss' \in AmissType /\ amiss'.overtaken = amiss.overtaken
        /\ amiss'.late = amiss.late /\ amiss'.strays = amiss.strays \cup {u.id}
        /\ Excuses' = Excuses
    BY <1>1, <1>2, <2>1 DEF AmissType, Excuses
  <2>5. /\ rows' \in Seq(RowType) /\ \A x \in Range(rows') : x.id \in 1 .. log[x.chat]
        /\ \A x \in Range(rows') : x \in Range(rows) \/ (x.chat = "user" /\ x.id = u.id)
        /\ OwnIds' = OwnIds
    BY <1>1, <1>6, <2>1, <2>2, AppendRowFact
  <2>6. Shown' = Shown
    BY <2>2, <2>4, <2>5 DEF Shown, Excused, Excuses
  <2>7. Belong'
    BY <2>2, <2>4, <2>5 DEF MInv, Belong
  <2>. QED
    BY <1>1, <1>2, <1>6, <2>3, <2>4, <2>5, <2>6, <2>7, LeavesKept
<1>. QED
  BY <1>3, <1>4, <1>5, <1>6

\* UpdateShortSentMessage of an id that _sentMessages does not have.
LEMMA UnclaimedFact ==
  ASSUME MessagesAssumption, MInv, NEW c \in Chats, NEW u, Hands(c, u), u.kind = "unclaimed",
         Unclaimed(u.id)
  PROVE  MInv'
<1>1. /\ u.id \in Nat /\ c = "user" /\ rows' = rows
      /\ Leaves(c, Taken(c, u))
      /\ Taken(c, u) \subseteq {u.id}
  BY HandsFact DEF Taken, UpdateType, Sends, Unclaimed
<1>2. Missed("unclaimed", c, {u.id}) /\ {u.id} \in SUBSET Nat
  BY <1>1 DEF Unclaimed
<1>3. /\ amiss' \in AmissType /\ amiss.overtaken \subseteq amiss'.overtaken
      /\ amiss'.late = amiss.late /\ amiss'.strays = amiss.strays
      /\ Excuses \subseteq Excuses'
      /\ peer = c =>
           /\ offset["down"] = -1 => {u.id} \subseteq Excuses'
           /\ \A a \in answers : a.id = pending["down"] => {u.id} \subseteq amiss'.overtaken \cup a.ids
  BY <1>2, MissedFact
<1>. QED
  BY <1>1, <1>3, LeavesQuiet

\* UpdateDeleteMessages and UpdateDeleteChannelMessages.
LEMMA DeleteMessagesFact ==
  ASSUME MessagesAssumption, MInv, NEW c \in Chats, NEW u, Hands(c, u), u.kind = "delete",
         DeleteMessages(c, u.id)
  PROVE  MInv'
<1>1. u.id \in gone[c] /\ u.id \in Nat
  <2>1. u \in UpdateType /\ u.id \in gone[c]
    BY HandsFact
  <2>. QED
    BY <2>1 DEF UpdateType
<1>2. /\ amiss \in AmissType /\ rows \in Seq(RowType)
      /\ Leaves(c, Taken(c, u)) /\ Taken(c, u) = {}
  BY HandsFact DEF Taken, MInv, ChatOK
<1>3. CASE c # "user" /\ peer # c
  <2>1. rows' = rows /\ amiss' = amiss
    BY <1>3 DEF DeleteMessages, IsOpen
  <2>2. Excuses' = Excuses
    BY <2>1 DEF Excuses
  <2>. QED
    BY <1>2, <2>1, <2>2, LeavesQuiet
<1>4. CASE ~(c # "user" /\ peer # c)
  <2>. DEFINE S == IF IsOpen(c) /\ Awaited({a \in answers : u.id \in a.ids})
                   THEN amiss.overtaken \cup {u.id} ELSE amiss.overtaken
              K == IF peer # "user" /\ c = "user"
                   THEN amiss.struck \cup {u.id} ELSE amiss.struck
  <2>1. rows' = RemovedRow(u.id) /\ amiss' = [amiss EXCEPT !.overtaken = S, !.struck = K]
    BY <1>4 DEF DeleteMessages, IsOpen
  <2>2. /\ S \in SUBSET Nat /\ amiss.overtaken \subseteq S
        /\ K \in SUBSET Nat /\ amiss.struck \subseteq K
        /\ peer # "user" /\ c = "user" => u.id \in K
    BY <1>1, <1>2 DEF AmissType, Excuses
  <2>. HIDE DEF S, K
  <2>3. /\ amiss' \in AmissType /\ amiss'.overtaken = S /\ amiss'.struck = K
        /\ amiss'.late = amiss.late /\ amiss'.strays = amiss.strays
        /\ Excuses \subseteq Excuses'
    <3>1. /\ amiss' \in AmissType /\ amiss'.overtaken = S /\ amiss'.struck = K
          /\ amiss'.late = amiss.late /\ amiss'.strays = amiss.strays
          /\ amiss'.unclaimed = amiss.unclaimed /\ amiss'.skipped = amiss.skipped
          /\ amiss'.jumped = amiss.jumped
      BY <1>2, <2>1, <2>2 DEF AmissType
    <3>. QED
      BY <2>2, <3>1 DEF Excuses
  <2>4. /\ rows' \in Seq(RowType) /\ Range(rows') \subseteq Range(rows)
        /\ \A x \in Range(rows) : x \in Range(rows') \/ x.id = u.id
    BY <1>2, <2>1, RemovedRowFact
  <2>5. UNCHANGED <<log, gone, peer>>
    BY DEF Hands
  <2>6. /\ \A k : k \in OwnIds <=> \E x \in Range(rows) : x.chat = peer /\ x.id = k
        /\ \A k : k \in OwnIds' <=> \E x \in Range(rows') : x.chat = peer /\ x.id = k
    <3>1. \A k : k \in OwnIds <=> \E x \in Range(rows) : x.chat = peer /\ x.id = k
      BY OwnIdsFact DEF MInv
    <3>2. \A k : k \in OwnIds' <=> \E x \in Range(rows') : x.chat = peer' /\ x.id = k
      BY <2>4, OwnIdsNext
    <3>. QED
      BY <2>5, <3>1, <3>2
  <2>7. OwnIds' \subseteq OwnIds /\ \A k \in OwnIds : k \in OwnIds' \/ k = u.id
    BY <2>4, <2>6
  <2>8. ASSUME peer # None PROVE Shown \subseteq Shown'
    <3>1. peer = c \/ (peer # "user" /\ c = "user")
      BY <1>4
    <3>2. u.id \in gone[peer] \cup Excuses'
      BY <1>1, <2>2, <2>3, <3>1 DEF Excuses
    <3>3. \A k : k \in Excused' <=> k \in gone[peer] \cup Excuses'
      BY <2>5 DEF Excused, Excuses
    <3>4. \A k : k \in Excused <=> k \in gone[peer] \cup Excuses
      BY DEF Excused, Excuses
    <3>. QED
      BY <2>3, <2>7, <3>2, <3>3, <3>4 DEF Shown
  <2>9. Belong' /\ \A x \in Range(rows') : x.id \in 1 .. log[x.chat]
    BY <2>3, <2>4, <2>5 DEF MInv, Belong, ChatOK
  <2>10. peer = None => rows' = <<>>
    BY <2>1 DEF MInv, ChatOK, RemovedRow
  <2>. QED
    BY <1>1, <1>2, <2>2, <2>3, <2>4, <2>7, <2>8, <2>9, <2>10, LeavesKept
<1>. QED
  BY <1>3, <1>4

\* gotUpdate(): one of the four.
LEMMA GotUpdateFact ==
  ASSUME MessagesAssumption, MInv, NEW c \in Chats, GotUpdate(c)
  PROVE  MInv'
<1>0. PICK u : u = Head(queue[c])
  OBVIOUS
<1>1. Hands(c, u)
  BY <1>0 DEF GotUpdate, Hands, server, wire
<1>2. \/ u.kind = "new" /\ NewMessage(c, u.id)
      \/ u.kind = "sent" /\ SentMessage(u.id)
      \/ u.kind = "unclaimed" /\ Unclaimed(u.id)
      \/ u.kind = "delete" /\ DeleteMessages(c, u.id)
  BY <1>0 DEF GotUpdate
<1>. QED
  BY <1>1, <1>2, NewMessageFact, SentMessageFact, UnclaimedFact, DeleteMessagesFact

\* What was handed over comes again.
LEMMA RepeatFact ==
  ASSUME MessagesAssumption, MInv, NEW c \in Chats, NEW i \in 1 .. log[c], Repeat(c, i)
  PROVE  MInv'
<1>1. /\ events < MaxEvents /\ events' = events + 1 /\ queue' = queue
      /\ i \notin Announces(queue[c])
      /\ UNCHANGED <<log, gone, requests, answers, unsent, peer, mark, offset, pending, readUpTo,
                     userId, link>>
  BY DEF Repeat, server, wire
<1>2. i \in Nat
  BY DEF MInv, ServerOK
<1>. DEFINE h(k) == Update(k, i)
<1>3. ASSUME NEW k \in {"new", "delete"}
      PROVE  h(k) \in UpdateType /\ h(k).id = i /\ h(k).kind = k /\ k \notin Sends
  BY <1>2 DEF Update, UpdateType, Sends
<1>. HIDE DEF h
<1>4. CASE IF Complete THEN NewMessage(c, i) ELSE UNCHANGED <<rows, amiss>>
  <2>1. Hands(c, h("new"))
    BY <1>1, <1>3 DEF Hands
  <2>2. CASE Complete
    <3>1. NewMessage(c, h("new").id)
      BY <1>3, <1>4, <2>2
    <3>. QED
      BY <1>3, <2>1, <3>1, NewMessageFact
  <2>3. CASE ~Complete
    <3>1. Leaves(c, {}) /\ amiss' = amiss /\ rows' = rows
      <4>1. Taken(c, h("new")) = {}
        BY <1>1, <1>3 DEF Taken
      <4>. QED
        BY <1>3, <1>4, <2>1, <2>3, <4>1, HandsFact
    <3>2. amiss' \in AmissType /\ Excuses' = Excuses
      BY <3>1 DEF MInv, ChatOK, Excuses
    <3>. QED
      BY <3>1, <3>2, LeavesQuiet
  <2>. QED
    BY <2>2, <2>3
<1>5. CASE i \in gone[c] /\ DeleteMessages(c, i)
  <2>1. Hands(c, h("delete"))
    BY <1>1, <1>3, <1>5 DEF Hands
  <2>2. DeleteMessages(c, h("delete").id)
    BY <1>3, <1>5
  <2>. QED
    BY <1>3, <2>1, <2>2, DeleteMessagesFact
<1>. QED
  BY <1>4, <1>5 DEF Repeat

-----------------------------------------------------------------------------
(***************************************************************************)
(* Updates that do not come.                                               *)
(***************************************************************************)
\* The first n updates of a queue are left out.
LEMMA CutQueue ==
  ASSUME MessagesAssumption, MInv, NEW c \in Chats, NEW n \in 0 .. Len(queue[c]),
         queue' = [queue EXCEPT ![c] = SubSeq(@, n + 1, Len(@))],
         events < MaxEvents, events' = events + 1, UNCHANGED <<log, gone, unsent>>
  PROVE  /\ ServerOK' /\ QueueOK'
         /\ Announces(SubSeq(queue[c], 1, n)) \in SUBSET Nat
         /\ \A i \in Announces(queue[c]) :
              i \in Announces(queue'[c]) \/ i \in Announces(SubSeq(queue[c], 1, n))
         /\ \A d \in Chats \ {c} : queue'[d] = queue[d]
<1>1. /\ queue[c] \in Seq(UpdateType) /\ Fits(c, queue[c], log[c], gone[c]) /\ log[c] \in Nat
  BY DEF MInv, QueueOK, ServerOK
<1>. DEFINE q == queue[c]
            s == SubSeq(q, 1, n)
            t == SubSeq(q, n + 1, Len(q))
<1>2. /\ t \in Seq(UpdateType) /\ Fits(c, t, log[c], gone[c])
      /\ Announces(s) \subseteq 1 .. log[c]
      /\ \A i \in Announces(q) : i \in Announces(t) \/ i \in Announces(s)
  <2>1. Splits(q, n, s, t)
    BY <1>1, SplitFact
  <2>. HIDE DEF q, s, t
  <2>2. q \in Seq(UpdateType) /\ Fits(c, q, log[c], gone[c])
    BY <1>1 DEF q
  <2>. QED
    BY <1>1, <2>1, <2>2, CutFact
<1>3. queue' = [queue EXCEPT ![c] = t]
  OBVIOUS
<1>. HIDE DEF t
<1>4. QueueOK' /\ queue'[c] = t /\ \A d \in Chats \ {c} : queue'[d] = queue[d]
  BY <1>2, <1>3, QueueChanged DEF MInv
<1>5. ServerOK'
  BY EventOnly
<1>6. Announces(s) \in SUBSET Nat
  <2>. HIDE DEF s
  <2>. QED
    BY <1>1, <1>2
<1>. QED
  BY <1>2, <1>4, <1>5, <1>6

\* Nobody is told.
LEMMA SkipFact ==
  ASSUME MessagesAssumption, MInv, NEW c \in Chats, NEW n \in DOMAIN queue[c], Skip(c, n)
  PROVE  MInv'
<1>. DEFINE S == Announces(SubSeq(queue[c], 1, n))
<1>1. n \in 0 .. Len(queue[c])
  BY DEF MInv, QueueOK
<1>2. /\ UNCHANGED <<log, gone, requests, answers, peer, mark, rows, offset, pending, readUpTo,
                      userId, link>>
      /\ Missed("skipped", c, S)
  BY DEF Skip, server, wire
<1>3. Leaves(c, S) /\ S \in SUBSET Nat
  <2>1. /\ queue' = [queue EXCEPT ![c] = SubSeq(@, n + 1, Len(@))]
        /\ events < MaxEvents /\ events' = events + 1 /\ UNCHANGED <<log, gone, unsent>>
    BY DEF Skip, server, wire
  <2>2. /\ ServerOK' /\ QueueOK' /\ S \in SUBSET Nat
        /\ \A i \in Announces(queue[c]) : i \in Announces(queue'[c]) \/ i \in S
        /\ \A d \in Chats \ {c} : queue'[d] = queue[d]
    BY <1>1, <2>1, CutQueue
  <2>. HIDE DEF S
  <2>. QED
    BY <1>2, <2>2 DEF Leaves
<1>. HIDE DEF S
<1>4. /\ amiss' \in AmissType /\ amiss.overtaken \subseteq amiss'.overtaken
      /\ amiss'.late = amiss.late /\ amiss'.strays = amiss.strays
      /\ Excuses \subseteq Excuses'
      /\ peer = c =>
           /\ offset["down"] = -1 => S \subseteq Excuses'
           /\ \A a \in answers : a.id = pending["down"] => S \subseteq amiss'.overtaken \cup a.ids
  BY <1>2, <1>3, MissedFact
<1>. QED
  BY <1>2, <1>3, <1>4, LeavesQuiet

\* The whole queue goes.
LEMMA JumpToFact ==
  ASSUME MessagesAssumption, MInv, NEW c \in Chats, JumpTo(c)
  PROVE  /\ ServerOK' /\ QueueOK' /\ Announces(queue[c]) \in SUBSET Nat
         /\ \A d \in Chats \ {c} : queue'[d] = queue[d]
         /\ UNCHANGED <<log, gone, answers, userId, link>>
<1>. DEFINE q == queue[c]
            n == Len(q)
<1>1. q \in Seq(UpdateType) /\ n \in Nat
  BY DEF MInv, QueueOK
<1>2. SubSeq(q, n + 1, Len(q)) = <<>> /\ SubSeq(q, 1, n) = q /\ n \in 0 .. Len(q)
  BY <1>1
<1>3. queue' = [queue EXCEPT ![c] = SubSeq(@, n + 1, Len(@))]
  BY <1>2 DEF JumpTo
<1>4. events < MaxEvents /\ events' = events + 1 /\ UNCHANGED <<log, gone, unsent>>
  BY DEF JumpTo, server
<1>5. /\ ServerOK' /\ QueueOK' /\ Announces(SubSeq(q, 1, n)) \in SUBSET Nat
      /\ \A d \in Chats \ {c} : queue'[d] = queue[d]
  BY <1>2, <1>3, <1>4, CutQueue
<1>. QED
  BY <1>2, <1>5 DEF JumpTo, server

\* A chat that is loaded again has all there is to load.
LEMMA ReloadFact ==
  ASSUME MessagesAssumption, MInv, peer # None, ReloadHistory, ServerOK', QueueOK',
         UNCHANGED <<log, gone, answers, userId, link>>
  PROVE  MInv'
<1>1. peer \in Chats /\ mark \in 1 .. log[peer] /\ SetPeer(peer, mark)
  BY OpenFact DEF MInv, ReloadHistory
<1>2. /\ WireOK' /\ ChatOK' /\ OneEach' /\ Asked' /\ Told' /\ Joined' /\ Belong'
      /\ ReadWasShown'
  BY <1>1, SetPeerFact
<1>. QED
  BY <1>2 DEF MInv

\* A chat that is not has what it missed among the excused.
LEMMA NotReloadedFact ==
  ASSUME MessagesAssumption, MInv, NEW c \in Chats, JumpTo(c), NotReloaded,
         Missed("jumped", c, Announces(queue[c]))
  PROVE  MInv'
<1>. DEFINE S == Announces(queue[c])
<1>1. Leaves(c, S) /\ S \in SUBSET Nat /\ rows' = rows
  BY JumpToFact DEF NotReloaded, Leaves
<1>. HIDE DEF S
<1>2. Missed("jumped", c, S)
  BY DEF S
<1>3. /\ amiss' \in AmissType /\ amiss.overtaken \subseteq amiss'.overtaken
      /\ amiss'.late = amiss.late /\ amiss'.strays = amiss.strays
      /\ Excuses \subseteq Excuses'
      /\ peer = c =>
           /\ offset["down"] = -1 => S \subseteq Excuses'
           /\ \A a \in answers : a.id = pending["down"] => S \subseteq amiss'.overtaken \cup a.ids
  BY <1>1, <1>2, MissedFact
<1>. QED
  BY <1>1, <1>3, LeavesQuiet

\* updatesReset(): a channel is of another sequence.
LEMMA UpdatesResetFact ==
  ASSUME MessagesAssumption, MInv, UpdatesReset
  PROVE  MInv'
<1>1. "user" \in Chats /\ JumpTo("user")
  BY NoChat DEF UpdatesReset
<1>2. CASE peer # None /\ ~IsChannel(peer)
  <2>1. ReloadHistory
    BY <1>2 DEF UpdatesReset
  <2>. QED
    BY <1>1, <1>2, <2>1, JumpToFact, ReloadFact
<1>3. CASE ~(peer # None /\ ~IsChannel(peer))
  <2>1. NotReloaded /\ amiss' = amiss
    BY <1>3 DEF UpdatesReset
  <2>2. peer # "user"
    BY <1>1, <1>3, NoChat DEF IsChannel
  <2>3. Missed("jumped", "user", Announces(queue["user"]))
    BY <2>1, <2>2 DEF Missed, IsOpen
  <2>. QED
    BY <1>1, <2>1, <2>3, NotReloadedFact
<1>. QED
  BY <1>2, <1>3

\* channelReset(): a supergroup is not loaded again.
LEMMA ChannelResetFact ==
  ASSUME MessagesAssumption, MInv, NEW c \in Chats, ChannelReset(c)
  PROVE  MInv'
<1>1. JumpTo(c)
  BY DEF ChannelReset
<1>2. CASE IsOpen(c) /\ IsChannel(c)
  <2>1. ReloadHistory /\ peer # None
    BY <1>2, NoChat DEF ChannelReset, IsOpen
  <2>. QED
    BY <1>1, <2>1, JumpToFact, ReloadFact
<1>3. CASE ~(IsOpen(c) /\ IsChannel(c))
  <2>1. NotReloaded /\ Missed("jumped", c, Announces(queue[c]))
    BY <1>3 DEF ChannelReset
  <2>. QED
    BY <1>1, <2>1, NotReloadedFact
<1>. QED
  BY <1>2, <1>3

-----------------------------------------------------------------------------
(***************************************************************************)
(* The invariant is inductive, and implies what the run checks.            *)
(***************************************************************************)
LEMMA StepFact ==
  ASSUME MessagesAssumption, MInv, [Next]_vars
  PROVE  MInv'
<1>1. CASE System
  BY <1>1, AnswerFact, ResponseFact, TakeFact, GotUpdateFact, AuthorizedFact DEF System
<1>2. CASE Others
  BY <1>2, PublishFact, UpdatesResetFact, ChannelResetFact, SkipFact, RepeatFact, DeleteFact, RefusedFact, RenamedFact, RenamedSendFact,
     DisconnectedFact DEF Others
<1>3. CASE User
  BY <1>3, OpenDialogFact, FetchMoreFact, SendMessageFact, MarkReadFact DEF User
<1>4. CASE UNCHANGED vars
  <2>1. /\ UNCHANGED <<log, gone, unsent, events, requests, answers, queue, peer, mark, rows,
                       offset, pending, readUpTo, userId, link, amiss>>
    BY <1>4 DEF vars, server, wire
  <2>2. ServerOK'
    BY <2>1, ServerSame DEF MInv
  <2>3. /\ link' \in BOOLEAN /\ amiss'.severed \in BOOLEAN
        /\ amiss' = [amiss EXCEPT !.severed = amiss'.severed]
    BY <2>1 DEF MInv, ChatOK, AmissType
  <2>. QED
    BY <2>1, <2>2, <2>3, DroppedFact DEF MInv
<1>. QED
  BY <1>1, <1>2, <1>3, <1>4 DEF Next

(***************************************************************************)
(* The invariant holds, for any chats, pages of any size above one and any *)
(* number of messages, updates, openings, jumps, lost connections and      *)
(* renamed requests.                                                       *)
(***************************************************************************)
THEOREM MessagesInductive == Spec => []MInv
<1>. USE MessagesAssumption
<1>1. Init => MInv
  BY InitFact
<1>2. MInv /\ [Next]_vars => MInv'
  BY StepFact
<1>. QED
  BY <1>1, <1>2, PTL DEF Spec

(***************************************************************************)
(* The open chat shows no row of another chat but the acknowledgement of a *)
(* message sent from a chat that was left: answers are told apart by the   *)
(* request they answer, and a request that is awaited is the open chat's.  *)
(***************************************************************************)
THEOREM RowsBelongHolds == Spec => []RowsBelong
<1>1. MInv => RowsBelong
  <2>1. SUFFICES ASSUME MInv PROVE RowsBelong
    OBVIOUS
  <2>2. MessagesTypeOK
    BY <2>1, MessagesAssumption, TypeFact DEF MInv
  <2>3. \A k \in DOMAIN rows : rows[k] \in Range(rows)
    BY DEF Range
  <2>. QED
    BY <2>1, <2>2, <2>3 DEF MInv, Belong, RowsBelong
<1>. QED
  BY <1>1, MessagesInductive, PTL

(***************************************************************************)
(* The rows of the open chat are an unbroken run of messages, but for the  *)
(* excused ones: pages and updates join each other whatever the order they *)
(* come in, also where updatesReset() or channelReset() reloaded the chat  *)
(* or updates are handed over a second time.  Where a supergroup's         *)
(* sequence jumped and channelReset() returned, what it jumped over is     *)
(* excused: nothing reloads the chat then.                                 *)
(***************************************************************************)
THEOREM NoHoleHolds == Spec => []NoHole
<1>1. MInv => NoHole
  BY MessagesAssumption, HoleFact DEF MInv
<1>. QED
  BY <1>1, MessagesInductive, PTL

(***************************************************************************)
(* markRead() marks nothing as read, from the mark the chat was opened at  *)
(* on, that was not a row or excused, the messages an unreloaded           *)
(* supergroup jumped over among them.                                      *)
(***************************************************************************)
THEOREM ReadWasShownHolds == Spec => []ReadWasShown
<1>1. MInv => ReadWasShown
  BY DEF MInv
<1>. QED
  BY <1>1, MessagesInductive, PTL
=============================================================================
