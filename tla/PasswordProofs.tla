--------------------------- MODULE PasswordProofs ---------------------------
(***************************************************************************)
(* Every proof of the password check has parameters of its own, and what   *)
(* the user left is forgotten, for any number of submissions, openings,    *)
(* lost connections and renamed requests.                                  *)
(***************************************************************************)
EXTENDS Password, FiniteSetTheorems, TLAPS

\* Ids are drawn once and grow; 0 stands for none.
Numbered ==
  /\ \A c \in calls : c.id \in 1 .. lastId
  /\ \A c, d \in calls : c.id = d.id => c = d
  /\ passwordRequestId <= lastId
  /\ left \subseteq 1 .. submits

\* The fetch that is waited for is the one of the pending password.
FetchIsPending ==
  \A c \in calls :
    c.kind = "get" /\ c.id = passwordRequestId => pendingPassword \in {0, c.for}

\* An answered fetch: its srp_id is not coming again.
Spent(n, cs, last) == n \in 1 .. last /\ \A c \in cs : c.id # n

\* What a thread, an event or a proof was made from.
Genuine(x, cs, last) == x.for = x.pw /\ Spent(x.srp, cs, last)

\* An srp_id is with one thread, or in one event, or in one proof.
SpentOnce ==
  /\ \A t \in threads : Genuine(t, calls, lastId)
  /\ \A i \in DOMAIN posted : Genuine(posted[i], calls, lastId)
  /\ \A i \in DOMAIN proofs : Genuine(proofs[i], calls, lastId)
  /\ \A t, u \in threads : t.srp = u.srp => t = u
  /\ \A t \in threads :
       /\ \A i \in DOMAIN posted : t.srp # posted[i].srp
       /\ \A i \in DOMAIN proofs : t.srp # proofs[i].srp
  /\ \A i, j \in DOMAIN posted : posted[i].srp = posted[j].srp => i = j
  /\ \A i \in DOMAIN posted, j \in DOMAIN proofs : posted[i].srp # proofs[j].srp
  /\ \A i, j \in DOMAIN proofs : proofs[i].srp = proofs[j].srp => i = j

\* The inductive invariant.
IInv == PasswordTypeOK /\ Numbered /\ FetchIsPending /\ SpentOnce /\ LeftIsForgotten

-----------------------------------------------------------------------------
\* The numbers of the flow, one by one.
LEMMA Numbers ==
  ASSUME PasswordTypeOK
  PROVE  /\ pendingPassword \in Nat /\ srpWorker \in Nat /\ passwordRequestId \in Nat
         /\ checkPasswordRequestId \in Nat /\ lastId \in Nat /\ submits \in Nat
         /\ opens \in Nat /\ blips \in Nat /\ renames \in Nat
BY DEF PasswordTypeOK

(***************************************************************************)
(* Sending and cancelling.                                                 *)
(***************************************************************************)
\* A request is sent under the next id, or lost.
LEMMA SendFact ==
  ASSUME NEW cs \in SUBSET Call, lastId \in Nat, NEW kind \in {"get", "check"},
         NEW for \in Nat, Send(cs, kind, for)
  PROVE  /\ lastId' = lastId + 1 /\ lastId' \in Nat
         /\ calls' \in SUBSET Call
         /\ \A c \in calls' : c \in cs \/
              (c.id = lastId + 1 /\ c.kind = kind /\ c.for = for)
         /\ \A c, d \in calls' : c \notin cs /\ d \notin cs => c = d
BY DEF Send, Call

\* A cancelled thread is the same thread.
LEMMA CancelFact ==
  ASSUME PasswordTypeOK, CancelPasswordCheck
  PROVE  /\ passwordRequestId' = 0 /\ pendingPassword' = 0
         /\ checkPasswordRequestId' = 0 /\ srpWorker' = 0 /\ srpRetried' = FALSE
         /\ threads' \subseteq Thread
         /\ \A u \in threads' : \E t \in threads :
              u.srp = t.srp /\ u.pw = t.pw /\ u.for = t.for
         /\ (\A t, u \in threads : t.srp = u.srp => t = u) =>
              \A t, u \in threads' : t.srp = u.srp => t = u
<1>. DEFINE f(t) == IF t.srp = srpWorker THEN [t EXCEPT !.heard = FALSE, !.cancel = TRUE]
                    ELSE t
<1>1. threads' = {f(t) : t \in threads}
  BY DEF CancelPasswordCheck
<1>2. \A t \in threads : /\ f(t) \in Thread /\ f(t).srp = t.srp /\ f(t).pw = t.pw
                         /\ f(t).for = t.for
  BY DEF PasswordTypeOK, Thread
<1>. HIDE DEF f
<1>3. /\ passwordRequestId' = 0 /\ pendingPassword' = 0
      /\ checkPasswordRequestId' = 0 /\ srpWorker' = 0 /\ srpRetried' = FALSE
  BY DEF CancelPasswordCheck, Forget
<1>. QED
  BY <1>1, <1>2, <1>3

-----------------------------------------------------------------------------
(***************************************************************************)
(* Steps that make no proof: requests come and go, flags are set, threads  *)
(* end or are told to.                                                     *)
(***************************************************************************)
\* What such a step does to calls and to the products of the flow.
Sound ==
  /\ lastId' \in Nat /\ lastId' >= lastId
  /\ \A c \in calls' : c \in calls \/ c.id \in lastId + 1 .. lastId'
  /\ \A c, d \in calls' : c.id = d.id => c = d
  /\ \A u \in threads' : \E t \in threads : u.srp = t.srp /\ u.pw = t.pw /\ u.for = t.for
  /\ \A t, u \in threads' : t.srp = u.srp => t = u
  /\ UNCHANGED proofs

LEMMA SoundKeeps ==
  ASSUME IInv, Sound, UNCHANGED posted
  PROVE  SpentOnce' /\ \A c \in calls' : c.id \in 1 .. lastId'
<1>. USE DEF IInv, PasswordTypeOK
<1>1. \A n : Spent(n, calls, lastId) => Spent(n, calls', lastId')
  BY DEF Sound, Spent
<1>2. \A c \in calls' : c.id \in 1 .. lastId'
  BY DEF Sound, Numbered
<1>3. \A x : Genuine(x, calls, lastId) => Genuine(x, calls', lastId')
  BY <1>1 DEF Genuine
<1>4. \A u \in threads' : Genuine(u, calls', lastId')
  BY <1>1 DEF Sound, SpentOnce, Genuine
<1>5. /\ \A i \in DOMAIN posted' : Genuine(posted'[i], calls', lastId')
      /\ \A i \in DOMAIN proofs' : Genuine(proofs'[i], calls', lastId')
  BY <1>3 DEF Sound, SpentOnce
<1>. QED
  BY <1>2, <1>4, <1>5 DEF SpentOnce, Sound

\* A step that ends the flow.
LEMMA QuitKeeps ==
  ASSUME IInv, Sound, UNCHANGED posted, PasswordTypeOK',
         passwordRequestId' = 0, pendingPassword' = 0, srpWorker' = 0,
         left' \subseteq 1 .. submits'
  PROVE  IInv'
<1>1. SpentOnce' /\ \A c \in calls' : c.id \in 1 .. lastId'
  BY SoundKeeps
<1>2. Numbered' /\ FetchIsPending'
  BY <1>1 DEF Sound, Numbered, FetchIsPending, PasswordTypeOK
<1>3. \A t \in threads' : t.srp \in 1 .. lastId'
  BY <1>1 DEF SpentOnce, Genuine, Spent
<1>4. LeftIsForgotten'
  BY <1>1, <1>3 DEF LeftIsForgotten
<1>. QED
  BY <1>1, <1>2, <1>4 DEF IInv

\* A step that leaves the flow alone, or has what it waited for.
LEMMA SameKeeps ==
  ASSUME IInv, Sound, UNCHANGED posted, PasswordTypeOK',
         passwordRequestId' \in {0, passwordRequestId},
         UNCHANGED <<pendingPassword, srpWorker, left>>, submits' >= submits
  PROVE  IInv'
<1>. USE DEF PasswordTypeOK
<1>1. SpentOnce' /\ \A c \in calls' : c.id \in 1 .. lastId'
  BY SoundKeeps
<1>2. Numbered'
  BY <1>1 DEF IInv, Sound, Numbered
<1>3. \A c \in calls' : c.id = passwordRequestId' => c \in calls /\ c.id = passwordRequestId
  BY <1>1 DEF IInv, Sound, Numbered
<1>4. FetchIsPending'
  BY <1>3 DEF IInv, FetchIsPending
<1>5. LeftIsForgotten'
  BY <1>3 DEF IInv, Sound, LeftIsForgotten
<1>. QED
  BY <1>1, <1>2, <1>4, <1>5 DEF IInv

\* A step that waits for a fetch of the pending password.
LEMMA AskKeeps ==
  ASSUME IInv, Sound, UNCHANGED posted, PasswordTypeOK',
         lastId' = lastId + 1, passwordRequestId' = lastId + 1,
         \A c \in calls' : c.id = lastId + 1 => c.for = pendingPassword',
         pendingPassword' \notin left,
         UNCHANGED <<srpWorker, left>>, submits' >= submits
  PROVE  IInv'
<1>. USE DEF PasswordTypeOK
<1>1. /\ SpentOnce' /\ \A c \in calls' : c.id \in 1 .. lastId'
      /\ lastId \in Nat /\ submits \in Nat /\ submits' \in Nat
  BY SoundKeeps, Numbers DEF IInv
<1>2. Numbered'
  BY <1>1 DEF IInv, Sound, Numbered
<1>4. FetchIsPending'
  BY <1>1 DEF FetchIsPending
<1>3. LeftIsForgotten'
  BY <1>1 DEF IInv, Sound, LeftIsForgotten
<1>. QED
  BY <1>1, <1>2, <1>3, <1>4 DEF IInv

\* Requests taken out, and one perhaps sent.
LEMMA SendSound ==
  ASSUME IInv, NEW cs \in SUBSET calls, NEW kind \in {"get", "check"}, NEW for \in Nat,
         Send(cs, kind, for), UNCHANGED <<threads, proofs>>
  PROVE  Sound /\ calls' \subseteq Call /\ lastId' \in Nat /\ lastId' = lastId + 1
<1>. USE DEF IInv
<1>1. lastId \in Nat /\ cs \in SUBSET Call
  BY Numbers DEF PasswordTypeOK
<1>4. /\ lastId' = lastId + 1 /\ calls' \in SUBSET Call
      /\ \A c \in calls' : c \in cs \/ (c.id = lastId + 1 /\ c.kind = kind /\ c.for = for)
      /\ \A c, d \in calls' : c \notin cs /\ d \notin cs => c = d
  BY <1>1 DEF Send, Call
<1>2. \A c \in cs : c.id # lastId + 1
  BY <1>1 DEF Numbered
<1>3. \A c, d \in calls' : c.id = d.id => c = d
  BY <1>2, <1>4 DEF Numbered
<1>. QED
  BY <1>1, <1>3, <1>4 DEF Sound, SpentOnce

LEMMA NothingSound ==
  ASSUME IInv, NEW cs \in SUBSET calls, SendNothing(cs), UNCHANGED <<threads, proofs>>
  PROVE  Sound /\ calls' \subseteq Call /\ lastId' \in Nat
BY DEF IInv, PasswordTypeOK, SendNothing, Sound, Numbered, SpentOnce

\* Cancelling beside that.
LEMMA CancelSound ==
  ASSUME IInv, NEW cs \in SUBSET calls, CancelPasswordCheck, UNCHANGED proofs,
         SendNothing(cs) \/ Send(cs, "get", 0)
  PROVE  Sound /\ calls' \subseteq Call /\ lastId' \in Nat
<1>. USE DEF IInv, PasswordTypeOK
<1>1. /\ \A u \in threads' : \E t \in threads :
           u.srp = t.srp /\ u.pw = t.pw /\ u.for = t.for
      /\ \A t, u \in threads' : t.srp = u.srp => t = u
  BY CancelFact DEF SpentOnce
<1>2. CASE SendNothing(cs)
  BY <1>1, <1>2 DEF SendNothing, Sound, Numbered
<1>3. CASE Send(cs, "get", 0)
  <2>1. /\ lastId' = lastId + 1 /\ calls' \in SUBSET Call
        /\ \A c \in calls' : c \in cs \/ (c.id = lastId + 1 /\ c.kind = "get" /\ c.for = 0)
        /\ \A c, d \in calls' : c \notin cs /\ d \notin cs => c = d
    BY <1>3, SendFact
  <2>2. \A c \in cs : c.id # lastId + 1
    BY DEF Numbered
  <2>3. \A c, d \in calls' : c.id = d.id => c = d
    BY <2>1, <2>2 DEF Numbered
  <2>. QED
    BY <1>1, <2>1, <2>3 DEF Sound
<1>. QED
  BY <1>2, <1>3

\* A request that is cancelled with what it served.
LEMMA CancelKeeps ==
  ASSUME IInv, CancelPasswordCheck, UNCHANGED <<posted, proofs, link, signedIn>>,
         NEW cs \in SUBSET calls, SendNothing(cs) \/ Send(cs, "get", 0),
         onPage' \in BOOLEAN, authProgress' \in BOOLEAN,
         UNCHANGED <<bounds, strays>>, left' \subseteq 1 .. submits
  PROVE  IInv'
<1>1. /\ Sound /\ calls' \subseteq Call /\ lastId' \in Nat
  BY CancelSound
<1>2. /\ passwordRequestId' = 0 /\ pendingPassword' = 0
      /\ checkPasswordRequestId' = 0 /\ srpWorker' = 0 /\ srpRetried' = FALSE
      /\ threads' \subseteq Thread
  BY CancelFact DEF IInv
<1>3. PasswordTypeOK'
  <2>1. UNCHANGED <<submits, opens, blips, renames, strays>>
    BY DEF bounds
  <2>2. /\ {pendingPassword', srpWorker', passwordRequestId', checkPasswordRequestId',
            lastId', submits', opens', blips', renames'} \subseteq Nat
        /\ left' \subseteq Nat
    BY <1>1, <1>2, <2>1, Numbers DEF IInv
  <2>. QED
    BY <1>1, <1>2, <2>1, <2>2 DEF IInv, PasswordTypeOK
<1>. QED
  BY <1>1, <1>2, <1>3, QuitKeeps DEF bounds

-----------------------------------------------------------------------------
(***************************************************************************)
(* One step per handler.                                                   *)
(***************************************************************************)
\* The page's steps: OpenPage, the button and the back arrow.
LEMMA PageSteps ==
  ASSUME PasswordAssumption, IInv, OpenPage \/ Submit \/ Back
  PROVE  IInv'
<1>0. /\ pendingPassword \in Nat /\ srpWorker \in Nat /\ passwordRequestId \in Nat
      /\ checkPasswordRequestId \in Nat /\ lastId \in Nat /\ submits \in Nat
      /\ opens \in Nat /\ blips \in Nat /\ renames \in Nat
  BY Numbers DEF IInv
<1>1. CASE OpenPage
  <2>1. /\ Send(calls, "get", 0) /\ opens' = opens + 1
        /\ onPage' = TRUE /\ authProgress' = FALSE
        /\ UNCHANGED <<flow, threads, posted, link, signedIn, submits, blips, renames, history>>
    BY <1>1 DEF OpenPage
  <2>2. /\ Sound /\ calls' \subseteq Call /\ lastId' \in Nat
    BY <2>1, SendSound DEF history
  <2>3. PasswordTypeOK'
    <3>1. submits + 1 \in Nat /\ opens + 1 \in Nat /\ lastId + 1 \in Nat
      BY <1>0
    <3>. QED
      BY <2>1, <2>2, <3>1, Zenon DEF IInv, PasswordTypeOK, flow, history
  <2>. QED
    BY <1>0, <2>1, <2>2, <2>3, SameKeeps DEF flow, history
<1>2. CASE Submit /\ srpWorker # 0
  <2>1. /\ SendNothing(calls) /\ submits' = submits + 1 /\ authProgress' = TRUE
        /\ UNCHANGED flow
        /\ UNCHANGED <<threads, posted, onPage, link, signedIn, opens, blips, renames, history>>
    BY <1>2 DEF Submit
  <2>2. /\ Sound /\ calls' \subseteq Call /\ lastId' \in Nat
    BY <2>1, NothingSound DEF history
  <2>3. PasswordTypeOK'
    <3>1. submits + 1 \in Nat /\ opens + 1 \in Nat /\ lastId + 1 \in Nat
      BY <1>0
    <3>. QED
      BY <2>1, <2>2, <3>1, Zenon DEF IInv, PasswordTypeOK, flow, history
  <2>. QED
    BY <1>0, <2>1, <2>2, <2>3, SameKeeps DEF flow, history
<1>3. CASE Submit /\ srpWorker = 0
  <2>1. /\ pendingPassword' = submits + 1 /\ srpRetried' = FALSE
        /\ passwordRequestId' = lastId + 1 /\ Send(calls, "get", submits + 1)
        /\ UNCHANGED <<srpWorker, checkPasswordRequestId>>
        /\ submits' = submits + 1 /\ authProgress' = TRUE
        /\ UNCHANGED <<threads, posted, onPage, link, signedIn, opens, blips, renames, history>>
    BY <1>3 DEF Submit, NextSubmit
  <2>2. /\ Sound /\ calls' \subseteq Call /\ lastId' \in Nat /\ lastId' = lastId + 1
    BY <1>0, <2>1, SendSound DEF history
  <2>3. PasswordTypeOK'
    <3>1. submits + 1 \in Nat /\ opens + 1 \in Nat /\ lastId + 1 \in Nat
      BY <1>0
    <3>. QED
      BY <2>1, <2>2, <3>1, Zenon DEF IInv, PasswordTypeOK, history
  <2>4. \A c \in calls' : c.id = lastId + 1 => c.for = pendingPassword'
    BY <1>0, <2>1 DEF IInv, Numbered, Send
  <2>5. pendingPassword' \notin left
    BY <1>0, <2>1 DEF IInv, Numbered
  <2>. QED
    BY <1>0, <2>1, <2>2, <2>3, <2>4, <2>5, AskKeeps DEF history
<1>4. CASE Back
  <2>1. /\ onPage' = FALSE /\ authProgress' = FALSE /\ CancelPasswordCheck
        /\ left' = 1 .. submits /\ SendNothing(calls)
        /\ UNCHANGED <<posted, link, signedIn, bounds, proofs, strays>>
    BY <1>4 DEF Back, SendNothing
  <2>. QED
    BY <2>1, CancelKeeps
<1>. QED
  BY <1>1, <1>2, <1>3, <1>4 DEF Submit

\* The answers that start no worker and ask for nothing again.
LEMMA AnswerSteps ==
  ASSUME IInv, NEW c \in calls,
         GotNoParameters(c) \/ FetchRefused(c) \/ ProofAccepted(c) \/ ProofRefused(c)
  PROVE  IInv'
<1>0. calls \ {c} \in SUBSET calls
  OBVIOUS
<1>1. CASE GotNoParameters(c) /\ Awaited(c) /\ pendingPassword # 0
  <2>1. /\ CancelPasswordCheck /\ authProgress' = FALSE /\ SendNothing(calls \ {c})
        /\ UNCHANGED <<onPage, posted, link, signedIn, bounds, history>>
    BY <1>1 DEF GotNoParameters
  <2>2. /\ onPage' \in BOOLEAN /\ authProgress' \in BOOLEAN /\ left' \subseteq 1 .. submits
        /\ UNCHANGED <<proofs, strays>>
    BY <2>1 DEF IInv, PasswordTypeOK, Numbered, history
  <2>. QED
    BY <1>0, <2>1, <2>2, CancelKeeps
<1>2. CASE GotNoParameters(c) /\ ~(Awaited(c) /\ pendingPassword # 0)
  <2>1. /\ SendNothing(calls \ {c}) /\ passwordRequestId' \in {0, passwordRequestId}
        /\ UNCHANGED <<pendingPassword, srpWorker, srpRetried,
                       checkPasswordRequestId, threads, authProgress>>
        /\ UNCHANGED <<onPage, posted, link, signedIn, bounds, history>>
    BY <1>2 DEF GotNoParameters
  <2>2. Sound /\ calls' \subseteq Call /\ lastId' \in Nat
    BY <1>0, <2>1, NothingSound DEF history
  <2>3. PasswordTypeOK'
    <3>1. passwordRequestId' \in Nat
      BY <2>1 DEF IInv, PasswordTypeOK
    <3>. QED
      BY <2>1, <2>2, <3>1, Zenon DEF IInv, PasswordTypeOK, bounds, history
  <2>4. submits' >= submits
    BY <2>1 DEF IInv, PasswordTypeOK, bounds
  <2>. QED
    BY <2>1, <2>2, <2>3, <2>4, SameKeeps DEF bounds, history
<1>3. CASE FetchRefused(c) \/ ProofAccepted(c)
  <2>1. /\ SendNothing(calls \ {c}) /\ authProgress' = FALSE
        /\ onPage' \in BOOLEAN /\ signedIn' \in BOOLEAN
        /\ UNCHANGED <<flow, threads, posted, link, bounds, history>>
    BY <1>3 DEF FetchRefused, ProofAccepted, IInv, PasswordTypeOK
  <2>2. Sound /\ calls' \subseteq Call /\ lastId' \in Nat
    BY <1>0, <2>1, NothingSound DEF history
  <2>3. PasswordTypeOK'
    BY <2>1, <2>2, Zenon DEF IInv, PasswordTypeOK, flow, bounds, history
  <2>4. submits' >= submits
    BY <2>1 DEF IInv, PasswordTypeOK, bounds
  <2>. QED
    BY <2>1, <2>2, <2>3, <2>4, SameKeeps DEF flow, bounds, history
<1>4. CASE ProofRefused(c) /\ checkPasswordRequestId = c.id
  <2>1. /\ CancelPasswordCheck /\ authProgress' = FALSE
        /\ SendNothing(calls \ {c}) \/ Send(calls \ {c}, "get", 0)
        /\ UNCHANGED <<onPage, posted, link, signedIn, bounds, history>>
    BY <1>4 DEF ProofRefused
  <2>2. /\ onPage' \in BOOLEAN /\ authProgress' \in BOOLEAN /\ left' \subseteq 1 .. submits
        /\ UNCHANGED <<proofs, strays>>
    BY <2>1 DEF IInv, PasswordTypeOK, Numbered, history
  <2>. QED
    BY <1>0, <2>1, <2>2, CancelKeeps
<1>5. CASE ProofRefused(c) /\ checkPasswordRequestId # c.id
  <2>1. /\ UNCHANGED <<flow, threads>> /\ authProgress' = FALSE
        /\ SendNothing(calls \ {c}) \/ Send(calls \ {c}, "get", 0)
        /\ UNCHANGED <<onPage, posted, link, signedIn, bounds, history>>
    BY <1>5 DEF ProofRefused
  <2>2. Sound /\ calls' \subseteq Call /\ lastId' \in Nat
    BY <1>0, <2>1, NothingSound, SendSound DEF history
  <2>3. PasswordTypeOK'
    BY <2>1, <2>2, Zenon DEF IInv, PasswordTypeOK, flow, bounds, history
  <2>4. submits' >= submits
    BY <2>1 DEF IInv, PasswordTypeOK, bounds
  <2>. QED
    BY <2>1, <2>2, <2>3, <2>4, SameKeeps DEF flow, bounds, history
<1>. QED
  BY <1>1, <1>2, <1>3, <1>4, <1>5

\* Stale parameters: fetched again, or given up.
LEMMA StaleStep ==
  ASSUME IInv, NEW c \in calls, ProofStale(c)
  PROVE  IInv'
<1>0. /\ calls \ {c} \in SUBSET calls /\ pendingPassword \in Nat /\ lastId \in Nat
      /\ lastId + 1 \in Nat
  BY DEF IInv, PasswordTypeOK
<1>1. CASE checkPasswordRequestId = c.id /\ MayRetry
  <2>1. /\ checkPasswordRequestId' = 0 /\ srpRetried' = TRUE
        /\ passwordRequestId' = lastId + 1
        /\ Send(calls \ {c}, "get", pendingPassword)
        /\ UNCHANGED <<pendingPassword, srpWorker, threads, authProgress>>
        /\ UNCHANGED <<onPage, posted, link, signedIn, bounds, history>>
    BY <1>1 DEF ProofStale, Refetch
  <2>2. Sound /\ calls' \subseteq Call /\ lastId' \in Nat /\ lastId' = lastId + 1
    BY <1>0, <2>1, SendSound DEF history
  <2>3. PasswordTypeOK'
    BY <1>0, <2>1, <2>2, Zenon DEF IInv, PasswordTypeOK, bounds, history
  <2>4. submits' >= submits
    BY <2>1 DEF IInv, PasswordTypeOK, bounds
  <2>5. \A d \in calls' : d.id = lastId + 1 => d.for = pendingPassword'
    BY <1>0, <2>1 DEF IInv, Numbered, Send
  <2>6. pendingPassword' \notin left
    BY <2>1 DEF IInv, LeftIsForgotten
  <2>. QED
    BY <2>1, <2>2, <2>3, <2>4, <2>5, <2>6, AskKeeps DEF bounds, history
<1>2. CASE checkPasswordRequestId = c.id /\ ~MayRetry
  <2>1. /\ CancelPasswordCheck /\ authProgress' = FALSE /\ SendNothing(calls \ {c})
        /\ UNCHANGED <<onPage, posted, link, signedIn, bounds, history>>
    BY <1>2 DEF ProofStale
  <2>2. /\ onPage' \in BOOLEAN /\ authProgress' \in BOOLEAN /\ left' \subseteq 1 .. submits
        /\ UNCHANGED <<proofs, strays>>
    BY <2>1 DEF IInv, PasswordTypeOK, Numbered, history
  <2>. QED
    BY <1>0, <2>1, <2>2, CancelKeeps
<1>3. CASE checkPasswordRequestId # c.id
  <2>1. /\ UNCHANGED <<flow, threads>> /\ authProgress' = FALSE /\ SendNothing(calls \ {c})
        /\ UNCHANGED <<onPage, posted, link, signedIn, bounds, history>>
    BY <1>3 DEF ProofStale
  <2>2. Sound /\ calls' \subseteq Call /\ lastId' \in Nat
    BY <1>0, <2>1, NothingSound DEF history
  <2>3. PasswordTypeOK'
    BY <2>1, <2>2, Zenon DEF IInv, PasswordTypeOK, flow, bounds, history
  <2>4. submits' >= submits
    BY <2>1 DEF IInv, PasswordTypeOK, bounds
  <2>. QED
    BY <2>1, <2>2, <2>3, <2>4, SameKeeps DEF flow, bounds, history
<1>. QED
  BY <1>1, <1>2, <1>3

\* The connection's steps, and a request sent again under another id.
LEMMA LinkSteps ==
  ASSUME IInv, Disconnected \/ Initialized \/ \E c \in calls : Renamed(c)
  PROVE  IInv'
<1>0. /\ lastId \in Nat /\ lastId + 1 \in Nat /\ blips + 1 \in Nat /\ renames + 1 \in Nat
  BY DEF IInv, PasswordTypeOK
<1>1. CASE Disconnected
  <2>1. /\ blips' = blips + 1 /\ link' = FALSE /\ calls' \subseteq calls /\ authProgress' = FALSE
        /\ UNCHANGED <<flow, threads, posted, onPage, lastId, signedIn, submits, opens,
                       renames, history>>
    BY <1>1 DEF Disconnected
  <2>2. Sound
    BY <1>0, <2>1 DEF IInv, Sound, SpentOnce, Numbered, history
  <2>3. calls' \subseteq Call
    BY <2>1 DEF IInv, PasswordTypeOK
  <2>4. PasswordTypeOK'
    BY <1>0, <2>1, <2>3, Zenon DEF IInv, PasswordTypeOK, flow, history
  <2>5. submits' >= submits
    BY <2>1 DEF IInv, PasswordTypeOK
  <2>. QED
    BY <2>1, <2>2, <2>4, <2>5, SameKeeps DEF flow, history
<1>2. CASE Initialized
  <2>1. /\ link' = TRUE /\ onPage' = FALSE /\ authProgress' = FALSE
        /\ UNCHANGED <<flow, threads, posted, calls, lastId, signedIn, bounds, history>>
    BY <1>2 DEF Initialized
  <2>2. Sound
    BY <1>0, <2>1 DEF IInv, Sound, SpentOnce, Numbered, history
  <2>3. PasswordTypeOK'
    BY <1>0, <2>1, Zenon DEF IInv, PasswordTypeOK, flow, bounds, history
  <2>4. submits' >= submits
    BY <2>1 DEF IInv, PasswordTypeOK, bounds
  <2>. QED
    BY <2>1, <2>2, <2>3, <2>4, SameKeeps DEF flow, bounds, history
<1>3. CASE \E c \in calls : Renamed(c)
  <2>1. PICK c \in calls : Renamed(c)
    BY <1>3
  <2>. DEFINE d == [c EXCEPT !.id = lastId + 1]
  <2>2. /\ renames' = renames + 1 /\ lastId' = lastId + 1
        /\ calls' = (calls \ {c}) \cup {d} /\ strays' = strays \cup {c.id}
        /\ authProgress' \in {authProgress, FALSE}
        /\ UNCHANGED <<flow, threads, posted, onPage, link, signedIn, submits, opens, blips,
                       proofs, left>>
    BY <2>1 DEF Renamed
  <2>3. d \in Call /\ d.id = lastId + 1 /\ c.id \in Nat
    BY <1>0 DEF IInv, PasswordTypeOK, Call
  <2>. HIDE DEF d
  <2>4. \A e \in calls : e.id # d.id
    BY <1>0, <2>3 DEF IInv, Numbered
  <2>5. Sound
    BY <1>0, <2>2, <2>3, <2>4 DEF IInv, Sound, SpentOnce, Numbered
  <2>6. authProgress' \in BOOLEAN /\ calls' \subseteq Call /\ strays' \subseteq Nat
    BY <2>2, <2>3 DEF IInv, PasswordTypeOK
  <2>7. PasswordTypeOK'
    BY <1>0, <2>2, <2>6, Zenon DEF IInv, PasswordTypeOK, flow
  <2>8. submits' >= submits
    BY <2>2 DEF IInv, PasswordTypeOK
  <2>. QED
    BY <2>2, <2>5, <2>7, <2>8, SameKeeps DEF flow
<1>. QED
  BY <1>1, <1>2, <1>3

\* The first of a queue, and the rest.
LEMMA TailFact ==
  ASSUME NEW S, NEW q \in Seq(S), q # <<>>
  PROVE  /\ Tail(q) \in Seq(S) /\ 1 \in DOMAIN q /\ Head(q) = q[1] /\ Head(q) \in S
         /\ \A i \in DOMAIN Tail(q) : i + 1 \in DOMAIN q /\ i + 1 # 1 /\ Tail(q)[i] = q[i + 1]
         /\ \A i, j \in DOMAIN Tail(q) : i + 1 = j + 1 => i = j
OBVIOUS

\* A queue with one more.
LEMMA AppendFact ==
  ASSUME NEW S, NEW q \in Seq(S), NEW x \in S
  PROVE  /\ Append(q, x) \in Seq(S)
         /\ DOMAIN Append(q, x) = DOMAIN q \cup {Len(q) + 1} /\ Len(q) + 1 \notin DOMAIN q
         /\ Append(q, x)[Len(q) + 1] = x
         /\ \A i \in DOMAIN q : Append(q, x)[i] = q[i]
OBVIOUS

\* The worker is started with the answer to the fetch that was waited for.
LEMMA WorkerStarts ==
  ASSUME IInv, NEW c \in calls, GotParameters(c)
  PROVE  IInv'
<1>0. /\ calls \ {c} \in SUBSET calls /\ c.id \in Nat /\ c.for \in Nat
      /\ pendingPassword \in Nat
  BY DEF IInv, PasswordTypeOK, Call
<1>1. /\ SendNothing(calls \ {c}) /\ c.kind = "get"
      /\ UNCHANGED <<pendingPassword, srpRetried, checkPasswordRequestId, posted, page,
                     link, signedIn, bounds, history>>
  BY DEF GotParameters, Answered
<1>2. CASE ~Awaited(c) \/ pendingPassword = 0
  <2>1. /\ passwordRequestId' \in {0, passwordRequestId} /\ UNCHANGED <<srpWorker, threads>>
    BY <1>2 DEF GotParameters
  <2>2. Sound /\ calls' \subseteq Call /\ lastId' \in Nat
    BY <1>0, <1>1, <2>1, NothingSound DEF history
  <2>3. passwordRequestId' \in Nat
    BY <2>1 DEF IInv, PasswordTypeOK
  <2>4. PasswordTypeOK'
    BY <1>1, <2>1, <2>2, <2>3, Zenon DEF IInv, PasswordTypeOK, page, bounds, history
  <2>5. submits' >= submits
    BY <1>1 DEF IInv, PasswordTypeOK, bounds
  <2>. QED
    BY <1>1, <2>1, <2>2, <2>4, <2>5, SameKeeps DEF bounds, history
<1>3. CASE Awaited(c) /\ pendingPassword # 0
  <2>. DEFINE w == [srp |-> c.id, pw |-> pendingPassword, for |-> c.for,
                    state |-> "computing", cancel |-> FALSE, heard |-> TRUE]
  <2>1. /\ passwordRequestId' = 0 /\ srpWorker' = c.id /\ threads' = threads \cup {w}
        /\ calls' = calls \ {c} /\ lastId' = lastId
    BY <1>1, <1>3 DEF GotParameters, SendNothing
  <2>2. /\ w \in Thread /\ w.srp = c.id /\ w.pw = pendingPassword /\ w.for = c.for
    BY <1>0 DEF Thread
  <2>. HIDE DEF w
  <2>3. PasswordTypeOK'
    <3>1. /\ threads' \subseteq Thread /\ calls' \subseteq Call /\ 0 \in Nat
          /\ passwordRequestId' \in Nat
      BY <2>1, <2>2 DEF IInv, PasswordTypeOK
    <3>. QED
      BY <1>0, <1>1, <2>1, <3>1, Zenon DEF IInv, PasswordTypeOK, page, bounds, history
  <2>4. Numbered' /\ FetchIsPending'
    BY <1>1, <2>1 DEF IInv, PasswordTypeOK, Numbered, FetchIsPending, bounds, history
  <2>5. \A n : Spent(n, calls, lastId) => Spent(n, calls', lastId') /\ n # c.id
    BY <2>1 DEF Spent
  <2>6. Spent(c.id, calls', lastId')
    BY <2>1 DEF IInv, Numbered, Spent
  <2>7. Genuine(w, calls', lastId')
    BY <1>1, <1>3, <2>2, <2>6 DEF IInv, FetchIsPending, Awaited, Genuine
  <2>8. /\ \A t \in threads : Genuine(t, calls', lastId') /\ t.srp # c.id
        /\ \A i \in DOMAIN posted : Genuine(posted[i], calls', lastId') /\ posted[i].srp # c.id
        /\ \A i \in DOMAIN proofs : Genuine(proofs[i], calls', lastId') /\ proofs[i].srp # c.id
    BY <1>1, <2>5 DEF IInv, SpentOnce, Genuine, history
  <2>9. SpentOnce'
    <3>1. posted' = posted /\ proofs' = proofs
      BY <1>1 DEF history
    <3>2. /\ \A t \in threads' : Genuine(t, calls', lastId')
          /\ \A i \in DOMAIN posted' : Genuine(posted'[i], calls', lastId')
          /\ \A i \in DOMAIN proofs' : Genuine(proofs'[i], calls', lastId')
      BY <2>1, <2>7, <2>8, <3>1
    <3>3. /\ \A t, u \in threads' : t.srp = u.srp => t = u
          /\ \A t \in threads' :
               /\ \A i \in DOMAIN posted' : t.srp # posted'[i].srp
               /\ \A i \in DOMAIN proofs' : t.srp # proofs'[i].srp
      BY <2>1, <2>2, <2>8, <3>1 DEF IInv, SpentOnce
    <3>. QED
      BY <3>1, <3>2, <3>3 DEF IInv, SpentOnce
  <2>10. LeftIsForgotten'
    BY <1>0, <1>1, <2>1, <2>2, <2>8 DEF IInv, LeftIsForgotten, Numbered, history
  <2>. QED
    BY <2>3, <2>4, <2>9, <2>10 DEF IInv
<1>. QED
  BY <1>2, <1>3

\* The worker's own steps.
LEMMA WorkerSteps ==
  ASSUME IInv, NEW t \in threads,
         WorkerChecks(t) \/ \E k \in {"proved", "failed"} : WorkerReports(t, k)
  PROVE  IInv'
<1>1. CASE WorkerChecks(t)
  <2>. DEFINE u == [t EXCEPT !.state = "reporting"]
  <2>1. /\ threads' = (threads \ {t}) \cup (IF t.cancel THEN {} ELSE {u})
        /\ UNCHANGED <<flow, posted, page, link, calls, lastId, signedIn, bounds, history>>
    BY <1>1 DEF WorkerChecks
  <2>2. u \in Thread /\ u.srp = t.srp /\ u.pw = t.pw /\ u.for = t.for
    BY DEF IInv, PasswordTypeOK, Thread
  <2>. HIDE DEF u
  <2>3. Sound
    BY <2>1, <2>2 DEF IInv, PasswordTypeOK, Sound, SpentOnce, Numbered, history
  <2>4. threads' \subseteq Thread
    BY <2>1, <2>2 DEF IInv, PasswordTypeOK
  <2>5. PasswordTypeOK'
    BY <2>1, <2>4, Zenon DEF IInv, PasswordTypeOK, flow, page, bounds, history
  <2>6. submits' >= submits
    BY <2>1 DEF IInv, PasswordTypeOK, bounds
  <2>. QED
    BY <2>1, <2>3, <2>5, <2>6, SameKeeps DEF flow, bounds, history
<1>2. ASSUME NEW k \in {"proved", "failed"}, WorkerReports(t, k)
      PROVE  IInv'
  <2>. DEFINE e == [kind |-> k, srp |-> t.srp, pw |-> t.pw, for |-> t.for]
  <2>1. /\ threads' = threads \ {t}
        /\ posted' = IF t.heard THEN Append(posted, e) ELSE posted
        /\ UNCHANGED <<flow, page, link, calls, lastId, signedIn, bounds, history>>
    BY <1>2 DEF WorkerReports
  <2>2. e \in Event /\ e.srp = t.srp /\ e.pw = t.pw /\ e.for = t.for
    BY DEF IInv, PasswordTypeOK, Thread, Event
  <2>. HIDE DEF e
  <2>3. \A x : Genuine(x, calls, lastId) => Genuine(x, calls', lastId')
    BY <2>1 DEF Genuine, Spent
  <2>4. posted \in Seq(Event)
    BY DEF IInv, PasswordTypeOK
  <2>5. /\ posted' \in Seq(Event)
        /\ \A i \in DOMAIN posted' :
             \/ i \in DOMAIN posted /\ posted'[i] = posted[i]
             \/ i \notin DOMAIN posted /\ i = Len(posted) + 1 /\ posted'[i] = e
    BY <2>1, <2>2, <2>4, AppendFact
  <2>6. Genuine(e, calls', lastId')
    BY <2>2, <2>3 DEF IInv, SpentOnce, Genuine
  <2>7. \A u \in threads' : u \in threads /\ u.srp # t.srp
    BY <2>1 DEF IInv, SpentOnce
  <2>8. SpentOnce'
    <3>1. /\ \A u \in threads' : Genuine(u, calls', lastId')
          /\ \A i \in DOMAIN posted' : Genuine(posted'[i], calls', lastId')
          /\ \A i \in DOMAIN proofs' : Genuine(proofs'[i], calls', lastId')
      <4>1. \A i \in DOMAIN posted' : Genuine(posted'[i], calls', lastId')
        BY <2>3, <2>5, <2>6 DEF IInv, SpentOnce
      <4>. QED
        BY <2>1, <2>3, <2>7, <4>1 DEF IInv, SpentOnce, history
    <3>2. /\ \A u, v \in threads' : u.srp = v.srp => u = v
          /\ \A u \in threads' :
               /\ \A i \in DOMAIN posted' : u.srp # posted'[i].srp
               /\ \A i \in DOMAIN proofs' : u.srp # proofs'[i].srp
      BY <2>1, <2>2, <2>5, <2>7 DEF IInv, SpentOnce, history
    <3>3. /\ \A i, j \in DOMAIN posted' : posted'[i].srp = posted'[j].srp => i = j
          /\ \A i \in DOMAIN posted', j \in DOMAIN proofs' : posted'[i].srp # proofs'[j].srp
          /\ \A i, j \in DOMAIN proofs' : proofs'[i].srp = proofs'[j].srp => i = j
      BY <2>1, <2>2, <2>5 DEF IInv, SpentOnce, history
    <3>. QED
      BY <3>1, <3>2, <3>3 DEF SpentOnce
  <2>9. threads' \subseteq Thread
    BY <2>1 DEF IInv, PasswordTypeOK
  <2>10. PasswordTypeOK'
    BY <2>1, <2>5, <2>9, Zenon DEF IInv, PasswordTypeOK, flow, page, bounds, history
  <2>11. Numbered' /\ FetchIsPending'
    BY <2>1 DEF IInv, Numbered, FetchIsPending, flow, bounds, history
  <2>12. LeftIsForgotten'
    BY <2>1 DEF IInv, LeftIsForgotten, flow, history
  <2>. QED
    BY <2>8, <2>10, <2>11, <2>12 DEF IInv
<1>. QED
  BY <1>1, <1>2

\* The worker's event is handled: its proof is sent, or the flow ends.
LEMMA EventSteps ==
  ASSUME IInv, HandleSrpProved \/ HandleSrpFailed
  PROVE  IInv'
<1>0. /\ posted \in Seq(Event) /\ posted # <<>> /\ proofs \in Seq(Event) /\ lastId \in Nat
      /\ calls \in SUBSET calls /\ 0 \in Nat
  BY DEF IInv, PasswordTypeOK, HandleSrpProved, HandleSrpFailed
<1>. DEFINE e == Head(posted)
<1>1. /\ Tail(posted) \in Seq(Event) /\ 1 \in DOMAIN posted /\ e = posted[1] /\ e \in Event
      /\ \A i \in DOMAIN Tail(posted) :
           i + 1 \in DOMAIN posted /\ i + 1 # 1 /\ Tail(posted)[i] = posted[i + 1]
      /\ \A i, j \in DOMAIN Tail(posted) : i + 1 = j + 1 => i = j
  BY <1>0, TailFact
<1>2. /\ Genuine(e, calls, lastId)
      /\ \A t \in threads : t.srp # e.srp
      /\ \A i \in DOMAIN Tail(posted) :
           Genuine(Tail(posted)[i], calls, lastId) /\ Tail(posted)[i].srp # e.srp
      /\ \A i \in DOMAIN proofs : proofs[i].srp # e.srp
  BY <1>1 DEF IInv, SpentOnce
<1>3. /\ \A t \in threads, i \in DOMAIN Tail(posted) : t.srp # Tail(posted)[i].srp
      /\ \A i, j \in DOMAIN Tail(posted) : Tail(posted)[i].srp = Tail(posted)[j].srp => i = j
      /\ \A i \in DOMAIN Tail(posted), j \in DOMAIN proofs : Tail(posted)[i].srp # proofs[j].srp
  BY <1>1 DEF IInv, SpentOnce
<1>. HIDE DEF e
<1>4. CASE HandleSrpProved
  <2>1. /\ posted' = Tail(posted) /\ srpWorker' = 0
        /\ checkPasswordRequestId' = lastId + 1
        /\ Send(calls, "check", e.pw) /\ proofs' = Append(proofs, e)
        /\ UNCHANGED <<pendingPassword, srpRetried, passwordRequestId, threads, page, link,
                       signedIn, bounds, left, strays>>
    BY <1>4 DEF HandleSrpProved, e
  <2>2. e.pw \in Nat
    BY <1>1 DEF Event
  <2>3. /\ lastId' = lastId + 1 /\ lastId' \in Nat /\ calls' \subseteq Call
        /\ \A c \in calls' : c \in calls \/
             (c.id = lastId + 1 /\ c.kind = "check" /\ c.for = e.pw)
    BY <1>0, <2>1, <2>2, SendFact DEF IInv, PasswordTypeOK
  <2>4. \A c, d \in calls' : c.id = d.id => c = d
    BY <1>0, <2>1 DEF IInv, Numbered, Send
  <2>5. /\ proofs' \in Seq(Event) /\ DOMAIN proofs' = DOMAIN proofs \cup {Len(proofs) + 1}
        /\ Len(proofs) + 1 \notin DOMAIN proofs /\ proofs'[Len(proofs) + 1] = e
        /\ \A i \in DOMAIN proofs : proofs'[i] = proofs[i]
    BY <1>0, <1>1, <2>1, AppendFact
  <2>6. PasswordTypeOK'
    BY <1>0, <1>1, <2>1, <2>3, <2>5, Zenon DEF IInv, PasswordTypeOK, page, bounds
  <2>7. Numbered' /\ FetchIsPending'
    <3>1. passwordRequestId \in Nat /\ passwordRequestId' = passwordRequestId
      BY <2>1 DEF IInv, PasswordTypeOK
    <3>2. /\ \A c \in calls' : c.id \in 1 .. lastId'
          /\ passwordRequestId' <= lastId'
      BY <1>0, <2>3, <3>1 DEF IInv, Numbered
    <3>3. left' \subseteq 1 .. submits'
      BY <2>1, Zenon DEF IInv, Numbered, bounds
    <3>4. FetchIsPending'
      BY <2>1, <2>3 DEF IInv, FetchIsPending
    <3>. QED
      BY <2>4, <3>2, <3>3, <3>4 DEF Numbered
  <2>8. \A x : Genuine(x, calls, lastId) => Genuine(x, calls', lastId')
    BY <1>0, <2>3 DEF Genuine, Spent
  <2>9. SpentOnce'
    <3>1. threads' = threads /\ posted' = Tail(posted)
      BY <2>1
    <3>2. /\ \A t \in threads' : Genuine(t, calls', lastId')
          /\ \A i \in DOMAIN posted' : Genuine(posted'[i], calls', lastId')
      BY <1>2, <2>8, <3>1 DEF IInv, SpentOnce
    <3>3. \A i \in DOMAIN proofs' : Genuine(proofs'[i], calls', lastId')
      BY <1>2, <2>5, <2>8 DEF IInv, SpentOnce
    <3>4. /\ \A t, u \in threads' : t.srp = u.srp => t = u
          /\ \A t \in threads' :
               /\ \A i \in DOMAIN posted' : t.srp # posted'[i].srp
               /\ \A i \in DOMAIN proofs' : t.srp # proofs'[i].srp
      BY <1>2, <1>3, <2>5, <3>1 DEF IInv, SpentOnce
    <3>5. /\ \A i, j \in DOMAIN posted' : posted'[i].srp = posted'[j].srp => i = j
          /\ \A i \in DOMAIN posted', j \in DOMAIN proofs' : posted'[i].srp # proofs'[j].srp
      BY <1>2, <1>3, <2>5, <3>1
    <3>6. \A i, j \in DOMAIN proofs' : proofs'[i].srp = proofs'[j].srp => i = j
      BY <1>2, <2>5 DEF IInv, SpentOnce
    <3>. QED
      BY <3>2, <3>3, <3>4, <3>5, <3>6 DEF SpentOnce
  <2>10. LeftIsForgotten'
    <3>1. \A t \in threads : t.srp # 0
      BY DEF IInv, SpentOnce, Genuine, Spent
    <3>. QED
      BY <2>1, <2>3, <3>1 DEF IInv, LeftIsForgotten
  <2>. QED
    BY <2>6, <2>7, <2>9, <2>10 DEF IInv
<1>5. CASE HandleSrpFailed
  <2>1. /\ posted' = Tail(posted) /\ srpWorker' = 0 /\ pendingPassword' = 0
        /\ srpRetried' = FALSE /\ passwordRequestId' = 0 /\ checkPasswordRequestId' = 0
        /\ authProgress' = FALSE
        /\ UNCHANGED <<onPage, threads, link, calls, lastId, signedIn, bounds, history>>
    BY <1>5 DEF HandleSrpFailed
  <2>2. PasswordTypeOK'
    BY <1>0, <1>1, <2>1, Zenon DEF IInv, PasswordTypeOK, bounds, history
  <2>3. Numbered' /\ FetchIsPending'
    BY <1>0, <2>1 DEF IInv, Numbered, FetchIsPending, bounds, history
  <2>4. SpentOnce'
    BY <1>2, <1>3, <2>1 DEF IInv, SpentOnce, history
  <2>5. LeftIsForgotten'
    <3>1. /\ \A t \in threads : t.srp # 0
          /\ 0 \notin left /\ \A c \in calls : c.id # 0
      BY DEF IInv, SpentOnce, Genuine, Spent, Numbered
    <3>. QED
      BY <2>1, <3>1 DEF LeftIsForgotten, history
  <2>. QED
    BY <2>2, <2>3, <2>4, <2>5 DEF IInv
<1>. QED
  BY <1>4, <1>5

-----------------------------------------------------------------------------
(***************************************************************************)
(* The theorems.                                                           *)
(***************************************************************************)
\* The inductive invariant holds of every step of the flow.
THEOREM PasswordInvariant ==
  Spec => []IInv
<1>1. Init => IInv
  <2>1. Init => PasswordTypeOK
    <3>1. << >> \in Seq(Event) /\ 0 \in Nat
      OBVIOUS
    <3>. QED
      BY <3>1, Zenon DEF Init, PasswordTypeOK
  <2>2. Init => Numbered /\ FetchIsPending
    BY DEF Init, Numbered, FetchIsPending
  <2>3. Init => SpentOnce /\ LeftIsForgotten
    BY DEF Init, SpentOnce, LeftIsForgotten
  <2>. QED
    BY <2>1, <2>2, <2>3 DEF IInv
<1>2. IInv /\ [Next]_vars => IInv'
  <2>1. ASSUME IInv, Next PROVE IInv'
    <3>1. ASSUME System PROVE IInv'
      BY <2>1, <3>1, AnswerSteps, StaleStep, LinkSteps, WorkerStarts, WorkerSteps, EventSteps
         DEF System, Answer, Work
    <3>. QED
      BY <2>1, <3>1, PasswordAssumption, PageSteps, LinkSteps DEF Next
  <2>2. ASSUME IInv, UNCHANGED vars PROVE IInv'
    BY <2>2 DEF vars, flow, page, bounds, history, IInv, PasswordTypeOK, Numbered,
                FetchIsPending, SpentOnce, LeftIsForgotten
  <2>. QED
    BY <2>1, <2>2
<1>. QED
  BY <1>1, <1>2, PTL DEF Spec

\* "Every attempt proves against freshly fetched parameters": each proof is made
\* from the answer to a fetch of its own submission, and no srp_id is used twice
\* (handleAccountPassword(), handleSrpProved()).
THEOREM FreshProofsHolds ==
  Spec => []FreshProofs
<1>1. IInv => FreshProofs
  BY DEF IInv, SpentOnce, Genuine, FreshProofs
<1>. QED
  BY <1>1, PasswordInvariant, PTL

\* Nothing that arrives after cancelPasswordCheck() starts another fetch or
\* worker for what the user had typed.
THEOREM LeftIsForgottenHolds ==
  Spec => []LeftIsForgotten
<1>1. IInv => LeftIsForgotten
  BY DEF IInv
<1>. QED
  BY <1>1, PasswordInvariant, PTL

-----------------------------------------------------------------------------
(***************************************************************************)
(* Two proofs at most for a submission.  What may still become a proof of  *)
(* it is numbered by the srp_id it has or will have: a thread, an event, a *)
(* proof, the fetch that is waited for; 0 stands for the retry it has      *)
(* left.  No step makes a third of two.                                    *)
(***************************************************************************)
Chance(p, n) ==
  \/ \E t \in threads : t.pw = p /\ t.srp = n
  \/ \E i \in DOMAIN posted : posted[i].pw = p /\ posted[i].srp = n
  \/ \E i \in DOMAIN proofs : proofs[i].pw = p /\ proofs[i].srp = n
  \/ /\ pendingPassword = p /\ n = passwordRequestId
     /\ \E c \in calls : c.kind = "get" /\ c.id = n
  \/ pendingPassword = p /\ ~srpRetried /\ n = 0

TwoChances ==
  /\ pendingPassword <= submits
  /\ \A p \in Nat \ {0} :
       /\ \E a, b : \A n : Chance(p, n) => n = a \/ n = b
       /\ p > submits => \A n : ~Chance(p, n)

\* Nothing becomes a chance that was none.
NoChanceMore ==
  /\ submits' = submits /\ pendingPassword' \in {0, pendingPassword}
  /\ \A p \in Nat \ {0} : \A n : Chance(p, n)' => Chance(p, n)

\* Where the threads, the events, the proofs and the fetches stay what they are.
LEMMA FewerChances ==
  ASSUME IInv, submits' = submits,
         \A u \in threads' : \E t \in threads : u.srp = t.srp /\ u.pw = t.pw,
         posted' = posted, proofs' = proofs,
         \/ pendingPassword' = 0
         \/ /\ pendingPassword' = pendingPassword /\ srpRetried' = srpRetried
            /\ passwordRequestId' = passwordRequestId \/ passwordRequestId' = 0
            /\ \A c \in calls' : \/ c \in calls
                                 \/ c.kind = "check" \/ c.id = lastId + 1
  PROVE  NoChanceMore
<1>1. ASSUME NEW p \in Nat \ {0}, NEW n, Chance(p, n)'
      PROVE  Chance(p, n)
  <2>1. CASE \E t \in threads' : t.pw = p /\ t.srp = n
    BY <2>1 DEF Chance
  <2>2. CASE \E i \in DOMAIN posted' : posted'[i].pw = p /\ posted'[i].srp = n
    BY <2>2 DEF Chance
  <2>3. CASE \E i \in DOMAIN proofs' : proofs'[i].pw = p /\ proofs'[i].srp = n
    BY <2>3 DEF Chance
  <2>4. CASE /\ pendingPassword' = p /\ n = passwordRequestId'
             /\ \E c \in calls' : c.kind = "get" /\ c.id = n
    <3>1. PICK c \in calls' : c.kind = "get" /\ c.id = n
      BY <2>4
    <3>2. /\ pendingPassword = p /\ passwordRequestId \in Nat /\ lastId \in Nat
          /\ passwordRequestId <= lastId
      BY <2>4 DEF IInv, PasswordTypeOK, Numbered
    <3>3. c \in calls \/ c.id = lastId + 1
      BY <2>4, <3>1
    <3>4. n # lastId + 1
      BY <2>4, <3>2
    <3>5. c \in calls /\ n # 0
      BY <3>1, <3>2, <3>3, <3>4 DEF IInv, Numbered
    <3>. QED
      BY <2>4, <3>1, <3>2, <3>5 DEF Chance
  <2>5. CASE pendingPassword' = p /\ ~srpRetried' /\ n = 0
    BY <2>5 DEF Chance
  <2>. QED
    BY <1>1, <2>1, <2>2, <2>3, <2>4, <2>5 DEF Chance
<1>. QED
  BY <1>1 DEF NoChanceMore

\* The steps that start and answer nothing new.
LEMMA PlainChances ==
  ASSUME IInv,
         \/ OpenPage \/ Back \/ Disconnected \/ Initialized \/ UNCHANGED vars
         \/ \E c \in calls : \/ Renamed(c) \/ GotNoParameters(c) \/ FetchRefused(c)
                             \/ ProofAccepted(c) \/ ProofRefused(c)
  PROVE  NoChanceMore
<1>1. CASE OpenPage
  BY <1>1, FewerChances DEF OpenPage, Send, flow, history
<1>2. CASE Back
  <2>1. CancelPasswordCheck /\ PasswordTypeOK
    BY <1>2 DEF Back, IInv
  <2>2. pendingPassword' = 0 /\ \A u \in threads' : \E t \in threads : u.srp = t.srp /\ u.pw = t.pw
    BY <2>1, CancelFact
  <2>. QED
    BY <1>2, <2>2, FewerChances DEF Back, bounds
<1>3. CASE Disconnected \/ Initialized \/ UNCHANGED vars
  BY <1>3, FewerChances DEF Disconnected, Initialized, vars, flow, page, bounds, history
<1>4. ASSUME NEW c \in calls, Renamed(c)
      PROVE  NoChanceMore
  <2>1. [c EXCEPT !.id = lastId + 1].id = lastId + 1
    BY DEF IInv, PasswordTypeOK, Call
  <2>2. \A d \in calls' : d \in calls \/ d.id = lastId + 1
    BY <1>4, <2>1 DEF Renamed
  <2>. QED
    BY <1>4, <2>2, FewerChances DEF Renamed, flow
<1>5. ASSUME NEW c \in calls, FetchRefused(c) \/ ProofAccepted(c)
      PROVE  NoChanceMore
  BY <1>5, FewerChances DEF FetchRefused, ProofAccepted, SendNothing, flow, bounds, history
<1>6. ASSUME NEW c \in calls, GotNoParameters(c)
      PROVE  NoChanceMore
  <2>1. CASE Awaited(c) /\ pendingPassword # 0
    <3>1. CancelPasswordCheck /\ PasswordTypeOK
      BY <1>6, <2>1 DEF GotNoParameters, IInv
    <3>2. pendingPassword' = 0 /\ \A u \in threads' : \E t \in threads : u.srp = t.srp /\ u.pw = t.pw
      BY <3>1, CancelFact
    <3>. QED
      BY <1>6, <3>2, FewerChances DEF GotNoParameters, bounds, history
  <2>2. CASE ~(Awaited(c) /\ pendingPassword # 0)
    BY <1>6, <2>2, FewerChances DEF GotNoParameters, SendNothing, bounds, history
  <2>. QED
    BY <2>1, <2>2
<1>7. ASSUME NEW c \in calls, ProofRefused(c)
      PROVE  NoChanceMore
  <2>0. /\ \A d \in calls' : d \in calls \/ d.id = lastId + 1
        /\ UNCHANGED <<onPage, posted, link, signedIn, bounds, history>>
    BY <1>7 DEF ProofRefused, SendNothing, Send
  <2>1. CASE checkPasswordRequestId = c.id
    <3>1. CancelPasswordCheck /\ PasswordTypeOK
      BY <1>7, <2>1 DEF ProofRefused, IInv
    <3>2. pendingPassword' = 0 /\ \A u \in threads' : \E t \in threads : u.srp = t.srp /\ u.pw = t.pw
      BY <3>1, CancelFact
    <3>. QED
      BY <2>0, <3>2, FewerChances DEF bounds, history
  <2>2. CASE checkPasswordRequestId # c.id
    BY <1>7, <2>0, <2>2, FewerChances DEF ProofRefused, flow, bounds, history
  <2>. QED
    BY <2>1, <2>2
<1>. QED
  BY <1>1, <1>2, <1>3, <1>4, <1>5, <1>6, <1>7

\* The answer that was waited for becomes a thread under its id.
LEMMA ParametersChances ==
  ASSUME IInv, NEW c \in calls, GotParameters(c)
  PROVE  NoChanceMore
<1>1. /\ calls' = calls \ {c} /\ lastId' = lastId /\ c.kind = "get"
      /\ UNCHANGED <<pendingPassword, srpRetried, checkPasswordRequestId, posted, page,
                     link, signedIn, bounds, history>>
  BY DEF GotParameters, Answered, SendNothing
<1>2. CASE ~Awaited(c) \/ pendingPassword = 0
  BY <1>1, <1>2, FewerChances DEF GotParameters, bounds, history
<1>3. CASE Awaited(c) /\ pendingPassword # 0
  <2>. DEFINE w == [srp |-> c.id, pw |-> pendingPassword, for |-> c.for,
                    state |-> "computing", cancel |-> FALSE, heard |-> TRUE]
  <2>1. threads' = threads \cup {w} /\ passwordRequestId' = 0
    BY <1>3 DEF GotParameters
  <2>2. w.srp = c.id /\ w.pw = pendingPassword
    OBVIOUS
  <2>. HIDE DEF w
  <2>3. ASSUME NEW p \in Nat \ {0}, NEW n, Chance(p, n)'
        PROVE  Chance(p, n)
    <3>1. CASE \E t \in threads' : t.pw = p /\ t.srp = n
      <4>1. PICK t \in threads' : t.pw = p /\ t.srp = n
        BY <3>1
      <4>2. CASE t = w
        BY <1>1, <1>3, <2>2, <4>1, <4>2 DEF Chance, Awaited
      <4>3. CASE t \in threads
        BY <4>1, <4>3 DEF Chance
      <4>. QED
        BY <2>1, <4>2, <4>3
    <3>2. CASE \/ \E i \in DOMAIN posted' : posted'[i].pw = p /\ posted'[i].srp = n
               \/ \E i \in DOMAIN proofs' : proofs'[i].pw = p /\ proofs'[i].srp = n
               \/ pendingPassword' = p /\ ~srpRetried' /\ n = 0
      BY <1>1, <3>2 DEF Chance, history
    <3>3. ~\E d \in calls' : d.id = 0
      BY <1>1 DEF IInv, Numbered
    <3>. QED
      BY <2>1, <2>3, <3>1, <3>2, <3>3 DEF Chance
  <2>. QED
    BY <1>1, <2>3 DEF NoChanceMore, bounds
<1>. QED
  BY <1>2, <1>3

\* A thread becomes an event of its own, an event a proof.
LEMMA WorkerChances ==
  ASSUME IInv, \/ \E t \in threads : WorkerChecks(t) \/ \E k \in {"proved", "failed"} : WorkerReports(t, k)
               \/ HandleSrpProved \/ HandleSrpFailed
  PROVE  NoChanceMore
<1>0. posted \in Seq(Event) /\ proofs \in Seq(Event) /\ threads \subseteq Thread /\ lastId \in Nat
  BY DEF IInv, PasswordTypeOK
<1>1. ASSUME NEW t \in threads, WorkerChecks(t)
      PROVE  NoChanceMore
  <2>1. [t EXCEPT !.state = "reporting"].srp = t.srp /\ [t EXCEPT !.state = "reporting"].pw = t.pw
    BY <1>0 DEF Thread
  <2>2. \A u \in threads' : \E v \in threads : u.srp = v.srp /\ u.pw = v.pw
    BY <1>1, <2>1 DEF WorkerChecks
  <2>. QED
    BY <1>1, <2>2, FewerChances DEF WorkerChecks, flow, bounds, history
<1>2. ASSUME NEW t \in threads, NEW k \in {"proved", "failed"}, WorkerReports(t, k)
      PROVE  NoChanceMore
  <2>. DEFINE e == [kind |-> k, srp |-> t.srp, pw |-> t.pw, for |-> t.for]
  <2>1. /\ threads' = threads \ {t} /\ (posted' = Append(posted, e) \/ posted' = posted)
        /\ UNCHANGED <<flow, page, link, calls, lastId, signedIn, bounds, history>>
    BY <1>2 DEF WorkerReports
  <2>2. e \in Event /\ e.srp = t.srp /\ e.pw = t.pw
    BY <1>0 DEF Thread, Event
  <2>. HIDE DEF e
  <2>3. ASSUME NEW p \in Nat \ {0}, NEW n, Chance(p, n)'
        PROVE  Chance(p, n)
    <3>1. CASE \E i \in DOMAIN posted' : posted'[i].pw = p /\ posted'[i].srp = n
      <4>1. PICK i \in DOMAIN posted' : posted'[i].pw = p /\ posted'[i].srp = n
        BY <3>1
      <4>2. CASE posted' = posted
        BY <4>1, <4>2 DEF Chance
      <4>3. CASE posted' = Append(posted, e)
        <5>1. (i \in DOMAIN posted /\ posted'[i] = posted[i]) \/ posted'[i] = e
          BY <1>0, <2>2, <4>1, <4>3, AppendFact
        <5>. QED
          BY <2>2, <4>1, <5>1 DEF Chance
      <4>. QED
        BY <2>1, <4>2, <4>3
    <3>2. CASE ~\E i \in DOMAIN posted' : posted'[i].pw = p /\ posted'[i].srp = n
      BY <2>1, <2>3, <3>2 DEF Chance, flow, history
    <3>. QED
      BY <3>1, <3>2
  <2>. QED
    BY <2>1, <2>3 DEF NoChanceMore, bounds, flow
<1>3. CASE HandleSrpProved \/ HandleSrpFailed
  <2>. DEFINE e == Head(posted)
  <2>1. posted # <<>> /\ posted' = Tail(posted)
    BY <1>3 DEF HandleSrpProved, HandleSrpFailed
  <2>2. /\ 1 \in DOMAIN posted /\ e = posted[1] /\ e \in Event
        /\ \A i \in DOMAIN posted' : i + 1 \in DOMAIN posted /\ posted'[i] = posted[i + 1]
    BY <1>0, <2>1, TailFact
  <2>3. /\ threads' = threads /\ submits' = submits
        /\ \/ pendingPassword' = 0 /\ proofs' = proofs
           \/ /\ UNCHANGED <<pendingPassword, srpRetried, passwordRequestId>>
              /\ proofs' = Append(proofs, e)
              /\ \A c \in calls' : c \in calls \/ c.kind = "check"
    BY <1>3 DEF HandleSrpProved, HandleSrpFailed, Send, bounds, history
  <2>. HIDE DEF e
  <2>4. ASSUME NEW p \in Nat \ {0}, NEW n, Chance(p, n)'
        PROVE  Chance(p, n)
    <3>1. CASE \E i \in DOMAIN posted' : posted'[i].pw = p /\ posted'[i].srp = n
      BY <2>2, <3>1 DEF Chance
    <3>2. CASE \E i \in DOMAIN proofs' : proofs'[i].pw = p /\ proofs'[i].srp = n
      <4>1. PICK i \in DOMAIN proofs' : proofs'[i].pw = p /\ proofs'[i].srp = n
        BY <3>2
      <4>2. CASE proofs' = proofs
        BY <4>1, <4>2 DEF Chance
      <4>3. CASE proofs' = Append(proofs, e)
        <5>1. (i \in DOMAIN proofs /\ proofs'[i] = proofs[i]) \/ proofs'[i] = e
          BY <1>0, <2>2, <4>1, <4>3, AppendFact
        <5>. QED
          BY <2>2, <4>1, <5>1 DEF Chance
      <4>. QED
        BY <2>3, <4>2, <4>3
    <3>3. CASE \E t \in threads' : t.pw = p /\ t.srp = n
      BY <2>3, <3>3 DEF Chance
    <3>4. CASE /\ pendingPassword' = p /\ n = passwordRequestId'
               /\ \E c \in calls' : c.kind = "get" /\ c.id = n
      BY <2>3, <3>4 DEF Chance
    <3>5. CASE pendingPassword' = p /\ ~srpRetried' /\ n = 0
      BY <2>3, <3>5 DEF Chance
    <3>. QED
      BY <2>4, <3>1, <3>2, <3>3, <3>4, <3>5 DEF Chance
  <2>. QED
    BY <2>3, <2>4 DEF NoChanceMore
<1>. QED
  BY <1>1, <1>2, <1>3

\* The button starts a new submission; the one before it is no more pending.
LEMMA SubmitChances ==
  ASSUME IInv, TwoChances, Submit
  PROVE  TwoChances'
<1>1. /\ submits \in Nat /\ lastId \in Nat /\ pendingPassword \in Nat /\ submits' = submits + 1
      /\ UNCHANGED <<threads, posted>> /\ proofs' = proofs
      /\ pendingPassword <= submits
  BY DEF IInv, PasswordTypeOK, Submit, TwoChances, history
<1>2. CASE srpWorker # 0
  <2>1. UNCHANGED flow /\ calls' = calls
    BY <1>2 DEF Submit, SendNothing
  <2>2. \A p, n : Chance(p, n)' <=> Chance(p, n)
    BY <1>1, <2>1 DEF Chance, flow
  <2>3. \A p \in Nat \ {0} : p > submits' => p > submits
    BY <1>1
  <2>. QED
    BY <1>1, <2>1, <2>2, <2>3 DEF TwoChances, flow
<1>3. CASE srpWorker = 0
  <2>1. /\ pendingPassword' = submits + 1 /\ passwordRequestId' = lastId + 1
    BY <1>3 DEF Submit, NextSubmit
  <2>2. ASSUME NEW p, NEW n, Chance(p, n)'
        PROVE  Chance(p, n) \/ (p = submits + 1 /\ n \in {lastId + 1, 0})
    <3>1. CASE pendingPassword' = p /\ n \in {passwordRequestId', 0}
      BY <2>1, <3>1
    <3>2. CASE \/ \E t \in threads' : t.pw = p /\ t.srp = n
               \/ \E i \in DOMAIN posted' : posted'[i].pw = p /\ posted'[i].srp = n
               \/ \E i \in DOMAIN proofs' : proofs'[i].pw = p /\ proofs'[i].srp = n
      BY <1>1, <3>2 DEF Chance
    <3>. QED
      BY <2>2, <3>1, <3>2 DEF Chance
  <2>3. \A n : ~Chance(submits + 1, n)
    BY <1>1 DEF TwoChances
  <2>4. ASSUME NEW p \in Nat \ {0}
        PROVE  \E a, b : \A n : Chance(p, n)' => n = a \/ n = b
    <3>1. CASE p = submits + 1
      BY <2>2, <2>3, <3>1
    <3>2. CASE p # submits + 1
      BY <2>2, <3>2 DEF TwoChances
    <3>. QED
      BY <3>1, <3>2
  <2>5. ASSUME NEW p \in Nat \ {0}, p > submits'
        PROVE  \A n : ~Chance(p, n)'
    BY <1>1, <2>2, <2>5 DEF TwoChances
  <2>6. pendingPassword' <= submits'
    BY <1>1, <2>1
  <2>. QED
    BY <2>4, <2>5, <2>6 DEF TwoChances
<1>. QED
  BY <1>2, <1>3

\* The retry takes the place of the chance that was left.
LEMMA StaleChances ==
  ASSUME IInv, TwoChances, NEW c \in calls, ProofStale(c)
  PROVE  TwoChances' \/ NoChanceMore
<1>1. /\ submits \in Nat /\ lastId \in Nat /\ pendingPassword \in Nat
      /\ submits' = submits /\ posted' = posted /\ proofs' = proofs
  BY DEF IInv, PasswordTypeOK, ProofStale, bounds, history
<1>2. CASE checkPasswordRequestId = c.id /\ MayRetry
  <2>1. /\ srpRetried' = TRUE /\ passwordRequestId' = lastId + 1 /\ ~srpRetried
        /\ pendingPassword' = pendingPassword /\ threads' = threads
    BY <1>2 DEF ProofStale, Refetch, MayRetry
  <2>2. ASSUME NEW p, NEW n, Chance(p, n)'
        PROVE  \/ Chance(p, n) /\ ~(p = pendingPassword /\ n = 0)
               \/ p = pendingPassword /\ n = lastId + 1
    <3>1. /\ \A t \in threads : t.srp # 0
          /\ \A i \in DOMAIN posted : posted[i].srp # 0
          /\ \A i \in DOMAIN proofs : proofs[i].srp # 0
      BY DEF IInv, SpentOnce, Genuine, Spent
    <3>2. CASE pendingPassword' = p /\ n = passwordRequestId'
      BY <2>1, <3>2
    <3>3. CASE \/ \E t \in threads' : t.pw = p /\ t.srp = n
               \/ \E i \in DOMAIN posted' : posted'[i].pw = p /\ posted'[i].srp = n
               \/ \E i \in DOMAIN proofs' : proofs'[i].pw = p /\ proofs'[i].srp = n
      <4>1. n # 0
        BY <1>1, <2>1, <3>1, <3>3
      <4>. QED
        BY <1>1, <2>1, <3>3, <4>1 DEF Chance
    <3>. QED
      BY <2>1, <2>2, <3>2, <3>3 DEF Chance
  <2>3. \A p : p = pendingPassword => Chance(p, 0)
    BY <2>1 DEF Chance
  <2>4. ASSUME NEW p \in Nat \ {0}
        PROVE  \E a, b : \A n : Chance(p, n)' => n = a \/ n = b
    <3>1. PICK a, b : \A n : Chance(p, n) => n = a \/ n = b
      BY DEF TwoChances
    <3>2. CASE p # pendingPassword
      BY <2>2, <3>1, <3>2
    <3>3. CASE p = pendingPassword /\ a = 0
      <4>1. \A n : Chance(p, n)' => n = lastId + 1 \/ n = b
        BY <2>2, <3>1, <3>3
      <4>. QED
        BY <4>1
    <3>4. CASE p = pendingPassword /\ b = 0
      <4>1. \A n : Chance(p, n)' => n = a \/ n = lastId + 1
        BY <2>2, <3>1, <3>4
      <4>. QED
        BY <4>1
    <3>. QED
      BY <2>3, <3>1, <3>2, <3>3, <3>4
  <2>5. ASSUME NEW p \in Nat \ {0}, p > submits
        PROVE  \A n : ~Chance(p, n)'
    <3>1. p # pendingPassword
      BY <1>1, <2>5 DEF TwoChances
    <3>. QED
      BY <2>2, <2>5, <3>1 DEF TwoChances
  <2>6. TwoChances'
    BY <1>1, <2>1, <2>4, <2>5 DEF TwoChances
  <2>. QED
    BY <2>6
<1>3. CASE checkPasswordRequestId = c.id /\ ~MayRetry
  <2>1. CancelPasswordCheck /\ PasswordTypeOK
    BY <1>3 DEF ProofStale, IInv
  <2>2. pendingPassword' = 0 /\ \A u \in threads' : \E t \in threads : u.srp = t.srp /\ u.pw = t.pw
    BY <2>1, CancelFact
  <2>. QED
    BY <1>1, <2>2, FewerChances
<1>4. CASE checkPasswordRequestId # c.id
  BY <1>1, <1>4, FewerChances DEF ProofStale, SendNothing, flow
<1>. QED
  BY <1>2, <1>3, <1>4

\* No step gives a submission a third chance.
LEMMA ChancesStep ==
  ASSUME IInv, TwoChances, [Next]_vars
  PROVE  TwoChances'
<1>1. CASE NoChanceMore
  <2>1. pendingPassword \in Nat /\ submits \in Nat
    BY DEF IInv, PasswordTypeOK
  <2>2. pendingPassword' <= submits'
    BY <1>1, <2>1 DEF NoChanceMore, TwoChances
  <2>3. \A p \in Nat \ {0} : \E a, b : \A n : Chance(p, n)' => n = a \/ n = b
    BY <1>1 DEF NoChanceMore, TwoChances
  <2>4. \A p \in Nat \ {0} : p > submits' => \A n : ~Chance(p, n)'
    BY <1>1 DEF NoChanceMore, TwoChances
  <2>. QED
    BY <2>2, <2>3, <2>4 DEF TwoChances
<1>2. CASE Submit
  BY <1>2, SubmitChances
<1>3. CASE \E c \in calls : ProofStale(c)
  BY <1>1, <1>3, StaleChances
<1>4. NoChanceMore \/ Submit \/ \E c \in calls : ProofStale(c)
  BY PlainChances, ParametersChances, WorkerChances DEF Next, System, Answer, Work
<1>. QED
  BY <1>1, <1>2, <1>3, <1>4

\* At most two proofs of a submission, counted.
LEMMA CountTwo ==
  ASSUME IInv, TwoChances
  PROVE  RetriedOnce
<1>. SUFFICES ASSUME NEW p \in 1 .. submits
     PROVE  Cardinality({i \in DOMAIN proofs : proofs[i].pw = p}) <= 2
  BY DEF RetriedOnce, IInv
<1>. DEFINE S == {i \in DOMAIN proofs : proofs[i].pw = p}
<1>1. p \in Nat \ {0}
  BY DEF IInv, PasswordTypeOK
<1>2. PICK a, b : \A n : Chance(p, n) => n = a \/ n = b
  BY <1>1 DEF TwoChances
<1>3. \A i \in S : proofs[i].srp = a \/ proofs[i].srp = b
  BY <1>2 DEF Chance
<1>4. \A i, j \in S : proofs[i].srp = proofs[j].srp => i = j
  BY DEF IInv, SpentOnce
<1>. HIDE DEF S
<1>5. \E i, j : S \subseteq {i, j}
  <2>1. \E i : \A k \in S : proofs[k].srp = a => k = i
    BY <1>4
  <2>2. \E j : \A k \in S : proofs[k].srp = b => k = j
    BY <1>4
  <2>. QED
    BY <1>3, <2>1, <2>2
<1>6. PICK i, j : S \subseteq {i, j}
  BY <1>5
<1>7. /\ IsFiniteSet({i}) /\ Cardinality({i}) = 1
      /\ IsFiniteSet({i} \cup {j}) /\ Cardinality({i} \cup {j}) \in {1, 2}
  <2>1. IsFiniteSet({i}) /\ Cardinality({i}) = 1
    BY FS_Singleton
  <2>2. /\ IsFiniteSet({i} \cup {j})
        /\ Cardinality({i} \cup {j}) = IF j \in {i} THEN Cardinality({i}) ELSE Cardinality({i}) + 1
    BY <2>1, FS_AddElement
  <2>. QED
    BY <2>1, <2>2
<1>8. S \in SUBSET ({i} \cup {j})
  BY <1>6
<1>9. IsFiniteSet(S) /\ Cardinality(S) <= Cardinality({i} \cup {j})
  BY <1>7, <1>8, FS_Subset
<1>10. Cardinality(S) \in Nat
  BY <1>9, FS_CardinalityType
<1>11. Cardinality(S) <= 2
  BY <1>7, <1>9, <1>10
<1>. QED
  BY <1>11 DEF S

\* A submission costs the server two proofs at most: handlePasswordRpcError()
\* retries stale parameters once, also when it answers for an earlier submission.
THEOREM RetriedOnceHolds ==
  Spec => []RetriedOnce
<1>1. Init => TwoChances
  BY DEF Init, TwoChances, Chance
<1>2. IInv /\ TwoChances /\ [Next]_vars => TwoChances'
  BY ChancesStep
<1>3. IInv /\ TwoChances => RetriedOnce
  BY CountTwo
<1>. QED
  BY <1>1, <1>2, <1>3, PasswordInvariant, PTL DEF Spec
=============================================================================
