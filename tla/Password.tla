------------------------------ MODULE Password ------------------------------
(***************************************************************************)
(* The two-step-verification flow of TgClient (libkg/tgc_password.cpp),    *)
(* the worker thread that derives the proof (libkg/tgsrpworker.cpp) and    *)
(* the password page that starts and leaves the flow (qml/Main.qml,        *)
(* qml/control/AuthScreen.qml, qml/auth/PasswordPage.qml).                 *)
(*                                                                         *)
(* Two threads run: the GUI thread, one handler at a time, and the worker, *)
(* whose signals are queued.  An event already posted is delivered even    *)
(* after disconnect(), which only stops later emissions from posting.      *)
(*                                                                         *)
(* A password is the number of the submission that typed it, and srp_id is *)
(* the id of the request whose answer carried it: both are unique.  What   *)
(* the parameters and the proof are made of is left out.                   *)
(***************************************************************************)
EXTENDS Naturals, Sequences, FiniteSets

CONSTANTS
  MaxSubmits,   \* bound: passwords submitted
  MaxOpens,     \* bound: times the server asks for the password
  MaxBlips,     \* bound: connections lost
  MaxRenames    \* bound: requests sent again under a new id

ASSUME PasswordAssumption ==
  MaxSubmits \in Nat /\ MaxOpens \in Nat /\ MaxBlips \in Nat /\ MaxRenames \in Nat

VARIABLES
  \* TgClient
  pendingPassword,          \* _pendingPassword, 0 when empty
  srpWorker,                \* _srpWorker: the srp_id it proves, 0 when null
  srpRetried,               \* _srpRetried
  passwordRequestId, checkPasswordRequestId,
  \* the threads, and the events posted to the GUI thread
  threads, posted,
  \* the page: authScreen.currentIndex = 3, and root.authProgress
  onPage, authProgress,
  \* connection, server and environment
  link, calls, lastId, signedIn, submits, opens, blips, renames,
  \* history, read by the properties only
  proofs,     \* the proofs the GUI thread sent, in order
  left,       \* submissions the user backed out of
  strays      \* ids whose requests the transport sent again under another

flow    == <<pendingPassword, srpWorker, srpRetried,
             passwordRequestId, checkPasswordRequestId>>
page    == <<onPage, authProgress>>
bounds  == <<submits, opens, blips, renames>>
history == <<proofs, left, strays>>
vars    == <<flow, threads, posted, page, link, calls, lastId, signedIn,
             bounds, history>>

Thread == [srp : Nat, pw : Nat, for : Nat,
           state : {"computing", "reporting"}, cancel : BOOLEAN, heard : BOOLEAN]
Event  == [kind : {"proved", "failed"}, srp : Nat, pw : Nat, for : Nat]
Call   == [id : Nat, kind : {"get", "check"}, for : Nat]

Init ==
  /\ pendingPassword = 0 /\ srpWorker = 0 /\ srpRetried = FALSE
  /\ passwordRequestId = 0 /\ checkPasswordRequestId = 0
  /\ threads = {} /\ posted = <<>>
  /\ onPage = FALSE /\ authProgress = FALSE
  /\ link = TRUE /\ calls = {} /\ lastId = 0 /\ signedIn = FALSE
  /\ submits = 0 /\ opens = 0 /\ blips = 0 /\ renames = 0
  /\ proofs = <<>> /\ left = {} /\ strays = {}

-----------------------------------------------------------------------------
(***************************************************************************)
(* Sending.  The caller gets an id; what is sent while the connection is   *)
(* down is lost.  for names the submission the request serves, 0 for the   *)
(* hint.                                                                   *)
(***************************************************************************)
Send(cs, kind, for) ==
  /\ lastId' = lastId + 1
  /\ calls' = IF link THEN cs \cup {[id |-> lastId + 1, kind |-> kind, for |-> for]}
              ELSE cs

SendNothing(cs) == calls' = cs /\ UNCHANGED lastId

\* The fetch under way stays wanted, with the password it is for.
ForgetLater == UNCHANGED <<passwordRequestId, pendingPassword>>

\* cancelPasswordCheck(): it erases the password, stops listening and then asks
\* the worker to stop.
Forget == passwordRequestId' = 0 /\ pendingPassword' = 0

CancelPasswordCheck ==
  /\ Forget
  /\ checkPasswordRequestId' = 0
  /\ srpRetried' = FALSE
  /\ srpWorker' = 0
  /\ threads' = {IF t.srp = srpWorker THEN [t EXCEPT !.heard = FALSE, !.cancel = TRUE]
                 ELSE t : t \in threads}

-----------------------------------------------------------------------------
(***************************************************************************)
(* The page.                                                               *)
(***************************************************************************)
\* onTfaRequired: the page opens and fetches the hint.
OpenPage ==
  /\ ~onPage /\ ~signedIn /\ link /\ opens < MaxOpens
  /\ opens' = opens + 1
  /\ onPage' = TRUE /\ authProgress' = FALSE
  /\ Send(calls, "get", 0)
  /\ UNCHANGED <<flow, threads, posted, link, signedIn, submits, blips, renames, history>>

\* The submission that is typed next.
NextSubmit == submits + 1

\* The button, and authCheckPasswordSRP().
Submit ==
  /\ onPage /\ ~authProgress /\ ~signedIn /\ submits < MaxSubmits
  /\ submits' = submits + 1
  /\ authProgress' = TRUE
  /\ \/ /\ srpWorker # 0
        /\ SendNothing(calls)
        /\ UNCHANGED flow
     \/ /\ srpWorker = 0
        /\ pendingPassword' = NextSubmit
        /\ srpRetried' = FALSE
        /\ passwordRequestId' = lastId + 1
        /\ Send(calls, "get", NextSubmit)
        /\ UNCHANGED <<srpWorker, checkPasswordRequestId>>
  /\ UNCHANGED <<threads, posted, onPage, link, signedIn, opens, blips, renames, history>>

\* The back arrow on the password page.
Back ==
  /\ onPage /\ ~signedIn
  /\ onPage' = FALSE /\ authProgress' = FALSE
  /\ CancelPasswordCheck
  /\ left' = 1 .. submits
  /\ UNCHANGED <<posted, link, calls, lastId, signedIn, bounds, proofs, strays>>

-----------------------------------------------------------------------------
(***************************************************************************)
(* The answers.  Ignored when they answer another request than the last    *)
(* fetch, or the last proof, of the flow.                                  *)
(***************************************************************************)
Answered(c, kind) == link /\ c \in calls /\ c.kind = kind

\* Any answer to accountGetPassword() will do.
AwaitedAny(c) == TRUE

\* The fetch a proof waits for, and not one made to show the hint.
Awaited(c) == passwordRequestId = c.id

\* handleAccountPassword() with parameters this client can prove against.
GotParameters(c) ==
  /\ Answered(c, "get")
  /\ SendNothing(calls \ {c})
  /\ IF ~Awaited(c)
     THEN UNCHANGED <<passwordRequestId, srpWorker, threads>>
     ELSE /\ passwordRequestId' = 0
          /\ IF pendingPassword = 0
             THEN UNCHANGED <<srpWorker, threads>>
             ELSE /\ srpWorker' = c.id
                  /\ threads' = threads \cup
                       {[srp |-> c.id, pw |-> pendingPassword, for |-> c.for,
                         state |-> "computing", cancel |-> FALSE, heard |-> TRUE]}
  /\ UNCHANGED <<pendingPassword, srpRetried, checkPasswordRequestId, posted, page,
                 link, signedIn, bounds, history>>

\* handleAccountPassword() without a password, or with an unknown scheme.
GotNoParameters(c) ==
  /\ Answered(c, "get")
  /\ SendNothing(calls \ {c})
  /\ IF Awaited(c) /\ pendingPassword # 0
     THEN CancelPasswordCheck /\ authProgress' = FALSE
     ELSE /\ passwordRequestId' = IF Awaited(c) THEN 0 ELSE passwordRequestId
          /\ UNCHANGED <<pendingPassword, srpWorker, srpRetried,
                         checkPasswordRequestId, threads, authProgress>>
  /\ UNCHANGED <<onPage, posted, link, signedIn, bounds, history>>

\* A fetch is refused: handlePasswordRpcError() does not know it.
FetchRefused(c) ==
  /\ Answered(c, "get")
  /\ SendNothing(calls \ {c})
  /\ authProgress' = FALSE
  /\ UNCHANGED <<flow, onPage, threads, posted, link, signedIn, bounds, history>>

\* A proof is accepted: TgTransport::handleAuthorization() and onAuthorized.
ProofAccepted(c) ==
  /\ Answered(c, "check")
  /\ SendNothing(calls \ {c})
  /\ signedIn' = TRUE
  /\ onPage' = FALSE /\ authProgress' = FALSE
  /\ UNCHANGED <<flow, threads, posted, link, bounds, history>>

\* As often as it is refused.
MayRetryAgain == pendingPassword # 0

\* A proof is refused with SRP_ID_INVALID; handlePasswordRpcError().
MayRetry == ~srpRetried /\ pendingPassword # 0

\* The new fetch is not waited for.
RefetchUnawaited(c) ==
  Send(calls \ {c}, "get", pendingPassword) /\ UNCHANGED passwordRequestId

Refetch(c) ==
  /\ passwordRequestId' = lastId + 1
  /\ Send(calls \ {c}, "get", pendingPassword)

ProofStale(c) ==
  /\ Answered(c, "check")
  /\ IF checkPasswordRequestId = c.id /\ MayRetry
     THEN /\ checkPasswordRequestId' = 0
          /\ srpRetried' = TRUE
          /\ Refetch(c)
          /\ UNCHANGED <<pendingPassword, srpWorker, threads, authProgress>>
     ELSE /\ IF checkPasswordRequestId = c.id THEN CancelPasswordCheck
             ELSE UNCHANGED <<flow, threads>>
          /\ SendNothing(calls \ {c})
          /\ authProgress' = FALSE
  /\ UNCHANGED <<onPage, posted, link, signedIn, bounds, history>>

\* A proof is refused for another reason; SRP_PASSWORD_CHANGED makes the page
\* fetch the hint again (onRpcError).
ProofRefused(c) ==
  /\ Answered(c, "check")
  /\ IF checkPasswordRequestId = c.id THEN CancelPasswordCheck
     ELSE UNCHANGED <<flow, threads>>
  /\ SendNothing(calls \ {c}) \/ Send(calls \ {c}, "get", 0)
  /\ authProgress' = FALSE
  /\ UNCHANGED <<onPage, posted, link, signedIn, bounds, history>>

-----------------------------------------------------------------------------
(***************************************************************************)
(* The worker: TgSrpWorker::run().  The computation ends, the flag is      *)
(* read, and then the signal is emitted: each may find the GUI thread      *)
(* anywhere in cancelPasswordCheck().                                      *)
(***************************************************************************)
WorkerChecks(t) ==
  /\ t \in threads /\ t.state = "computing"
  /\ threads' = (threads \ {t}) \cup
                (IF t.cancel THEN {} ELSE {[t EXCEPT !.state = "reporting"]})
  /\ UNCHANGED <<flow, posted, page, link, calls, lastId, signedIn, bounds, history>>

WorkerReports(t, kind) ==
  /\ t \in threads /\ t.state = "reporting"
  /\ threads' = threads \ {t}
  /\ posted' = IF t.heard
               THEN Append(posted, [kind |-> kind, srp |-> t.srp, pw |-> t.pw, for |-> t.for])
               ELSE posted
  /\ UNCHANGED <<flow, page, link, calls, lastId, signedIn, bounds, history>>

\* handleSrpProved()
HandleSrpProved ==
  /\ posted # <<>> /\ Head(posted).kind = "proved"
  /\ posted' = Tail(posted)
  /\ srpWorker' = 0
  /\ checkPasswordRequestId' = lastId + 1
  /\ Send(calls, "check", Head(posted).pw)
  /\ proofs' = Append(proofs, Head(posted))
  /\ UNCHANGED <<pendingPassword, srpRetried, passwordRequestId, threads, page, link,
                 signedIn, bounds, left, strays>>

\* handleSrpFailed(): the pointer is cleared first, so nothing is stopped.
HandleSrpFailed ==
  /\ posted # <<>> /\ Head(posted).kind = "failed"
  /\ posted' = Tail(posted)
  /\ srpWorker' = 0 /\ pendingPassword' = 0 /\ srpRetried' = FALSE
  /\ passwordRequestId' = 0 /\ checkPasswordRequestId' = 0
  /\ authProgress' = FALSE
  /\ UNCHANGED <<onPage, threads, link, calls, lastId, signedIn, bounds, history>>

-----------------------------------------------------------------------------
(***************************************************************************)
(* The connection.  A lost one may take requests or their answers with it, *)
(* which nobody sends again; the other answers come on the next one, which *)
(* puts a client without an account on the phone page (onInitialized) and  *)
(* stops nothing.                                                          *)
(***************************************************************************)
Disconnected ==
  /\ link /\ ~signedIn /\ blips < MaxBlips
  /\ blips' = blips + 1
  /\ link' = FALSE /\ calls' \in SUBSET calls
  /\ authProgress' = FALSE
  /\ UNCHANGED <<flow, threads, posted, onPage, lastId, signedIn, submits, opens,
                 renames, history>>

Initialized ==
  /\ ~link
  /\ link' = TRUE
  /\ onPage' = FALSE /\ authProgress' = FALSE
  /\ UNCHANGED <<flow, threads, posted, calls, lastId, signedIn, bounds, history>>

\* A refused salt or a flood wait on a fetch: the transport sends the request
\* again, and handleMessageChanged() renames no id of this flow.  A flood wait
\* is reported as well, and then the page is free.
Renamed(c) ==
  /\ link /\ c \in calls /\ renames < MaxRenames
  /\ renames' = renames + 1
  /\ lastId' = lastId + 1
  /\ calls' = (calls \ {c}) \cup {[c EXCEPT !.id = lastId + 1]}
  /\ strays' = strays \cup {c.id}
  /\ authProgress' \in IF c.kind = "get" THEN {authProgress, FALSE} ELSE {authProgress}
  /\ UNCHANGED <<flow, threads, posted, onPage, link, signedIn, submits, opens, blips,
                 proofs, left>>

-----------------------------------------------------------------------------
Answer == \E c \in calls :
  \/ GotParameters(c) \/ GotNoParameters(c) \/ FetchRefused(c)
  \/ ProofAccepted(c) \/ ProofStale(c) \/ ProofRefused(c)

Work == \E t \in threads : WorkerChecks(t) \/ \E k \in {"proved", "failed"} : WorkerReports(t, k)

System == Answer \/ Work \/ HandleSrpProved \/ HandleSrpFailed \/ Initialized

Next ==
  \/ OpenPage \/ Submit \/ Back
  \/ Disconnected \/ (\E c \in calls : Renamed(c))
  \/ System

Spec == Init /\ [][Next]_vars

\* The server answers, the worker ends, the event loop turns, and a lost
\* connection comes back (module Connection).  Every step of System uses up a
\* request, a thread or an event, so one fairness condition serves them all.
FairSpec == Spec /\ WF_vars(System)

-----------------------------------------------------------------------------
(***************************************************************************)
(* What the flow promises.                                                 *)
(***************************************************************************)
\* The types of all variables of the flow.
PasswordTypeOK ==
  /\ pendingPassword \in Nat /\ srpWorker \in Nat /\ srpRetried \in BOOLEAN
  /\ passwordRequestId \in Nat /\ checkPasswordRequestId \in Nat
  /\ onPage \in BOOLEAN /\ authProgress \in BOOLEAN
  /\ link \in BOOLEAN /\ signedIn \in BOOLEAN /\ lastId \in Nat
  /\ submits \in Nat /\ opens \in Nat /\ blips \in Nat /\ renames \in Nat
  /\ threads \subseteq Thread /\ calls \subseteq Call
  /\ posted \in Seq(Event) /\ proofs \in Seq(Event)
  /\ left \subseteq Nat /\ strays \subseteq Nat

(***************************************************************************)
(* "Every attempt proves against freshly fetched parameters": a proof is   *)
(* made from the answer to a fetch of its own submission, never from the   *)
(* hint's or an earlier submission's, and no srp_id is spent twice.        *)
(***************************************************************************)
FreshProofs ==
  /\ \A i \in DOMAIN proofs : proofs[i].for = proofs[i].pw
  /\ \A i, j \in DOMAIN proofs : proofs[i].srp = proofs[j].srp => i = j

(***************************************************************************)
(* A submission costs the server two proofs at most, whatever earlier      *)
(* submissions are still being answered: stale parameters are retried      *)
(* once.                                                                   *)
(* (With the types of the variables.)                                      *)
(***************************************************************************)
RetriedOnce ==
  /\ PasswordTypeOK
  /\ \A p \in 1 .. submits : Cardinality({i \in DOMAIN proofs : proofs[i].pw = p}) <= 2

(***************************************************************************)
(* Once the user has backed out nothing of what they typed is kept, and    *)
(* nothing that arrives later - an answer, an error, a worker's event -    *)
(* starts another fetch or worker for it.                                  *)
(***************************************************************************)
LeftIsForgotten ==
  /\ pendingPassword \notin left
  /\ \A c \in calls : c.kind = "get" /\ c.for \in left => c.id # passwordRequestId
  /\ \A t \in threads : t.srp = srpWorker => t.pw \notin left

(***************************************************************************)
(* tgsrpworker.cpp: "The client stopped listening before asking for this.  *)
(* Reporting into a torn-down flow would reopen a page the user has left." *)
(* No proof is sent of a submission the user backed out of.                *)
(***************************************************************************)
NoProofAfterLeft ==
  [][Len(proofs') > Len(proofs) => proofs'[Len(proofs')].pw \notin left]_vars

(***************************************************************************)
(* The spinner of the page stops: a submission is answered, refused, given *)
(* up or signed in with, through stale parameters, overlapping submissions *)
(* and lost connections.  The exception is a fetch sent again under an id  *)
(* handleMessageChanged() does not tell the flow about.                    *)
(***************************************************************************)
SpinnerStops == authProgress ~> (~authProgress \/ passwordRequestId \in strays)
=============================================================================
