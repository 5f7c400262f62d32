-------------------------------- MODULE Feed --------------------------------
(***************************************************************************)
(* What the models of the client may rely on, whatever the update pipeline *)
(* does inside: in every sequence the updates up to the position it claims *)
(* have been shown to them, save those before a place it named as a new    *)
(* start.  There are no requests, queues, timers or verdicts here.         *)
(*                                                                         *)
(* A step may concern several sequences: a difference can carry updates of *)
(* channels, and a lost position takes every sequence with it.             *)
(***************************************************************************)
EXTENDS Integers

CONSTANTS
  Seqs,      \* the sequences
  MaySkip    \* whether a position may jump without the models being told

VARIABLES
  published,  \* positions of the updates the server has logged
  shown,      \* those dispatched to the models of this process
  told,       \* from where the models know they are owed every update
  skipped,    \* up to where a jump went unmentioned
  at,         \* the position claimed, 0 when there is none
  stored      \* the position the next process starts from

vars == <<published, shown, told, skipped, at, stored>>

\* s is owed what lies above both.
Complete(s) ==
  \A p \in published[s] :
    told[s] < p /\ skipped[s] < p /\ p <= at[s] => p \in shown[s]

Init ==
  /\ published = [s \in Seqs |-> {}] /\ shown = [s \in Seqs |-> {}]
  /\ stored \in [Seqs -> Nat]
  /\ told = stored /\ at = stored /\ skipped = [s \in Seqs |-> 0]

-----------------------------------------------------------------------------
\* What one step may do to the claim on one sequence.
Same(s) == told'[s] = told[s] /\ skipped'[s] = skipped[s]

\* A sequence without a position may be entered anywhere.
Enter(s) == at[s] = 0 /\ told'[s] >= told[s] /\ skipped'[s] = skipped[s]

\* The models are told to reload up to the new position.
Reload(s) ==
  told'[s] >= at'[s] /\ told'[s] >= told[s] /\ skipped'[s] = skipped[s]

Skip(s) == MaySkip /\ told'[s] = told[s] /\ skipped'[s] >= skipped[s]

\* Updates are published above every position claimed or stored so far.
Publish ==
  /\ \A s \in Seqs :
       /\ published[s] \subseteq published'[s]
       /\ \A p \in published'[s] \ published[s] : p > at[s] /\ p > stored[s]
  /\ UNCHANGED <<shown, told, skipped, at, stored>>

\* Updates are shown, positions move (forward, back, or away) to where nothing
\* is missing, and may be written down.
Advance ==
  /\ UNCHANGED published
  /\ \A s \in Seqs :
       /\ shown[s] \subseteq shown'[s] /\ shown'[s] \subseteq published[s]
       /\ Same(s) \/ Enter(s) \/ Reload(s) \/ Skip(s)
       /\ Complete(s)'
  /\ stored' \in {stored, at'}

\* A new process starts from what was written, with models that know nothing.
Crash ==
  /\ at' = stored /\ told' = stored
  /\ shown' = [s \in Seqs |-> {}] /\ skipped' = [s \in Seqs |-> 0]
  /\ UNCHANGED <<published, stored>>

Next == Publish \/ Advance \/ Crash

Spec == Init /\ [][Next]_vars
=============================================================================
