--------------------------- MODULE UpdatesState ---------------------------
(***************************************************************************)
(* TgUpdatesState (libkg/tgupdatesstate.cpp): the counters the update      *)
(* pipeline keeps and the verdicts it passes on what arrives.  One         *)
(* function holds every position: position[Common] is _pts, position[c]    *)
(* is the entry of channel c in _channelPts, 0 when there is none (the     *)
(* code reads both through value(c, 0)).  date and qts are left out: they  *)
(* are only copied into the request and no verdict reads them.             *)
(***************************************************************************)
EXTENDS Integers

CONSTANTS
  Channels,   \* ids of the channels the account is in
  Common      \* the common sequence; channelIdOf() returns 0 for it

ASSUME CommonIsNoChannel == Common \notin Channels

Seqs == {Common} \cup Channels

Larger(a, b) == IF a >= b THEN a ELSE b

(***************************************************************************)
(* check(): local is the position of the sequence the update belongs to.   *)
(* The order of the tests is the code's.                                   *)
(***************************************************************************)
\* As Check would read if "already applied" were tested by what the update
\* leaves behind: anything above the local position counts as the next one.
CheckNoGap(local, pts, count) ==
  IF local = 0 \/ pts > local \/ local + count = pts THEN "apply"
  ELSE "duplicate"

Check(local, pts, count) ==
  CASE local = 0 -> "apply"
    [] local # 0 /\ local + count = pts -> "apply"
    [] local # 0 /\ local + count # pts /\ pts <= local -> "duplicate"
    [] OTHER -> "gap"

(***************************************************************************)
(* checkSeq(): an absent seq_start reads as 0 and stands for seq itself.   *)
(***************************************************************************)
CheckSeq(local, start, seq) ==
  LET first == IF start = 0 THEN seq ELSE start IN
  CASE seq = 0 -> "ignore"
    [] seq # 0 /\ local + 1 = first -> "apply"
    [] seq # 0 /\ local + 1 # first /\ first <= local -> "duplicate"
    [] OTHER -> "gap"

\* One past the update.
AdvancePast(position, s, pts) ==
  [position EXCEPT ![s] = Larger(position[s], pts + 1)]

\* advance(): forward only.
AdvanceTo(position, s, pts) ==
  [position EXCEPT ![s] = Larger(position[s], pts)]

\* setChannelPts() and the _pts part of reset() and setPts(): unconditional.
SetTo(position, s, pts) == [position EXCEPT ![s] = pts]

\* clearChannels(): no channel has a position any more.
ClearChannels(position) ==
  [s \in Seqs |-> IF s = Common THEN position[Common] ELSE 0]

\* clear(): no sequence has.
NoPosition == [s \in Seqs |-> 0]
=============================================================================
