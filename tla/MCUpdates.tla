----------------------------- MODULE MCUpdates -----------------------------
(***************************************************************************)
(* Small instances of the update pipeline.                                 *)
(***************************************************************************)
EXTENDS UpdatesProperties, TLC

CONSTANTS MaxCommon, MaxChannel, KnownChats

MCMaxPts == [s \in Seqs |-> IF s = Common THEN MaxCommon ELSE MaxChannel]
MCChats == IF KnownChats THEN {Channels} ELSE {{}, Channels}

\* No rule tells one channel from another.
ChannelSymmetry == Permutations(Channels)
=============================================================================
