------------------------- MODULE MCSeqConversation --------------------------
(***************************************************************************)
(* Small instances of SeqConversation for TLC.                             *)
(***************************************************************************)
EXTENDS SeqConversation, FiniteSets, TLC

CallerSymmetry == Permutations(Caller)

(* History: the hash has gone while a caller held its lock. *)
VARIABLE late

MCInit == Init /\ late = FALSE

MCNext ==
    /\ Next
    /\ late' = (late \/ (/\ cache # NoHash /\ cache' = NoHash
                         /\ \E p \in Caller : pc[p] \in {"mongo", "set"}))

MCSpec == MCInit /\ [][MCNext]_<<vars, late>>

-----------------------------------------------------------------------------
(* As long as no lock has expired under its holder, a call that begins     *)
(* after others were answered gets higher numbers than they did.           *)
LaterIsHigherInTime == late \/ LaterIsHigher

(* Nor is a batched question, which does not look at the lock, told less   *)
(* than somebody was told before.                                          *)
PeekIsCurrentInTime == late \/ PeekIsCurrent
=============================================================================
