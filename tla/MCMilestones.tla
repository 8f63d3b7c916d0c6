---------------------------- MODULE MCMilestones ----------------------------
(***************************************************************************)
(* Instances of Milestones for TLC.                                        *)
(***************************************************************************)
EXTENDS Milestones, TLC

\* One process with an edit that is reverted, one with a negative result, or two
\* processes that race around one edit.
MCBudgets ==
    LET one == {CHOOSE p \in Procs : TRUE}
    IN  {[edits |-> 2, negatives |-> 0, procs |-> one],
         [edits |-> 1, negatives |-> 1, procs |-> one],
         [edits |-> 1, negatives |-> 0, procs |-> Procs]}
=============================================================================
