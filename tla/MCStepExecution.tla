-------------------------- MODULE MCStepExecution --------------------------
(***************************************************************************)
(* Instances of StepExecution for TLC.  Processes are interchangeable.     *)
(***************************************************************************)
EXTENDS StepExecution, TLC

MCSteps == {<<1, 1>>, <<2, 1>>}
MCTwoStepTask == {<<1, 1>>, <<1, 2>>, <<2, 1>>}
MCSymmetry == Permutations(Procs)
=============================================================================
