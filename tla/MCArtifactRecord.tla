-------------------------- MODULE MCArtifactRecord --------------------------
(***************************************************************************)
(* Instances of ArtifactRecord for TLC: two verifiers and a criterion of   *)
(* both.                                                                   *)
(***************************************************************************)
EXTENDS ArtifactRecord, TLC

MCEvaluators == <<"k1", "k2">>
MCCriteria == <<"c1">>
MCVerifierTypes == [c1 |-> {"k1", "k2"}]
=============================================================================
