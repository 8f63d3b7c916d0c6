----------------------------- MODULE MCEventLog -----------------------------
(***************************************************************************)
(* What several processes write with no one in charge, checked in one run: *)
(* the event log as a file; the commands above it, which load a state,     *)
(* change their copy and append the difference; and the approvals of repo  *)
(* safety, files of their own.  focus is what a behavior is about, and the *)
(* variables of the others keep their initial values.                      *)
(*                                                                         *)
(* The store has two fields: the event of a command on `step` may carry    *)
(* only that field, the event of a command on `closure` may carry both,    *)
(* and only the latter command may load before it claims.                  *)
(***************************************************************************)
EXTENDS EventLog, HarnessStore, RepoSafety

VARIABLE focus

MCFields == {"step", "closure"}
MCScope == [f \in MCFields |-> IF f = "step" THEN {"step"} ELSE MCFields]
MCLoadsFirst == {"closure"}

mcVars == <<focus, evVars, vars, rsVars>>

\* One initial state of repo safety, where it is not in focus.
rsRests ==
    /\ remote = [c \in Clones |-> CHOOSE r \in Remotes : TRUE]
    /\ branch = [c \in Clones |-> CHOOSE b \in Branches : TRUE]
    /\ rsInit

mcInit ==
    /\ focus \in {"log", "store", "safety"}
    /\ evInit /\ Init
    /\ focus # "log" => ~legacy
    /\ IF focus = "safety" THEN rsInit ELSE rsRests

LogStep == focus = "log" /\ evNext /\ UNCHANGED <<focus, vars, rsVars>>
StoreStep == focus = "store" /\ Next /\ UNCHANGED <<focus, evVars, rsVars>>
SafetyStep == focus = "safety" /\ rsNext /\ UNCHANGED <<focus, evVars, vars>>

mcSpec == mcInit /\ [][LogStep \/ StoreStep \/ SafetyStep]_mcVars
=============================================================================
