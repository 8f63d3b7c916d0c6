------------------------------- MODULE MCLocks ------------------------------
(***************************************************************************)
(* The two lock files, checked in one run: events.lock, with the event log *)
(* it guards, when writes fail, and the write authority, with the three    *)
(* processes it takes to rob one.  focus is the lock a behavior is about,  *)
(* and the variables of the other keep their initial values.               *)
(***************************************************************************)
EXTENDS EventLog, WriteAuthority

VARIABLE focus

mcVars == <<focus, evVars, waVars>>

mcInit ==
    /\ focus \in {"log", "authority"}
    /\ evInit /\ waInit
    /\ focus # "log" => ~legacy

LogStep == focus = "log" /\ evNext /\ UNCHANGED <<focus, waVars>>
ClaimStep == focus = "authority" /\ waNext /\ UNCHANGED <<focus, evVars>>

\* Neither fairness asks anything of a process that has nothing under way.
mcSpec == mcInit /\ [][LogStep \/ ClaimStep]_mcVars /\ evFairness /\ waFairness
=============================================================================
