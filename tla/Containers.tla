------------------------------- MODULE Containers -------------------------------
(***************************************************************************)
(* What the plugin does with container groups besides the resource driver:   *)
(* deployments, listings by owner, and jobs.  A behaviour has one of them,    *)
(* chosen at the start: they work on different groups and share no memory.   *)
(***************************************************************************)
EXTENDS Rollout, Ownership, Runner

CONSTANT Services

ASSUME ContainersAssumption ==
    Services \subseteq Strategy \cup {"owners", "jobs"}

vars == <<groupVars, rolloutVars, ownershipVars, runnerVars>>

Init == /\ service \in Services
        /\ GroupsInit /\ RolloutInit /\ OwnershipInit /\ RunnerInit

Deploying == /\ service \in Strategy
             /\ \/ RolloutNext
                \/ Others /\ UNCHANGED rolloutVars
             /\ UNCHANGED <<ownershipVars, runnerVars>>

Listing == /\ service = "owners"
           /\ OwnershipNext
           /\ UNCHANGED <<rolloutVars, runnerVars>>

Running == /\ service = "jobs"
           /\ RunnerNext
           /\ UNCHANGED <<groupVars, rolloutVars, ownershipVars>>

Next == Deploying \/ Listing \/ Running

Spec == Init /\ [][Next]_vars

(* The host takes its next step, requests are answered, containers start and  *)
(* end, and the host asks for the state of the jobs whose handles it has.     *)
Fairness ==
    /\ WF_vars(Host /\ UNCHANGED <<ownershipVars, runnerVars>>)
    /\ WF_vars(Azure /\ UNCHANGED <<ownershipVars, runnerVars>>)
    /\ \A p \in Site :
          WF_vars(JobRuns(p) /\ UNCHANGED <<groupVars, rolloutVars, ownershipVars>>)
    /\ \A c \in JobCall :
          WF_vars(JobStatus(c, TRUE)
                  /\ UNCHANGED <<groupVars, rolloutVars, ownershipVars>>)

LiveSpec == Spec /\ Fairness

(* Every variable has its type. *)
TypeOK == /\ service \in Services
          /\ RolloutTypeOK /\ OwnersTypeOK /\ RunnerTypeOK

=============================================================================
