--------------------------------- MODULE Runner ---------------------------------
(***************************************************************************)
(* The job runner (internal/runner.go, internal/runner_server.go): RunJob    *)
(* makes a container group of its own for every call, JobStatus reads its    *)
(* state through the handle, while the provider may be initialized again.    *)
(***************************************************************************)
EXTENDS Naturals

CONSTANTS JobCall,      \* the jobs the host wants run
          JobBase,      \* the name each asks for, as azureJobName cuts it
          Subscription, ResourceGroup,
          MaxRuns,      \* calls of RunJob, repeated ones included
          MaxJobFaults,
          Nothing

VARIABLES sub, rg,      \* the provider's subscription and resource group
          clock,        \* the time, as UnixNano tells it
          jobs,         \* the container groups of jobs, by site
          runs,         \* each RunJob call with its handle
          reports,      \* what JobStatus said last of each, with whose state it was
          faults

runnerVars == <<sub, rg, clock, jobs, runs, reports, faults>>

ASSUME RunnerAssumption ==
    /\ Subscription # {} /\ ResourceGroup # {}
    /\ MaxRuns \in Nat
    /\ JobBase = [c \in JobCall |-> JobBase[c]]

JobName == {<<JobBase[c], t>> : c \in JobCall, t \in 0..MaxRuns}

Site == Subscription \X ResourceGroup \X JobName

(* Of a container's state; Azure may have one that the plugin does not know.  *)
Phase == {"unseen", "waiting", "running", "odd", "exit0", "exitN"}

Ended == {"exit0", "exitN"}

RunnerInit ==
    /\ sub = CHOOSE s \in Subscription : TRUE
    /\ rg = CHOOSE r \in ResourceGroup : TRUE
    /\ clock = 0
    /\ jobs = [p \in Site |-> Nothing]
    /\ runs = [c \in JobCall |-> Nothing]
    /\ reports = [c \in JobCall |-> Nothing]
    /\ faults = 0

-----------------------------------------------------------------------------
(* Mutant: the whole name is cut, and of a long one the time goes first. *)
azureJobNameCut(c, t) == <<JobBase[c], 0>>

(* The base, cut to leave room for the time, and the time. *)
azureJobName(c, t) == <<JobBase[c], t>>

(* Mutant: the policy of the services' groups. *)
RestartPolicyAlways == "Always"

RestartPolicy == "Never"

(* RunJob copies the provider's fields, the client of its subscription among   *)
(* them, and names the group; no two calls see the same time.  run, the time, *)
(* also tells the calls apart.                                              *)
RunJob(c) ==
    /\ runs[c] = Nothing
    /\ clock < MaxRuns
    /\ clock' = clock + 1
    /\ runs' = [runs EXCEPT ![c] = [at |-> "put", sub |-> sub, rg |-> rg,
                                    run |-> clock', name |-> azureJobName(c, clock')]]
    /\ UNCHANGED <<sub, rg, jobs, reports, faults>>

Started(c) ==
    [jobs EXCEPT ![<<runs[c].sub, runs[c].rg, runs[c].name>>] =
        [run |-> runs[c].run, policy |-> RestartPolicy, phase |-> "unseen"]]

JobStarted(c) ==
    /\ runs[c] # Nothing /\ runs[c].at = "put"
    /\ jobs' = Started(c)
    /\ runs' = [runs EXCEPT ![c].at = "held"]
    /\ UNCHANGED <<sub, rg, clock, reports, faults>>

(* The host may call again: a lost answer leaves a job without a handle. *)
JobRefused(c) ==
    /\ runs[c] # Nothing /\ runs[c].at = "put"
    /\ faults < MaxJobFaults /\ faults' = faults + 1
    /\ jobs' \in {jobs, Started(c)}
    /\ runs' = [runs EXCEPT ![c] = Nothing]
    /\ UNCHANGED <<sub, rg, clock, reports>>

(* Azure runs the container, and again when the policy says so. *)
After(j) == CASE j.phase = "unseen"  -> {"waiting", "odd", "running"}
              [] j.phase \in {"waiting", "odd"} -> {"running"}
              [] j.phase = "running" -> Ended
              [] OTHER -> IF j.policy = "Always" THEN {"waiting"} ELSE {}

JobRuns(p) ==
    /\ jobs[p] # Nothing
    /\ \E phase \in After(jobs[p]) : jobs' = [jobs EXCEPT ![p].phase = phase]
    /\ UNCHANGED <<sub, rg, clock, runs, reports, faults>>

azureJobState(phase) ==
    CASE phase \in {"unseen", "waiting"} -> "Pending"
      [] phase = "running" -> "Running"
      [] phase = "exit0"   -> "Succeeded"
      [] phase = "exitN"   -> "Failed"
      [] OTHER             -> "Unknown"

(* Mutant: always in the provider's resource group. *)
LocatedHere(h, meta) == <<sub, rg, h.name>>

(* Where to look: in the provider's subscription, which the handle does not   *)
(* name, and by the handle's metadata or, when the host kept only the name,   *)
(* in the provider's resource group.                                        *)
Located(h, meta) == <<sub, IF meta THEN h.rg ELSE rg, h.name>>

(* An error, of a failed request or a group that is not there, tells nothing. *)
JobStatus(c, meta) ==
    /\ runs[c] # Nothing /\ runs[c].at = "held"
    /\ LET j == jobs[Located(runs[c], meta)]
       IN  /\ j # Nothing
           /\ reports' = [reports EXCEPT ![c] =
                             [run |-> j.run, state |-> azureJobState(j.phase)]]
    /\ UNCHANGED <<sub, rg, clock, jobs, runs, faults>>

(* The provider gets another resource group, or another subscription and with *)
(* it another client.                                                       *)
Initialize ==
    /\ sub' \in Subscription /\ rg' \in ResourceGroup
    /\ <<sub', rg'>> # <<sub, rg>>
    /\ UNCHANGED <<clock, jobs, runs, reports, faults>>

RunnerNext ==
    \/ \E c \in JobCall : \/ RunJob(c) \/ JobStarted(c) \/ JobRefused(c)
                          \/ \E meta \in BOOLEAN : JobStatus(c, meta)
    \/ \E p \in Site : JobRuns(p)
    \/ Initialize

-----------------------------------------------------------------------------
Final == {"Succeeded", "Failed"}

(* Every variable of the runner has its type. *)
RunnerTypeOK ==
    /\ sub \in Subscription /\ rg \in ResourceGroup
    /\ clock \in 0..MaxRuns
    /\ jobs \in [Site ->
                    [run : 1..MaxRuns, policy : {"Never", "Always"}, phase : Phase]
                    \cup {Nothing}]
    /\ runs \in [JobCall -> [at : {"put", "held"}, sub : Subscription,
                             rg : ResourceGroup, run : 1..MaxRuns, name : JobName] \cup {Nothing}]
    /\ reports \in [JobCall -> [run : 1..MaxRuns,
                                state : Final \cup {"Pending", "Running", "Unknown"}]
                               \cup {Nothing}]
    /\ faults \in Nat

(* What JobStatus says of a handle is the state of the job that the call     *)
(* which gave the handle started: no other call, of a job of the same name or *)
(* a repeated one, wrote its group, and a provider initialized for another   *)
(* subscription or resource group does not look up another job.             *)
HandleIsForJob ==
    \A c \in JobCall :
        runs[c] # Nothing /\ reports[c] # Nothing => reports[c].run = runs[c].run

(* A job that was reported as succeeded or failed never is anything else: it *)
(* is not started again and nobody takes its group.                         *)
FinalIsFinal ==
    [][\A c \in JobCall :
          reports[c] # Nothing /\ reports[c].state \in Final => reports'[c] = reports[c]
      ]_runnerVars

(* A job whose handle the host has is reported as ended in the end, though    *)
(* the provider is initialized again and again for other resource groups.    *)
(* One that is initialized for another subscription, which the handle does   *)
(* not name, may not find the job again.                                    *)
JobsReported ==
    \A c \in JobCall :
        runs[c] # Nothing /\ runs[c].at = "held"
            ~> \/ reports[c] # Nothing /\ reports[c].state \in Final
               \/ runs[c] # Nothing /\ runs[c].sub # sub

=============================================================================
