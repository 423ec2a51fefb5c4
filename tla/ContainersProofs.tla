---------------------------- MODULE ContainersProofs ----------------------------
(***************************************************************************)
(* Jobs, listings and deployments, for any number of jobs, images, owners,  *)
(* addresses, failures and acts of others.                                 *)
(***************************************************************************)
EXTENDS Containers, TLAPS

-----------------------------------------------------------------------------
(* Jobs.  The time in a group's name tells which call of RunJob made it.     *)

Job == [run : 1..MaxRuns, policy : {"Never", "Always"}, phase : Phase]

Run == [at : {"put", "held"}, sub : Subscription, rg : ResourceGroup, run : 1..MaxRuns,
        name : JobName]

Report == [run : 1..MaxRuns, state : Final \cup {"Pending", "Running", "Unknown"}]

Place(c) == <<runs[c].sub, runs[c].rg, runs[c].name>>

(* A call has the time in its name, and no other call has that time.        *)
RunsApart ==
    \A c \in JobCall : runs[c] # Nothing =>
        /\ runs[c].run <= clock
        /\ runs[c].name = azureJobName(c, runs[c].run)
        /\ \A d \in JobCall \ {c} : runs[d] # Nothing => runs[d].run # runs[c].run

(* A group is the job of the time in its name, and runs once.              *)
JobsNamed ==
    \A p \in Site : jobs[p] # Nothing =>
        /\ jobs[p].run = p[3][2] /\ jobs[p].run <= clock
        /\ jobs[p].policy = "Never"

(* The job of a call is nowhere else.                                      *)
JobsPlaced ==
    \A c \in JobCall : \A p \in Site :
        runs[c] # Nothing /\ jobs[p] # Nothing /\ jobs[p].run = runs[c].run
            => p = Place(c)

(* A report is about the job of the call, and a final one is what the job   *)
(* still is.                                                               *)
ReportsTrue ==
    \A c \in JobCall : reports[c] # Nothing =>
        /\ runs[c] # Nothing /\ runs[c].at = "held"
        /\ reports[c].run = runs[c].run
        /\ reports[c].state \in Final =>
              /\ jobs[Place(c)] # Nothing
              /\ jobs[Place(c)].phase \in Ended
              /\ azureJobState(jobs[Place(c)].phase) = reports[c].state

JobInv == RunnerTypeOK /\ RunsApart /\ JobsNamed /\ JobsPlaced /\ ReportsTrue

LEMMA JobTypes ==
    RunnerTypeOK <=>
        /\ sub \in Subscription /\ rg \in ResourceGroup /\ clock \in 0..MaxRuns /\ faults \in Nat
        /\ jobs \in [Site -> Job \cup {Nothing}]
        /\ runs \in [JobCall -> Run \cup {Nothing}]
        /\ reports \in [JobCall -> Report \cup {Nothing}]
  BY DEF RunnerTypeOK, Job, Run, Report

LEMMA NameOf ==
    ASSUME NEW c \in JobCall, NEW t \in 0..MaxRuns
    PROVE  azureJobName(c, t) \in JobName /\ azureJobName(c, t)[2] = t
  BY DEF azureJobName, JobName

LEMMA JobInit == RunnerInit => JobInv
<1> SUFFICES ASSUME RunnerInit PROVE JobInv
  OBVIOUS
<1>1. RunnerTypeOK
  BY RunnerAssumption DEF RunnerInit, RunnerTypeOK
<1>2. RunsApart /\ JobsNamed /\ JobsPlaced /\ ReportsTrue
  BY DEF RunnerInit, RunsApart, JobsNamed, JobsPlaced, ReportsTrue
<1> QED
  BY <1>1, <1>2 DEF JobInv

(* RunJob: the time is later than that of any call or job.                  *)
LEMMA RunJobKeeps ==
    ASSUME JobInv, NEW c \in JobCall, RunJob(c)
    PROVE  JobInv'
<1> DEFINE r == [at |-> "put", sub |-> sub, rg |-> rg, run |-> clock + 1,
                 name |-> azureJobName(c, clock + 1)]
<1>1. /\ sub \in Subscription /\ rg \in ResourceGroup /\ clock \in 0..MaxRuns /\ MaxRuns \in Nat
      /\ jobs \in [Site -> Job \cup {Nothing}]
      /\ runs \in [JobCall -> Run \cup {Nothing}]
      /\ reports \in [JobCall -> Report \cup {Nothing}]
  BY JobTypes, RunnerAssumption DEF JobInv
<1>2. /\ clock' = clock + 1 /\ clock + 1 \in 1..MaxRuns
      /\ runs' = [runs EXCEPT ![c] = r] /\ runs[c] = Nothing
      /\ UNCHANGED <<sub, rg, jobs, reports, faults>>
  BY <1>1 DEF RunJob
<1>3. r \in Run
  BY <1>1, <1>2, NameOf DEF Run
<1>4. RunnerTypeOK'
  BY <1>1, <1>2, <1>3, JobTypes DEF JobInv, RunnerTypeOK, Run
<1>5. \A d \in JobCall \ {c} : runs'[d] = runs[d]
  BY <1>1, <1>2
<1>6. runs'[c] = r /\ reports[c] = Nothing
  BY <1>1, <1>2 DEF JobInv, ReportsTrue
<1>7. RunsApart'
  <2> SUFFICES ASSUME NEW d \in JobCall, runs'[d] # Nothing
               PROVE  /\ runs'[d].run <= clock'
                      /\ runs'[d].name = azureJobName(d, runs'[d].run)
                      /\ \A e \in JobCall \ {d} :
                            runs'[e] # Nothing => runs'[e].run # runs'[d].run
    BY DEF RunsApart, azureJobName
  <2>1. \A e \in JobCall \ {c} : runs[e] # Nothing => runs[e].run \in 1..clock
    BY <1>1 DEF JobInv, RunsApart, Run
  <2>2. CASE d = c
    BY <1>1, <1>2, <1>5, <1>6, <2>1, <2>2
  <2>3. CASE d # c
    <3>1. runs[d] # Nothing /\ runs'[d] = runs[d]
      BY <1>5, <2>3
    <3>2. /\ runs[d].run <= clock /\ runs[d].name = azureJobName(d, runs[d].run)
          /\ \A e \in JobCall \ {d} : runs[e] # Nothing => runs[e].run # runs[d].run
      BY <3>1 DEF JobInv, RunsApart
    <3> QED
      BY <1>1, <1>2, <1>5, <1>6, <2>1, <2>3, <3>1, <3>2
  <2> QED
    BY <2>2, <2>3
<1>8. JobsNamed'
  BY <1>1, <1>2 DEF JobInv, JobsNamed, Job
<1>9. JobsPlaced'
  <2> SUFFICES ASSUME NEW d \in JobCall, NEW p \in Site,
                      runs'[d] # Nothing, jobs[p] # Nothing, jobs[p].run = runs'[d].run
               PROVE  p = <<runs'[d].sub, runs'[d].rg, runs'[d].name>>
    BY <1>2 DEF JobsPlaced, Place
  <2>1. jobs[p].run <= clock /\ jobs[p].run \in 1..MaxRuns
    BY <1>1 DEF JobInv, JobsNamed, Job
  <2>2. d # c
    BY <1>1, <1>2, <1>6, <2>1
  <2> QED
    BY <1>5, <2>2 DEF JobInv, JobsPlaced, Place
<1>10. ReportsTrue'
  <2> SUFFICES ASSUME NEW d \in JobCall, reports[d] # Nothing
               PROVE  d # c
    BY <1>2, <1>5 DEF JobInv, ReportsTrue, Place
  <2> QED
    BY <1>6
<1> QED
  BY <1>4, <1>7, <1>8, <1>9, <1>10 DEF JobInv

(* JobStarted, JobRefused: the group of c may appear, under its own name and  *)
(* no other call's; c is held or forgotten.                                *)
LEMMA AnsweredKeeps ==
    ASSUME JobInv, NEW c \in JobCall, JobStarted(c) \/ JobRefused(c)
    PROVE  JobInv'
<1> DEFINE j == [run |-> runs[c].run, policy |-> RestartPolicy, phase |-> "unseen"]
           h == [runs[c] EXCEPT !.at = "held"]
<1>1. /\ jobs \in [Site -> Job \cup {Nothing}]
      /\ runs \in [JobCall -> Run \cup {Nothing}]
      /\ reports \in [JobCall -> Report \cup {Nothing}]
      /\ RunnerTypeOK
  BY JobTypes DEF JobInv
<1>2. /\ runs[c] # Nothing /\ runs[c].at = "put" /\ runs[c] \in Run
      /\ UNCHANGED <<sub, rg, clock, reports>>
  BY <1>1 DEF JobStarted, JobRefused
<1>3. reports[c] = Nothing
  BY <1>2 DEF JobInv, ReportsTrue
<1>4. /\ Place(c) \in Site /\ j \in Job /\ h \in Run
      /\ j.run = runs[c].run /\ j.policy = "Never"
      /\ Place(c)[3][2] = runs[c].run /\ runs[c].run <= clock
  <2>1. runs[c].name = azureJobName(c, runs[c].run) /\ runs[c].run <= clock
    BY <1>2 DEF JobInv, RunsApart
  <2>2. runs[c].run \in 0..MaxRuns
    BY <1>2, RunnerAssumption DEF Run
  <2> QED
    BY <1>2, <2>1, <2>2, NameOf DEF Place, Site, Run, Job, Phase, RestartPolicy
<1>5. jobs' = jobs \/ jobs' = [jobs EXCEPT ![Place(c)] = j]
  BY DEF JobStarted, JobRefused, Started, Place
<1>6. runs' = [runs EXCEPT ![c] = h] \/ runs' = [runs EXCEPT ![c] = Nothing]
  BY DEF JobStarted, JobRefused
<1>7. RunnerTypeOK'
  <2>1. jobs' \in [Site -> Job \cup {Nothing}]
    BY <1>1, <1>4, <1>5
  <2>2. runs' \in [JobCall -> Run \cup {Nothing}]
    BY <1>1, <1>4, <1>6
  <2>3. faults' \in Nat
    BY <1>1 DEF RunnerTypeOK, JobStarted, JobRefused
  <2> QED
    BY <1>1, <1>2, <2>1, <2>2, <2>3 DEF RunnerTypeOK, Job, Run, Report
<1>8. \A d \in JobCall : runs'[d] # Nothing =>
          /\ runs[d] # Nothing /\ runs'[d].run = runs[d].run
          /\ runs'[d].sub = runs[d].sub /\ runs'[d].rg = runs[d].rg
          /\ runs'[d].name = runs[d].name
          /\ d # c => runs'[d].at = runs[d].at
  BY <1>1, <1>2, <1>6 DEF Run
<1>9. \A d \in JobCall \ {c} : runs'[d] = runs[d]
  BY <1>1, <1>6
<1>10. RunsApart'
  BY <1>2, <1>8 DEF JobInv, RunsApart, azureJobName
<1>11. ASSUME NEW p \in Site, jobs'[p] # Nothing
       PROVE  \/ jobs'[p] = jobs[p] /\ p # Place(c)
              \/ jobs'[p] = jobs[p] /\ jobs[p] # Nothing
              \/ jobs'[p] = j /\ p = Place(c)
  BY <1>1, <1>5, <1>11
<1>12. JobsNamed'
  <2> SUFFICES ASSUME NEW p \in Site, jobs'[p] # Nothing
               PROVE  /\ jobs'[p].run = p[3][2] /\ jobs'[p].run <= clock
                      /\ jobs'[p].policy = "Never"
    BY <1>2 DEF JobsNamed
  <2> QED
    BY <1>4, <1>11 DEF JobInv, JobsNamed
<1>13. JobsPlaced'
  <2> SUFFICES ASSUME NEW d \in JobCall, NEW p \in Site,
                      runs'[d] # Nothing, jobs'[p] # Nothing, jobs'[p].run = runs'[d].run
               PROVE  p = <<runs[d].sub, runs[d].rg, runs[d].name>>
    BY <1>8 DEF JobsPlaced, Place
  <2>1. runs[d] # Nothing /\ jobs'[p].run = runs[d].run
    BY <1>8
  <2>2. CASE jobs'[p] = jobs[p]
    BY <2>1, <2>2 DEF JobInv, JobsPlaced, Place
  <2>3. CASE jobs'[p] = j /\ p = Place(c)
    <3>1. runs[d].run = runs[c].run
      BY <1>4, <2>1, <2>3
    <3>2. d = c
      BY <1>2, <2>1, <3>1 DEF JobInv, RunsApart
    <3> QED
      BY <2>3, <3>2 DEF Place
  <2> QED
    BY <1>11, <2>2, <2>3
<1>14. ReportsTrue'
  <2> SUFFICES ASSUME NEW d \in JobCall, reports'[d] # Nothing
               PROVE  /\ runs'[d] # Nothing /\ runs'[d].at = "held"
                      /\ reports'[d].run = runs'[d].run
                      /\ reports'[d].state \in Final =>
                            /\ jobs'[<<runs'[d].sub, runs'[d].rg, runs'[d].name>>] # Nothing
                            /\ jobs'[<<runs'[d].sub, runs'[d].rg, runs'[d].name>>].phase \in Ended
                            /\ azureJobState(jobs'[<<runs'[d].sub, runs'[d].rg, runs'[d].name>>].phase)
                                    = reports'[d].state
    BY DEF ReportsTrue, Place, azureJobState
  <2>1. d # c /\ runs[d] # Nothing /\ runs[d] \in Run
    BY <1>1, <1>2, <1>3 DEF JobInv, ReportsTrue
  <2>2. Place(d) # Place(c)
    <3>1. Place(d)[3] = azureJobName(d, runs[d].run) /\ runs[d].run # runs[c].run
      BY <1>2, <2>1 DEF JobInv, RunsApart, Place
    <3>2. Place(d)[3][2] = runs[d].run
      BY <3>1 DEF azureJobName
    <3> QED
      BY <1>4, <3>1, <3>2
  <2>3. Place(d) \in Site
    BY <2>1 DEF Place, Site, Run
  <2>4. jobs'[Place(d)] = jobs[Place(d)] /\ runs'[d] = runs[d]
    BY <1>1, <1>5, <1>9, <2>1, <2>2, <2>3
  <2> QED
    BY <1>2, <2>4 DEF JobInv, ReportsTrue, Place
<1> QED
  BY <1>7, <1>10, <1>12, <1>13, <1>14 DEF JobInv

(* JobRuns: a job that has ended does not run again.                        *)
LEMMA JobRunsKeeps ==
    ASSUME JobInv, NEW p \in Site, JobRuns(p)
    PROVE  JobInv'
<1>1. /\ jobs \in [Site -> Job \cup {Nothing}]
      /\ runs \in [JobCall -> Run \cup {Nothing}]
      /\ RunnerTypeOK
      /\ UNCHANGED <<sub, rg, clock, runs, reports, faults>>
  BY JobTypes DEF JobInv, JobRuns
<1>2. jobs[p] # Nothing /\ jobs[p] \in Job /\ jobs[p].policy = "Never"
  BY <1>1 DEF JobRuns, JobInv, JobsNamed
<1>3. PICK f \in After(jobs[p]) : jobs' = [jobs EXCEPT ![p].phase = f]
  BY DEF JobRuns
<1>4. f \in Phase /\ jobs[p].phase \notin Ended
  BY <1>2, <1>3 DEF After, Job, Phase, Ended
<1>5. /\ jobs'[p] \in Job /\ jobs'[p].run = jobs[p].run /\ jobs'[p].policy = jobs[p].policy
      /\ \A q \in (Site) \ {p} : jobs'[q] = jobs[q]
      /\ jobs' \in [Site -> Job \cup {Nothing}]
  BY <1>1, <1>2, <1>3, <1>4 DEF Job
<1>6. RunnerTypeOK'
  BY <1>1, <1>5 DEF RunnerTypeOK, Job
<1>7. RunsApart'
  BY <1>1 DEF JobInv, RunsApart, azureJobName
<1>8. JobsNamed'
  BY <1>1, <1>2, <1>5 DEF JobInv, JobsNamed
<1>9. JobsPlaced'
  BY <1>1, <1>2, <1>5 DEF JobInv, JobsPlaced, Place
<1>10. ReportsTrue'
  <2> SUFFICES ASSUME NEW c \in JobCall, reports[c] # Nothing, reports[c].state \in Final
               PROVE  jobs'[Place(c)] = jobs[Place(c)]
    BY <1>1 DEF JobInv, ReportsTrue, Place
  <2>1. /\ runs[c] # Nothing /\ runs[c] \in Run /\ jobs[Place(c)].phase \in Ended
    BY <1>1 DEF JobInv, ReportsTrue
  <2>2. Place(c) \in Site \ {p}
    BY <1>4, <2>1 DEF Place, Site, Run
  <2> QED
    BY <1>5, <2>2
<1> QED
  BY <1>6, <1>7, <1>8, <1>9, <1>10 DEF JobInv

(* JobStatus: what is found under the name, in whatever subscription and      *)
(* resource group, is the job of the call.                                  *)
LEMMA StatusIsOfJob ==
    ASSUME JobInv, NEW c \in JobCall, NEW meta \in BOOLEAN, JobStatus(c, meta)
    PROVE  /\ runs[c] # Nothing /\ runs[c].at = "held" /\ runs[c] \in Run
           /\ jobs[Place(c)] # Nothing /\ jobs[Place(c)] \in Job
           /\ jobs[Place(c)].run = runs[c].run
           /\ reports' = [reports EXCEPT ![c] =
                 [run |-> runs[c].run, state |-> azureJobState(jobs[Place(c)].phase)]]
<1> DEFINE p == Located(runs[c], meta)
<1>1. /\ sub \in Subscription /\ rg \in ResourceGroup
      /\ jobs \in [Site -> Job \cup {Nothing}]
      /\ runs \in [JobCall -> Run \cup {Nothing}]
  BY JobTypes DEF JobInv
<1>2. runs[c] # Nothing /\ runs[c].at = "held" /\ runs[c] \in Run
  BY <1>1 DEF JobStatus
<1>3. p \in Site /\ p[3] = runs[c].name
  BY <1>1, <1>2 DEF Located, Site, Run
<1>4. jobs[p] # Nothing /\ jobs[p] \in Job
  BY <1>1, <1>3 DEF JobStatus
<1>5. jobs[p].run = runs[c].run
  <2>1. jobs[p].run = runs[c].name[2]
    BY <1>3, <1>4 DEF JobInv, JobsNamed
  <2>2. runs[c].name = azureJobName(c, runs[c].run)
    BY <1>2 DEF JobInv, RunsApart
  <2> QED
    BY <2>1, <2>2 DEF azureJobName
<1>6. p = Place(c)
  BY <1>2, <1>3, <1>4, <1>5 DEF JobInv, JobsPlaced
<1>7. reports' = [reports EXCEPT ![c] =
         [run |-> jobs[p].run, state |-> azureJobState(jobs[p].phase)]]
  BY DEF JobStatus
<1> QED
  BY <1>2, <1>4, <1>5, <1>6, <1>7

LEMMA JobStatusKeeps ==
    ASSUME JobInv, NEW c \in JobCall, NEW meta \in BOOLEAN, JobStatus(c, meta)
    PROVE  JobInv'
<1> DEFINE j == jobs[Place(c)]
           s == azureJobState(j.phase)
<1>1. /\ reports \in [JobCall -> Report \cup {Nothing}]
      /\ UNCHANGED <<sub, rg, clock, jobs, runs, faults>>
      /\ RunnerTypeOK
  BY JobTypes DEF JobInv, JobStatus
<1>2. /\ runs[c] # Nothing /\ runs[c].at = "held" /\ runs[c] \in Run
      /\ j # Nothing /\ j \in Job
      /\ reports' = [reports EXCEPT ![c] = [run |-> runs[c].run, state |-> s]]
  BY StatusIsOfJob
<1>3. /\ s \in Final \cup {"Pending", "Running", "Unknown"}
      /\ s \in Final => j.phase \in Ended
  BY <1>2 DEF Job, Phase, Ended, Final, azureJobState
<1> HIDE DEF s
<1>4. [run |-> runs[c].run, state |-> s] \in Report
  BY <1>2, <1>3 DEF Run, Report
<1>5. RunnerTypeOK'
  BY <1>1, <1>2, <1>4 DEF RunnerTypeOK, Report
<1>6. RunsApart' /\ JobsNamed' /\ JobsPlaced'
  BY <1>1 DEF JobInv, RunsApart, JobsNamed, JobsPlaced, Place, azureJobName
<1>7. ReportsTrue'
  <2> SUFFICES ASSUME NEW d \in JobCall, reports'[d] # Nothing
               PROVE  /\ runs[d] # Nothing /\ runs[d].at = "held"
                      /\ reports'[d].run = runs[d].run
                      /\ reports'[d].state \in Final =>
                            /\ jobs[Place(d)] # Nothing
                            /\ jobs[Place(d)].phase \in Ended
                            /\ azureJobState(jobs[Place(d)].phase) = reports'[d].state
    BY <1>1 DEF ReportsTrue, Place, azureJobState
  <2>1. CASE d # c
    <3>1. reports'[d] = reports[d]
      BY <1>1, <1>2, <2>1
    <3> QED
      BY <3>1 DEF JobInv, ReportsTrue
  <2>2. CASE d = c
    <3>1. reports'[d].run = runs[d].run /\ reports'[d].state = s
      BY <1>1, <1>2, <2>2
    <3> QED
      BY <1>2, <1>3, <2>2, <3>1 DEF s
  <2> QED
    BY <2>1, <2>2
<1> QED
  BY <1>5, <1>6, <1>7 DEF JobInv

LEMMA JobStep ==
    ASSUME JobInv, RunnerNext \/ UNCHANGED runnerVars
    PROVE  JobInv'
<1>1. CASE UNCHANGED runnerVars
  BY <1>1 DEF runnerVars, JobInv, RunnerTypeOK, RunsApart, JobsNamed, JobsPlaced,
              ReportsTrue, Place, azureJobName, azureJobState
<1>2. CASE Initialize
  <2>1. /\ sub' \in Subscription /\ rg' \in ResourceGroup
        /\ UNCHANGED <<clock, jobs, runs, reports, faults>>
    BY <1>2 DEF Initialize
  <2> QED
    BY <2>1 DEF JobInv, RunnerTypeOK, RunsApart, JobsNamed, JobsPlaced,
                ReportsTrue, Place, azureJobName, azureJobState
<1> QED
  BY <1>1, <1>2, RunJobKeeps, AnsweredKeeps, JobRunsKeeps, JobStatusKeeps DEF RunnerNext

(* A step that JobStatus does not take leaves the reports alone, and JobStatus *)
(* finds an ended job as it was reported.                                  *)
LEMMA ReportStays ==
    ASSUME JobInv, RunnerNext \/ UNCHANGED runnerVars,
           NEW c \in JobCall, reports[c] # Nothing, reports[c].state \in Final
    PROVE  reports'[c] = reports[c]
<1>1. CASE \E d \in JobCall, meta \in BOOLEAN : JobStatus(d, meta)
  <2>1. PICK d \in JobCall, meta \in BOOLEAN : JobStatus(d, meta)
    BY <1>1
  <2>2. reports' = [reports EXCEPT ![d] =
            [run |-> runs[d].run, state |-> azureJobState(jobs[Place(d)].phase)]]
    BY <2>1, StatusIsOfJob
  <2>3. reports \in [JobCall -> Report \cup {Nothing}]
    BY JobTypes DEF JobInv
  <2>4. /\ reports[c] \in Report /\ reports[c].run = runs[c].run
        /\ reports[c].state = azureJobState(jobs[Place(c)].phase)
    BY <2>3 DEF JobInv, ReportsTrue
  <2>5. reports[c] = [run |-> runs[c].run, state |-> azureJobState(jobs[Place(c)].phase)]
    BY <2>4 DEF Report
  <2> QED
    BY <2>2, <2>3, <2>5
<1>2. CASE ~ \E d \in JobCall, meta \in BOOLEAN : JobStatus(d, meta)
  <2>1. UNCHANGED reports
    BY <1>2 DEF RunnerNext, RunJob, JobStarted, JobRefused, JobRuns, Initialize, runnerVars
  <2> QED
    BY <2>1
<1> QED
  BY <1>1, <1>2

(* Deployments and listings do not touch jobs.                              *)
LEMMA StepOfJobs == [Next]_vars => RunnerNext \/ UNCHANGED runnerVars
  BY DEF Next, Deploying, Listing, Running, vars, runnerVars

(* The inductive invariant of the job runner.                               *)
THEOREM JobsInv == Spec => []JobInv
<1>1. Init => JobInv
  BY JobInit DEF Init
<1>2. JobInv /\ [Next]_vars => JobInv'
  BY JobStep, StepOfJobs
<1> QED
  BY <1>1, <1>2, PTL DEF Spec

(* A handle tells of the job its own call started, however often calls are   *)
(* repeated and the provider is initialized for another subscription or      *)
(* resource group.                                                          *)
THEOREM Handles == Spec => []HandleIsForJob
<1>1. JobInv => HandleIsForJob
  BY DEF JobInv, ReportsTrue, HandleIsForJob
<1> QED
  BY <1>1, JobsInv, PTL

(* A job reported as ended is reported the same ever after.                  *)
THEOREM Finals == Spec => FinalIsFinal
<1> DEFINE Stays == \A c \in JobCall :
                       reports[c] # Nothing /\ reports[c].state \in Final
                           => reports'[c] = reports[c]
<1>1. JobInv /\ [Next]_vars => [Stays]_runnerVars
  BY StepOfJobs, ReportStays
<1> QED
  BY <1>1, JobsInv, PTL DEF Spec, FinalIsFinal

-----------------------------------------------------------------------------
(* Listings.  What a page did not bring yet may still come; what it brought   *)
(* was so at some time of the call.                                        *)

Call == [left : SUBSET Name, filter : Owner \cup {None},
         found : SUBSET (Name \X Owner), had : [Name -> SUBSET (Owner \cup {None})]]

GroupsTyped == group \in [Name -> Group \cup {Absent}]

Sound == /\ listing \in Call
         /\ \A p \in listing.found : p[2] \in listing.had[p[1]]

Whole ==
    listing # NotListing =>
        /\ \A n \in Name : Tag(n) \in listing.had[n]
        /\ \A n \in Name \ listing.left, o \in Owner :
              listing.had[n] = {o} /\ listing.filter \in {None, o}
                  => <<n, o>> \in listing.found

Listed == OwnersListed /\ (listed = None \/ listed.found \subseteq Name \X Owner)

ListInv == IF service = "owners" THEN GroupsTyped /\ Sound /\ Whole /\ Listed
                                 ELSE listing = NotListing /\ listed = None

LEMMA TagType == ASSUME GroupsTyped, NEW n \in Name
                 PROVE  Tag(n) \in Owner \cup {None}
  BY DEF GroupsTyped, Tag, Group

(* What the host does in a behaviour stays the same.                        *)
LEMMA ServiceStays == [Next]_vars => UNCHANGED service
<1>1. Others => UNCHANGED service
  BY DEF Others, SetOwner, ApplyGroup, RemoveGroup, EditGateway
<1>2. Host => UNCHANGED service
  BY DEF Host, Begin, Stay, Update, CreateGreen, CreateCanary, HealthCheck,
         PromoteCanary, DestroyBlue, DestroyCanary, SwitchTraffic,
         SwitchWithoutGateway, EndpointMissing, RoutePercent
<1>3. Azure => UNCHANGED service
  BY DEF Azure, GetDone, LookDone, ImageDone, GetMissing, GetFailed, PutDone,
         PutFailed, DeleteDone, DeleteFailed, GetGateway, GatewayBare, PutGatewayDone,
         PutGatewayFailed
<1>4. Restart => UNCHANGED service
  BY DEF Restart
<1>5. OwnershipNext => UNCHANGED service
  BY <1>1 DEF OwnershipNext, ListOwners, NextPage, LastPage, PageFailed, Observed,
              groupVars
<1> QED
  BY <1>1, <1>2, <1>3, <1>4, <1>5 DEF Next, Deploying, Listing, Running,
     RolloutNext, groupVars, vars

LEMMA NoCall == NotListing \in Call
  BY DEF NotListing, Call

(* The groups have their types whoever writes them.                         *)
LEMMA OthersKeepTypes == ASSUME GroupsTyped, Others PROVE GroupsTyped'
<1>1. CASE SetOwner
  BY <1>1 DEF SetOwner, Alive, GroupsTyped, Group
<1>2. CASE ApplyGroup
  <2>1. PICK i \in Image, a \in Addr :
             \E cg \in Provisioned("base", [image |-> i, owner |-> None, ip |-> a,
                                            state |-> "Succeeded"], "Succeeded") :
                group' = [group EXCEPT !["base"] = cg]
    BY <1>2 DEF ApplyGroup
  <2>2. Provisioned("base", [image |-> i, owner |-> None, ip |-> a,
                             state |-> "Succeeded"], "Succeeded") \subseteq Group
    BY DEF Provisioned, Alive, GroupsTyped, Group, Name
  <2> QED
    BY <2>1, <2>2 DEF GroupsTyped
<1>3. CASE RemoveGroup
  BY <1>3 DEF RemoveGroup, GroupsTyped
<1>4. CASE EditGateway
  BY <1>4 DEF EditGateway, GroupsTyped
<1> QED
  BY <1>1, <1>2, <1>3, <1>4 DEF Others

(* A page: the groups on it that match, with the tags they have.             *)
LEMMA PageKeeps ==
    ASSUME GroupsTyped, Sound, Whole, Listed, NextPage
    PROVE  GroupsTyped' /\ Sound' /\ Whole' /\ Listed'
<1>1. PICK ns \in SUBSET listing.left :
          /\ ns # {}
          /\ listing' = [listing EXCEPT !.left = @ \ ns, !.found = @ \cup Page(ns)]
  BY DEF NextPage
<1>2. UNCHANGED <<group, listed>>
  BY DEF NextPage, groupVars
<1>3. listing \in Call /\ ns \subseteq Name /\ listing # NotListing
  BY <1>1 DEF Sound, Call, NotListing
<1>4. /\ listing'.left = listing.left \ ns /\ listing'.filter = listing.filter
      /\ listing'.found = listing.found \cup Page(ns) /\ listing'.had = listing.had
  BY <1>1, <1>3 DEF Call
<1>5. Page(ns) \subseteq Name \X Owner
  BY <1>3, TagType DEF Page, Matches
<1>6. listing' \in Call
  BY <1>1, <1>3, <1>5 DEF Call
<1>7. \A p \in Page(ns) : p[2] \in listing.had[p[1]]
  BY <1>3 DEF Page, Whole
<1>8. Sound'
  BY <1>4, <1>6, <1>7 DEF Sound
<1>9. \A n \in ns, o \in Owner :
         listing.had[n] = {o} /\ listing.filter \in {None, o} => <<n, o>> \in Page(ns)
  <2> SUFFICES ASSUME NEW n \in ns, NEW o \in Owner, listing.had[n] = {o},
                      listing.filter \in {None, o}
               PROVE  <<n, o>> \in Page(ns)
    OBVIOUS
  <2>1. Tag(n) = o
    BY <1>3 DEF Whole
  <2>2. o # None
    BY ContainerGroupsAssumption
  <2> QED
    BY <2>1, <2>2 DEF Page, Matches
<1>10. Whole'
  <2>1. \A n \in Name : Tag(n)' = Tag(n)
    BY <1>2 DEF Tag
  <2>2. \A n \in Name : Tag(n)' \in listing'.had[n]
    BY <1>3, <1>4, <2>1 DEF Whole
  <2>3. \A n \in Name \ listing'.left, o \in Owner :
           listing'.had[n] = {o} /\ listing'.filter \in {None, o}
               => <<n, o>> \in listing'.found
    BY <1>3, <1>4, <1>9 DEF Whole
  <2> QED
    BY <2>2, <2>3 DEF Whole
<1> QED
  BY <1>2, <1>8, <1>10 DEF GroupsTyped, Listed, OwnersListed

(* Somebody else's step: the tag it leaves is one the group had meanwhile.    *)
LEMMA ObservedKeeps ==
    ASSUME GroupsTyped, Sound, Whole, Listed, Observed
    PROVE  GroupsTyped' /\ Sound' /\ Whole' /\ Listed'
<1>1. GroupsTyped' /\ UNCHANGED listed
  BY OthersKeepTypes DEF Observed
<1>2. CASE listing = NotListing
  <2>1. listing' = listing
    BY <1>2 DEF Observed
  <2> QED
    BY <1>1, <1>2, <2>1 DEF Sound, Whole, Listed, OwnersListed
<1>3. CASE listing # NotListing
  <2> DEFINE now(n) == IF group'[n] = Absent THEN None ELSE group'[n].owner
             had == [n \in Name |-> listing.had[n] \cup {now(n)}]
  <2>1. listing' = [listing EXCEPT !.had = had]
    BY <1>3 DEF Observed
  <2>2. \A n \in Name : now(n) \in Owner \cup {None}
    BY <1>1 DEF GroupsTyped, Group
  <2>3. \A n \in Name : Tag(n)' = now(n)
    BY DEF Tag
  <2> HIDE DEF now
  <2>4. had \in [Name -> SUBSET (Owner \cup {None})]
    BY <2>2 DEF Sound, Call
  <2>5. /\ listing' \in Call /\ listing'.had = had
        /\ UNCHANGED <<listing.left, listing.filter, listing.found>>
    BY <2>1, <2>4 DEF Sound, Call
  <2>6. \A n \in Name : listing.had[n] \subseteq had[n] /\ now(n) \in had[n]
    OBVIOUS
  <2>7. Sound'
    <3> SUFFICES ASSUME NEW p \in listing.found PROVE p[2] \in had[p[1]]
      BY <2>5 DEF Sound
    <3>1. p \in Name \X Owner /\ p[2] \in listing.had[p[1]]
      BY DEF Sound, Call
    <3> QED
      BY <2>6, <3>1
  <2>8. \A n \in Name, o \in Owner : had[n] = {o} => listing.had[n] = {o}
    <3> SUFFICES ASSUME NEW n \in Name, NEW o \in Owner, had[n] = {o}
                 PROVE  listing.had[n] = {o}
      OBVIOUS
    <3>1. Tag(n) \in listing.had[n] /\ listing.had[n] \subseteq {o}
      BY <1>3, <2>6 DEF Whole
    <3> QED
      BY <3>1
  <2>9. Whole'
    <3>1. \A n \in Name : Tag(n)' \in listing'.had[n]
      BY <2>3, <2>5, <2>6
    <3>2. \A n \in Name \ listing'.left, o \in Owner :
             listing'.had[n] = {o} /\ listing'.filter \in {None, o}
                 => <<n, o>> \in listing'.found
      BY <1>3, <2>5, <2>8 DEF Whole
    <3> QED
      BY <3>1, <3>2 DEF Whole
  <2> QED
    BY <1>1, <2>7, <2>9 DEF Listed, OwnersListed
<1> QED
  BY <1>2, <1>3

LEMMA ListingStep ==
    ASSUME ListInv, [Next]_vars
    PROVE  ListInv'
<1>1. CASE service # "owners"
  <2>1. UNCHANGED <<listing, listed>>
    BY <1>1 DEF Next, Deploying, Listing, Running, ownershipVars, vars
  <2>2. service' = service
    BY <1>1, ServiceStays
  <2> QED
    BY <1>1, <2>1, <2>2 DEF ListInv
<1>2. CASE service = "owners"
  <2>1. OwnershipNext \/ UNCHANGED <<groupVars, ownershipVars>>
    BY <1>2 DEF Next, Deploying, Listing, Running, vars, Strategy
  <2>2. GroupsTyped /\ Sound /\ Whole /\ Listed /\ service' = service
    BY <1>2, ServiceStays DEF ListInv
  <2>3. CASE UNCHANGED <<groupVars, ownershipVars>>
    BY <2>2, <2>3 DEF groupVars, ownershipVars, GroupsTyped, Sound, Whole, Listed,
                      OwnersListed, Tag, ListInv
  <2>4. CASE ListOwners
    <3>1. PICK o \in Owner \cup {None} :
              listing' = [left |-> Name, filter |-> o, found |-> {},
                          had |-> [n \in Name |-> {Tag(n)}]]
      BY <2>4 DEF ListOwners
    <3>2. UNCHANGED <<group, listed>>
      BY <2>4 DEF ListOwners, groupVars
    <3>3. Sound'
      BY <2>2, <3>1, TagType DEF Sound, Call
    <3>4. Whole'
      BY <3>1, <3>2 DEF Whole, Tag
    <3> QED
      BY <1>2, <2>2, <3>2, <3>3, <3>4 DEF GroupsTyped, Listed, OwnersListed, ListInv
  <2>5. CASE NextPage
    BY <1>2, <2>2, <2>5, PageKeeps DEF ListInv
  <2>6. CASE LastPage
    <3>1. listing' = NotListing /\ listed' = Answer /\ UNCHANGED group
      BY <2>6 DEF LastPage, groupVars
    <3>2. listing # NotListing /\ listing.left = {}
      BY <2>6 DEF LastPage
    <3>3. Listed'
      BY <2>2, <3>1, <3>2 DEF Listed, OwnersListed, Answer, Sound, Whole, Call
    <3>4. Sound' /\ Whole'
      BY <3>1, NoCall DEF Sound, Whole, NotListing
    <3> QED
      BY <1>2, <2>2, <3>1, <3>3, <3>4 DEF GroupsTyped, ListInv
  <2>7. CASE PageFailed
    <3>1. listing' = NotListing /\ UNCHANGED <<group, listed>>
      BY <2>7 DEF PageFailed
    <3>2. Sound' /\ Whole'
      BY <3>1, NoCall DEF Sound, Whole, NotListing
    <3> QED
      BY <1>2, <2>2, <3>1, <3>2 DEF GroupsTyped, Listed, OwnersListed, ListInv
  <2>8. CASE Observed
    BY <1>2, <2>2, <2>8, ObservedKeeps DEF ListInv
  <2> QED
    BY <2>1, <2>3, <2>4, <2>5, <2>6, <2>7, <2>8 DEF OwnershipNext
<1> QED
  BY <1>1, <1>2

LEMMA ListInit == Init => ListInv
<1> SUFFICES ASSUME Init PROVE ListInv
  OBVIOUS
<1>1. listing = NotListing /\ listed = None
  BY DEF Init, OwnershipInit
<1>2. GroupsTyped
  <2>1. PICK o \in FirstOwner, side \in Beside :
            group = [n \in Name |-> IF n = "base" THEN At(o, Home) ELSE side]
    BY DEF Init, GroupsInit
  <2>2. At(o, Home) \in Group /\ side \in Group \cup {Absent}
    BY ContainerGroupsAssumption DEF Beside, At, Group
  <2> QED
    BY <2>1, <2>2 DEF GroupsTyped
<1>3. Sound /\ Whole
  BY <1>1, NoCall DEF Sound, Whole, NotListing
<1> QED
  BY <1>1, <1>2, <1>3 DEF ListInv, Listed, OwnersListed

(* No listing that ListOwners answers is short of a group whose owner did     *)
(* not change during the call, or tells of an owner nobody had.             *)
THEOREM Owners == Spec => []OwnersListed
<1>1. ListInv /\ [Next]_vars => ListInv'
  BY ListingStep
<1>2. ListInv => OwnersListed
  BY DEF ListInv, Listed, OwnersListed
<1> QED
  BY <1>1, <1>2, ListInit, PTL DEF Spec

=============================================================================
