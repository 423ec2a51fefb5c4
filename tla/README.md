# Verification of workflow-plugin-azure

This directory holds TLA+ models of the Azure infrastructure plugin, the TLC
runs that check them on small instances, and proofs of the main results for
every size of instance. Paths such as `internal/provider.go` are relative to the
repository's root.

## 1. The system

The plugin is a gRPC server that a workflow host starts as a child process. The
host plans and applies infrastructure and calls the plugin for everything that
touches Azure. Handlers run concurrently, one goroutine per RPC.

| Component | State | Operations | What is hard about it |
|---|---|---|---|
| State backend, locking: `internal/statebackend/azure_blob.go`, `internal/statebackend_server.go` | the store pointer of the server; per store the table `leaseIDs` under a mutex; in Azure a lease per lock blob | `Configure`, `Lock`, `Unlock` | the mutex is held over Azure requests; lost replies are re-sent; late requests; restarts; leases lapse after 60 s and are never renewed |
| State backend, records: same files | in Azure one JSON blob per resource id | `GetState`, `SaveState`, `ListStates`, `DeleteState` | listing is a page at a time and then a download per blob; no ETag; partial failures; two ids can share a blob |
| Provider: `internal/provider.go`, `internal/iacserver.go` | drivers, clients, credential, subscription, resource group under an RWMutex | `Initialize`, `Close`, `Plan`, `Destroy`, `Status`, `Import`, `DetectDrift`, `ResourceDriver`, snapshots | fields are replaced while RPCs are served; RLock is held over Azure requests; a half-failed `Initialize` |
| Resource drivers: `internal/resourcedriver_server.go`, `internal/driver/*.go` (13 of them) | none of their own; the Azure objects and the host's record of them | `Create`, `Read`, `Update`, `Delete`, `Diff`, `Scale` | several requests per call; errors before or after the effect; changes by others; what is sent, shown and compared must be one field |
| Deployment drivers: `internal/driver/deploy.go` | names and the green address, in memory; two container groups and a gateway in Azure | rolling, blue-green and canary steps | read-modify-write of groups and a gateway that others write too; a step of several requests fails half-way; restarts forget the address |
| Ownership: `internal/ownership.go` | a tag of the Azure object | `GetOwner`, `SetOwner`, `ListOwners` | whole-resource PUTs with and without tags; a listing of several pages while tags change |
| Job runner: `internal/runner.go`, `internal/runner_server.go` | a container group per job, the host's handle | `RunJob`, `JobStatus`, `JobLogs` | an answer that is lost and a call that is repeated; the provider is initialized for another group meanwhile |
| Requirement mapper: `internal/iacserver_mapper.go` | none | a pure function | five lists that must agree with each other |
| Region lister, sizing, contracts, entry point | none | conversions, tables | nothing concurrent of their own |

How they interact. The host keeps the state of every resource through the state
backend: it locks an id, reads the record, works on the resource through the
provider and its drivers, saves the record and unlocks. `Initialize` builds the
drivers and clients that all later RPCs of the provider copy under its RWMutex.
The state backend has its own configuration (`Configure`) and shares nothing
with the provider. Two hosts, each with a plugin process, meet only in Azure: in
the lock blobs, the state blobs and the resources.

What makes each part correct:

- locking: a lock is held by one session while its lease runs; whoever holds it
  can give it back; nobody else ends it; every call is answered;
- records: "not found" is true, a listing is complete, a read is of the right id;
- sessions: no update is lost while the lease runs;
- provider: what an RPC uses belongs to one configuration; no deadlock;
- drivers: success means everything was applied; an apply settles; a delete
  deletes; drift is seen and undone; scaling changes the node count only;
- deployments: traffic never goes where nothing is; no failure deletes the only
  copy of an image; what others set survives; a rollout ends;
- ownership: a listing is complete and true;
- jobs: a handle is for one job; a final state is final and is reported;
- mapper: the collector's configuration is closed, and what is named is served.

## 2. Modules

| Module | Models | Extends / instantiates |
|---|---|---|
| `LeaseLock` | what a state lock promises, without processes, RPCs or Azure | |
| `StateLock` | `Configure`, `Lock`, `Unlock`, the SDK's lease requests, crashes | implements `LeaseLock` |
| `StateStore` | the four record operations, a step per request | |
| `StateBackend` | sessions that lock, read, write and unlock | extends `StateStore`, instantiates `LeaseLock` |
| `Provider` | the provider's fields under the RWMutex | |
| `Resource` | one resource, the host's calls, the 13 drivers, Azure | |
| `ContainerGroups` | two container groups, a gateway, and everybody else who writes them | |
| `Rollout` | the deployment drivers and a host that takes their steps | extends `ContainerGroups` |
| `Ownership` | `ListOwners`, a request per page | extends `ContainerGroups` |
| `Runner` | `RunJob`, `JobStatus`, Azure's run of a job, `Initialize` | |
| `Containers` | deployments, listings and jobs | composes `Rollout`, `Ownership`, `Runner` |
| `Mapper` | the answer of `MapRequirements`, as operators | |
| `StateLockProofs`, `StateStoreProofs`, `StateBackendProofs`, `ProviderProofs`, `ResourceProofs`, `MapperProofs` | theorems | extend the module of their name |
| `ContainersProofs`, `RolloutProofs` | theorems about jobs and listings, and about deployments | extend `Containers` |
| `MC...` | values for the runs | |

### StateLock

`store` is `stateBackend.store` of each process, `mu` and `leaseIDs` are the
fields of a store object, `rpc` is the program counter and the locals of each
handler, `blob` the existence and lease of each lock blob, `stray` the requests
whose caller has returned but which may still reach Azure. `holder` is auxiliary:
it records which table entry was told that it has the current lease.

`CallLock` and `CallUnlock` are the server's handlers up to `resolveStore`, which
reads the store pointer once; `EnterLock` and `EnterUnlock` take the mutex;
`Acquire`, `AlreadyLocked`, `NotFound`, `CreatePlaceholder`, `Record` are the
rest of `Lock` in the order of the code (acquire; on BlobNotFound write an empty
blob and acquire again; put the id in the table), `Release` and `Forget` those of
`Unlock`. A step with `resent = TRUE` takes effect while its reply is lost, so the
SDK repeats it. `Fail` is any error or the end of the context: the handler
returns, the request may become a stray. `Configure` swaps in a new store while
handlers may still use the old one. `Crash` ends a process with its table.

`LockBlob` maps resource ids to lock blobs and need not be injective: `sanitizeID`
replaces `/` and `\` by `_`. Store objects are recycled when nothing points to
them; `holder` then says `Gone`. What Azure does with a lease (a live one is exclusive, the same id may
acquire again, a lapsed one can be released by its old id until replaced) is
external to the code and is in `CanAcquire`, `CanPut`, `CanRelease`.

### StateStore

`content` is the record of each state blob, or `NoBlob`, or `Corrupt` for bytes
that do not decode. `GetState` is one download; `SaveState` one upload after the
check of the id; `DeleteState` one delete; `ListStates` a request per page
(`NextPage` takes any subset of the names not yet listed) and then one download
per name, where a failure other than the end of the context skips the blob
(`SkipFailed`) as the code does. `late` holds writes whose caller was told of an
error. `past` is auxiliary: the blobs that changed and that were missing at some
moment since the call began.
The fields that may be filtered on are one field, `status`.

### StateBackend

A session calls `Lock`, then any reads and writes, then `Unlock`, over the
`StateStore` actions and, for the lock, over the abstract `LeaseLock` that
`StateLock` is proved to implement. `owns` and `current` are
auxiliary: the sessions that were told of the lease as it now stands, and those
whose record no other session of a live lease has replaced.

### Provider

`fields` groups the provider's fields by who assigns them together: `identity`
(credential, subscription, resource group), `drivers`, `runner`, `owners`. A
value is the configuration that put it there. `writer` and `readers` are the
RWMutex, with Go's rule that an announced writer keeps new readers out.
`Initialize` assigns the identity and then builds the clients, which may fail
(`ClientsFailed`) and leaves the identity already replaced, as in the code.
`Destroy`, `Status`, `DetectDrift` and `Import` are scans: they hold RLock over
all their requests. `ResourceDriver`, the runner, the region lister and the
ownership calls copy fields under RLock and use them afterwards. `entry` is
auxiliary: the fields when RLock was granted.

### Resource

The 13 drivers have one shape, so they are a table of records that says, for
each, whether `Diff` compares a field of the configuration with the output, whether
that field is a string,
whether `Create` sends that field, whether the outputs of `Create` and `Read` show
it, whether a change forces a replacement, whether the configuration may name the
object otherwise than the resource, whether `Read` and `Delete` find that name
through the ProviderID, and whether `Create` is an idempotent PUT. Each entry was
read off the driver's own `Create`, `Read`, `Update`, `Delete` and `Diff`. `sql`
has a second request (the database), `dns` one per record set, `aks` has `Scale`,
a Get and a PUT of the whole cluster. The field of a configuration is a value, absent
(`NoValue`) or an empty string (`Empty`): `configStr` takes the last two alike, so
`Create` sends the default for both, while `Diff` is silent about the first and takes
the second for a value that no output has.

The host is outside the repository. Its actions (`CallCreate`, `CallUpdate`,
`CallDelete`, `CallRead`, `CallPlanned`, `CallDetectDrift`, `CallScale`) are what the
RPC contract allows: create what is not recorded, update or replace when `Diff`
asks for it, delete what left the specification. A failed `Read` keeps the record,
since the plugin does not tell "not found" from other errors.
Somebody else may change or remove the object (`Drift`, `Vanish`), the user may
edit the specification or retire the resource (`Edit`, `Retire`).

### ContainerGroups, Rollout

`group` has the container groups `[name]` (`"base"`) and `[name]-green` or
`[name]-canary` (`"side"`), each with its image, its owner tag, its address and
its provisioning state; `gateway` the address the traffic goes to, everything else of
the application gateway as one value, and what `SwitchTraffic` finds in it: the pool
of the configured name, other pools only (or that pool without properties), or no
properties at all. `call` is the deployment call
in progress with what it has read. `greenIP` is the field of the blue-green
driver; `todo` is the host's next step. `kept` is auxiliary: the owner and the rest of
the gateway that were last acknowledged and that no later write may have undone.

A call is a sequence of requests: `Update` a Get and a PUT (`GetDone`, `PutDone`);
`CreateGreen` and `CreateCanary` a Get of the base and a PUT of the side without its
tags; `HealthCheck` a Get (`LookDone`); `PromoteCanary` a Get of the canary
(`ImageDone`), the two requests of `Update` and a delete; `SwitchTraffic` a Get and a
PUT of the gateway, which changes the pool of the configured name if it is there and is
made, and reported as a success, if it is not; a gateway without properties is an
error (`GatewayBare`). Every request may fail before it took effect, after it, or,
for a PUT, half-way (a group in state `Failed`). The interfaces of the three
drivers are those of the host's module; the host itself is outside the repository
and is modelled by `Plan` and `Fail`: it takes the steps of its strategy in order,
calls `GreenEndpoint` before it switches, and after an error repeats the step or
starts over. `Restart` builds the driver anew, without its cached address.

Others act between any two requests: `SetOwner` (the RPC of `ownership.go`),
`ApplyGroup` (the infrastructure driver's PUT of the same group, without tags),
`RemoveGroup`, `EditGateway`.

### Ownership

`ListOwners` takes the names not yet listed in pages of any size; each page shows
the tags as they are when it is answered; two groups live from the start, in one
page or in two. `had` is auxiliary: what each group's
tag was at some time during the call.

### Runner

A call of `RunJob` reads the provider's subscription and resource group, makes a name of the job's
base and the time, PUTs the group and returns a handle; `JobRefused` is a failed
request or a lost answer, after which the host may call again. `JobRuns` is Azure's
run of the container, which starts again only under another restart policy and may
be in a state the plugin does not know.
`JobStatus` finds the group by the metadata of the handle or, for a host that kept
only the name (`meta = FALSE`), in the provider's present resource group, and always
in the provider's present subscription, which no handle names. `Initialize` replaces
subscription and resource group. The two
lengths `azureJobName` cuts a base to are not modelled, only that the time is
never cut. The two handlers' early returns for an uninitialized provider are in
`Provider`.

### Mapper

`MapRequirements` is a function of its request, so there is nothing to run:
a request that names another provider derives nothing;
`azureRejectUnsupportedRequirement` has the guards in the order of the code, and the
lists of exporters, exporters per signal, ports, variables and secrets are
written one by one, as the code writes them. Lists are sets; the YAML text, the
notes and the keys are left out.

## 3. Runs

| Run | Instance | Shows |
|---|---|---|
| `lock_one_process` | one process, two calls, one id, two stores, five lease ids | `HolderHasID`, and that every call returns, under `FairSpec` |
| `lock_two_processes` | two processes, one call each, two ids on one blob, two stores, three lease ids, one stray | `TypeOK`, the inductive `LockInv`, `MutualExclusion`, `OnlyHolderReleases`, and that `StateLock` implements `LeaseLock` |
| `store` | two calls, two ids, two blobs, two status values, one late write | `TypeOK`, `NotFoundIsTrue`, `ListComplete` |
| `store_skip` | the same store | finding: a listing omits readable records |
| `store_alias` | two ids on one blob | finding: `GetState` answers with another id's record |
| `backend` | two sessions in two processes on two ids that share their blobs | `NoLostUpdate` |
| `provider` | three calls of any kind, one configuration, scans of two resources | `TypeOK`, `AtomicSnapshot`, `OneGeneration`, `ClientsOfOneCall`, and that every RPC returns |
| `resource` | all 13 drivers, two values, an absent field and an empty one, two lists of record sets | `TypeOK`, `Applied`, `Settles`, `Gone`, `ScaleKeeps`, `Converges` |
| `containers` | the three strategies, listings and jobs; two images, two owners, three addresses; two jobs of one name, two subscriptions, two resource groups | `TypeOK`; deployments: `Served`, `DoneIsDeployed`, `PromoteKeeps`, `OthersKept`, `RolledOut`; listings: `OwnersListed`; jobs: `HandleIsForJob`, `FinalIsFinal`, `JobsReported` |
| `resource_drift` | vnet | finding: a missing resource is not drift |
| `resource_blind` | nsg, redis, lb | finding: `Diff` never sees the change |
| `resource_zone` | dns | finding: a zone under another name outlives its deletion |

### Bounds

- `MaxStray` (requests in flight after their caller returned) is 1 with two
  processes. One late acquire, create or release beside two live calls covers
  each pairing of a late request with what replaced it; more of them are covered
  by the proofs. It is 0 where liveness is checked: a stray would only use up
  lease ids.
- `LeaseID`: a `Lock` waits when all ids are in use, which the real code never
  does, so the liveness run has as many ids as can be referred to at once (two
  table entries, two calls, one blob). The safety run has three.
- Two store objects: one in use and one that a call still works on after
  `Configure`. Blobs are independent of each other but for `ListStates`, which
  has two.
- Two sessions, since a lost update needs two; two processes, since stores of one
  process are a special case of two stores.
- The provider run has three calls: a scan, a writer and one that arrives between
  them. With one configuration, `none` (before `Initialize` and after `Close`)
  and the configuration itself tell apart what a mixed snapshot would mix; the
  theorems hold for any number.
- `Resource`: `MaxFaults`, `MaxDrifts`, `MaxRemovals`, `MaxEdits` bound the failed
  requests, the changes and removals by others and the edits of one run, at one
  each; retiring the resource is free. A failed call followed by an edit and a
  deletion, or by a retry over a drifted object, is among the behaviours. The
  number of calls is not bounded.

- `Containers`: a behaviour has one service, chosen at the start, since they share
  no memory and work on different groups. Two failed requests (`MaxFaults`) are a
  step that fails and whose repetition fails, or two steps; two acts of others
  (`MaxOthers`) are a change that a deployment must keep and another beside it;
  one restart. Three addresses: two groups and one that a recreated group gets.
  The gateway is of each of the three kinds, or there is none. Two calls of `RunJob`
  are two jobs, or a job and its repetition after a lost answer; more are covered by
  the proofs. `Initialize` is not bounded. In the behaviours of a listing both groups
  live, so that owners of different groups could be mixed.

Deadlock is checked everywhere but in the `Resource` and `Containers` runs, where
the host really has nothing left to do once the resource is retired and deleted,
or the deployment is done, and the bounds are used up.

### Fairness

- `StateLock`: `SF(Enter(c))`: Go's mutex hands itself to a waiter that has
  starved for a millisecond. `WF(Answered(c))`: a request of the SDK ends in an
  answer, or, by its retry limit or its context, in an error. Re-sending is not
  fair: nobody is promised a lost reply.
- `Provider`: `WF(Serve(c))`, the RWMutex lets every waiting reader in once the
  announced writer is done, and a request ends; `SF(Announce(c))`, writers queue on
  an inner Go mutex.
- `Resource`: `WF(Azure)`, the requests of a call end; `SF` on the host's create,
  update, delete and read: the host applies again and again, has one call under
  way at a time, and is assumed to come back to each. Nothing is assumed of
  faults, drift and edits; the bounds make them stop, which is what `Converges`
  ("once they are left alone") is about.

- `Containers`: `WF` on the host's next step and on the answer to a request; `WF` on
  each container's start and end, and on `JobStatus` for each handle: the host asks
  again until the job has ended. No fairness of faults, restarts, others and
  `Initialize`, which may come at any time, for `Initialize` without end.

### What the properties exclude

- `MutualExclusion` and `NoLostUpdate` speak of leases that run. A lease lasts 60
  seconds and is never renewed, and the save is not fenced by it: a session that
  takes longer can overwrite a newer record. The model has that behaviour.
- After its own lease lapsed, a session's `Unlock` can release the lease of another
  session of the same store, since the table is keyed by the resource id.
  `OnlyHolderReleases` therefore names the table entry and not the session, and
  `NoLostUpdate` no more counts the owner of the lease that was lost. A late upload
  that undoes a newer record is not counted as an update either. These three hazards
  (`azure_blob.go:246`, `:230`, `:281`) are in the models and caught by no property.
- `NotFoundIsTrue` allows a `DeleteState` whose re-sent request finds what the first
  one deleted: the record was missing during the call.
- For a process that crashed or a store that was replaced, `MutualExclusion` says
  only that exclusion persists. The lease cannot be released before it lapses.
- `AtomicSnapshot` is about what is copied, not about its use: a driver may be used
  after `Initialize` or `Close` replaced it.
- A gateway without a pool of the configured name. `SwitchTraffic` writes it back as
  it is and reports success, and `DestroyBlue` deletes the group that has the traffic.
  `Served` and the address in `DoneIsDeployed` and `RolledOut` leave such a gateway
  out; `UnswitchedTraffic` proves what happens with one (section 4). With a gateway
  without properties a rollout never ends, and `RolledOut` leaves it out.
- A field configured as an empty string: `Settles` and `Converges` leave it out, and
  `EmptyNeverSettles` proves what happens (section 4).
- A provider that was initialized for another subscription does not find the jobs of
  the first. `JobsReported` leaves it out.
- `Served` is about a host that asks `GreenEndpoint` before `SwitchTraffic`.
  `SwitchTraffic` itself does not look: without a cached address, for instance after
  a restart, it puts an empty one in the pool and reports success. The groups have
  a public address, as Azure keeps it for a group that is PUT again.
- `OthersKept` forgets what was set between the Get and the PUT of a call, which the
  PUT undoes, and an owner once the infrastructure driver PUTs the group, which
  drops the tags.
- A rollout that starts over after its traffic was switched PUTs green again, in
  place, while it serves; a second rollout of the same driver has no blue to copy
  from. `RolledOut` and `DoneIsDeployed` are about one rollout, and about groups that
  nobody else writes meanwhile.
- A `RunJob` whose answer was lost leaves a job that runs without a handle.
- After a failed `Initialize` the subscription, resource group and location are the
  new ones beside the old clients; after `Close` the runner client and the
  credential remain. `ClientsOfOneCall` and `AtomicSnapshot` allow both.
- `ScaleKeeps` leaves out a change between the Get and the PUT, which the PUT undoes.
- `Settles`, `Gone` and `Converges` leave out the drivers and names for which the
  code falls short; these are the findings below or noted hazards.

## 4. Findings

Each is a run in which TLC finds the quoted sentence violated.

1. `store_skip`: `ListStates` (`azure_blob.go:200`) skips a blob after any download
   error but the end of its context, though the comment above it wants only
   unreadable blobs skipped and a partial listing aborted.
2. `store_alias`: `GetState` of one id returns the record of another that
   `sanitizeID` maps to the same blob name.
3. `resource_drift`: `DetectDrift` turns every failed `Read` into `Drifted: false`,
   so it does not do the existence check `iacserver.go:238` says it does.
4. `resource_blind`: `Diff` of nsg, lb and redis compares with an output their own
   `Create` and `Read` never set.
5. `resource_zone`: a DNS zone created under `zone_name` is read and deleted by the
   resource's name; Azure accepts the delete of what is not there, and the zone
   stays.

Two more disagreements are theorems, true of every instance, and not runs:

6. `UnswitchedTraffic` (`RolloutProofs`): the comment of `SwitchTraffic` says it
   "updates the App Gateway backend pool to route traffic to the green container
   group" (`deploy.go:196`). When no pool has the configured name it updates none and
   returns no error (`deploy.go:209`); once the rollout is done, the pool has the
   address of the deleted blue group.
7. `EmptyNeverSettles` (`ResourceProofs`): `configStr` (`driver.go:132`) reads an
   empty string as the default and `Diff` (`vnet.go:117` and its like) as a value, so
   that after every apply the same is asked for again; for `vnet`, `dns` and `cert`
   it is a replacement.

## 5. Proofs

Proved for every value of the constants, from the assumptions that the modules
name (`StateLockAssumption`, `StateStoreAssumption`, and so on). They say that the
null values (`None`, `Absent`, `Removed`, ...) are not among the values they stand
beside, that the mapping functions have their domains, and that the constants
which must be members are. All but one are about notation and hold of any choice of
model values; the exception is that ids which share a state blob share a lock
blob. TLC evaluates them in the runs.

- `StateLockProofs`: `TypeCorrect`, `Invariant`, `Exclusion`, `HolderCanRelease`,
  `HolderReleases`, `Refinement`. Mutual exclusion is not inductive. What makes it
  so, `LockInv`, says in its parts that a handler at work has the mutex
  (`MutexHeld`); that the id a `Lock` proposes is nowhere else (`ProposalFresh`,
  `StrayFresh`), so an id enters one table once (`EntriesUnique`) and two tables
  cannot both have the id on a blob; that an `Unlock` at work still has its entry
  (`ReleasingEntry`); and that nobody is told of a lease while the same store is
  at work on that resource (`UntoldAtWork`, `UntoldProposal`), which makes being
  told happen once. The step lemma has one case per action. Refinement maps
  `live` to the lease bits of the blobs and shows that each step is a step of
  `LeaseLock` or a stutter.
- `StateStoreProofs`: `StoreInvariant`, `TypeCorrect`, `NotFound`, `Listings`,
  `RecordsFound`. The two
  properties are about calls that have been answered, so they are not inductive:
  `StoreInv` adds what is true of a call at work. A blob that is missing now is in
  the call's `absent` (`Watched`), so whatever the next answer is, it is true; and
  each record that nobody wrote since the listing began is on a page to come, among
  the names to download, among the results, or its download failed (`Covered`).
  Writes, the late ones too, go through one lemma (`PutIsSeen`). `RecordsFound` bounds
  finding 2: by `PlaceInv` a record is only ever in the blob of its own id, so
  `GetState` answers with another id's record only where `sanitizeID` merges the two.
- `StateBackendProofs`: `NoUpdateLost`. The invariant `SessionInv` says that a
  session between requests has no request open, that an owned lease was told of
  once and to one session, and that the record of an owner is current from the
  moment it was read. It assumes that ids that share a state blob share a lock
  blob, which `sanitizeID` gives.
- `ProviderProofs`: `TypeCorrect`, `Snapshots`, `Scans`, `Clients`. `ProviderInv` adds that a
  writer inside excludes readers (`Exclusive`), that the fields are frozen under
  RLock (`Frozen`) and that a half-taken snapshot is right so far (`Partial`).
- `ResourceProofs`: `LifeInvariant`, `ResourceTypeCorrect`, `CreateApplies`, `DiffSettles`,
  `EmptyNeverSettles`, `DeleteRemoves`, `ScaleChangesNothingElse`, `DiffSees`,
  `DiffIsBlind`, `DestroyRemoves`. The properties speak
  of the moment after a call. `LifeInv` adds what holds during it: the first request
  took effect and the parts sent so far are there (`PartsInv`), what `Scale` is about to
  put back is what is there (`ScaleInv`), `fresh` does not outlive the start of
  the next write, and after a Delete nothing is under way (`CallInv`). It holds of all
  13 drivers by one argument over the table. `OutputInv` says which drivers
  ever record an output: from it, `DiffIsBlind` shows that finding 4 is no accident of
  a run but holds of every behaviour of nsg, lb and redis, `DiffSees` that
  the quoted sentence is true of the drivers that send, show and compare the field, and
  `EmptyNeverSettles` that for the same drivers an empty string is never settled.
  `NamesInv` says which drivers let a configuration name something else than the
  resource: from it, `DestroyRemoves` shows that finding 5 is of dns alone.
- `ContainersProofs`: `JobsInv`, `Handles`, `Finals`, `Owners`. A report carries the
  run of the group that was found, so that it is of the right job needs more than
  the name: `JobInv` says that the time in a name is later than that of any
  earlier call (`RunsApart`), that a group is the job of the time in its name and
  never restarts (`JobsNamed`), that it is in no other subscription or resource group
  (`JobsPlaced`), and that a final report is what the job still is (`ReportsTrue`).
  For listings, `ListInv` says that every tag seen or found was one the group had
  during the call (`Sound`), and that the pages read so far have all groups that
  kept a wanted owner (`Whole`).
- `RolloutProofs`: `DeployInvariant`, `TrafficServed`, `UnswitchedTraffic`, `OwnersAndGatewayKept`,
  `PromotionKeepsImage`, `DoneDeployments`, and `ContainersTypeCorrect`, which joins it with
  the two invariants of `ContainersProofs`. Two requests of one call are far apart, so
  `DeployInv` carries what was read from one to the other: the call is a request of
  the step to do, with what it read (`StageInv`); what is about to be written back has
  the owner and the gateway that must survive (`KeptInv`); the image of a promotion is
  the canary's, then the one to write, then the stable group's (`PromoteInv`); the
  cached address is green's, and the pool of a gateway that has the configured one has
  it before blue goes (`GreenInv`), without which `Served` is lost at the delete; of
  another gateway `StrandInv` says that its addresses stay blue's, whence
  `UnswitchedTraffic`. `DoneInv`, on top of it, says per strategy what
  is deployed after which step; every failure leads back to a step that claims
  less. Others' steps come between any two requests: they either make a call not
  calm, or take what they overwrite out of `kept`, or count as removal or apply.
- `MapperProofs`: `ConfigurationIsClosed` and `NamedIsServed` say what every derived
  configuration gives; `WhenNothingIsServed` exactly when it gives nothing, and
  `AcceptedInVain` and `DefaultIsOfTheUnion` exhibit requirements that the mapper
  accepts and serves with nothing, or with less than when alone. They are about requests
  that name azure or no provider. They need no
  assumption.

With these, each invariant and each action property that the passing runs check is
a theorem. The inductive invariants were checked by TLC on the instances of the runs
before they were proved.

Only model-checked: liveness (`EveryCallReturns`, `Converges`, `RolledOut`, `JobsReported`),
which needs fairness and ENABLED and is outside the prover's reach. `DoneDeployments` is
the safety half of `RolledOut`. The five findings are counterexamples, by nature of
one instance.

## 6. Not modelled

- Field-by-field conversions between JSON, protobuf and Go structs, logging and
  error texts; sizing tables; generated code; the entry point; `HealthCheck`,
  `SensitiveKeys`, `Troubleshoot`, `GetOwner`, `JobLogs` and `ReplicaCount`, which
  change nothing.
- The parsing of resource ids and the filter by resource type of `ListOwners`.
- The pages of `ListRegions` and its fallback list; how it copies the subscription
  is in `Provider`.
- What Azure does with a PUT of an immutable field or with fields it hides.

## 7. Plan

What a proof can still add: the converse of `Refinement`'s scope, that a session of `StateBackend` over
`StateLock` itself, without the abstract lock between them, loses no update; and
the safety halves of `Converges` and `JobsReported`, as `DoneDeployments` is that of
`RolledOut`. In the models: the operations that read only (`GetOwner`, `JobLogs`,
`Troubleshoot`) and a second rollout of the same driver.
