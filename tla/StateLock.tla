----------------------------- MODULE StateLock -----------------------------
(***************************************************************************)
(* The locking half of the iac.state backend: the Configure, Lock and      *)
(* Unlock RPCs (internal/statebackend_server.go) on the store they share   *)
(* (internal/statebackend/azure_blob.go), several plugin processes at a    *)
(* time, over the leases of Azure blob storage.                            *)
(*                                                                         *)
(* A store keeps a table leaseIDs[resource] = lease id, guarded by a mutex *)
(* that is held across the whole Azure call. Nothing is persisted, so the  *)
(* table dies with the process, and Configure replaces the store by a new, *)
(* empty one while calls may still be at work on the old one.              *)
(***************************************************************************)
EXTENDS FiniteSets, Naturals

CONSTANTS Proc,        \* plugin processes
          Call,        \* RPC handler goroutines
          ProcOf,      \* ProcOf[c]: the process that serves call c
          ResourceID,  \* resource ids named by the host
          Blob,        \* lock blobs
          LockBlob,    \* LockBlob[r]: sanitizeID maps several ids to one blob
          Store,       \* store objects
          LeaseID,     \* lease ids (uuids drawn by the SDK's lease client)
          MaxStray,    \* bound: requests still travelling after their caller gave up
          NoStore, NoCall, NoLease, NoResource,
          Nobody, Gone \* values of holder besides <<store, resource id>>

ASSUME StateLockAssumption ==
    /\ ProcOf \in [Call -> Proc]
    /\ LockBlob \in [ResourceID -> Blob]
    /\ MaxStray \in Nat
    /\ NoStore \notin Store
    /\ NoCall \notin Call
    /\ NoLease \notin LeaseID
    /\ NoResource \notin ResourceID
    /\ Nobody \notin Store \X ResourceID
    /\ Gone \notin Store \X ResourceID
    /\ Nobody # Gone

VARIABLES store,     \* store[p]: stateBackend.store of process p
          mu,        \* mu[s]: the call that holds the mutex of store s
          leaseIDs,  \* leaseIDs[s][r]: the table of store s
          rpc,       \* rpc[c]: where the handler c is, and its local variables
          blob,      \* Azure: existence and lease of every lock blob
          stray,     \* requests whose caller returned before they took effect
          holder     \* auxiliary: who was told that the current lease is its own

vars == <<store, mu, leaseIDs, rpc, blob, stray, holder>>

-----------------------------------------------------------------------------
(* State *)

IdleRPC == [pc |-> "idle", store |-> NoStore, rid |-> NoResource, id |-> NoLease]

(* Waiting for the mutex, in an Azure request, or with its answer in hand. *)
Waiting   == {"lock", "unlock"}
Acquiring == {"acquire", "create", "reacquire"}
Working   == Acquiring \union {"record", "release", "forget"}

BlobState == [exists : BOOLEAN, lease : LeaseID \union {NoLease}, live : BOOLEAN]
AbsentBlob == [exists |-> FALSE, lease |-> NoLease, live |-> FALSE]
FreeBlob   == [exists |-> TRUE, lease |-> NoLease, live |-> FALSE]
LeasedBlob(id) == [exists |-> TRUE, lease |-> id, live |-> TRUE]

Request == [kind : Acquiring \union {"release"}, blob : Blob, id : LeaseID]
RequestOf(c) == [kind |-> rpc[c].pc, blob |-> LockBlob[rpc[c].rid], id |-> rpc[c].id]
InAzure(c) == rpc[c].pc \in Acquiring \union {"release"}

(* Every id that something still refers to; a new uuid is none of these.   *)
UsedIDs == {leaseIDs[s][r] : s \in Store, r \in ResourceID}
             \union {rpc[c].id : c \in Call}
             \union {blob[k].lease : k \in Blob}
             \union {q.id : q \in stray}
FixedLeaseID == CHOOSE id \in LeaseID : TRUE   \* fault: one id for every Lock
NewLeaseID == CHOOSE id \in LeaseID : id \notin UsedIDs

(* Store objects nothing points to; the next one built is one of these.    *)
Garbage == {s \in Store : /\ \A p \in Proc : store[p] # s
                          /\ \A c \in Call : rpc[c].store # s}
NewStore == CHOOSE s \in Store : s \in Garbage

Init == /\ store = [p \in Proc |-> NoStore]
        /\ mu = [s \in Store |-> NoCall]
        /\ leaseIDs = [s \in Store |-> [r \in ResourceID |-> NoLease]]
        /\ rpc = [c \in Call |-> IdleRPC]
        /\ blob = [k \in Blob |-> AbsentBlob]
        /\ stray = {}
        /\ holder = [k \in Blob |-> Nobody]

-----------------------------------------------------------------------------
(* The server: Configure and the entry of Lock and Unlock *)

(* A valid Configure builds a store with an empty table and swaps it in;   *)
(* whoever was told of a lease by the recycled store object is forgotten.  *)
Configure(p) == LET s == NewStore IN
    /\ Garbage # {}
    /\ store' = [store EXCEPT ![p] = s]
    /\ mu' = [mu EXCEPT ![s] = NoCall]
    /\ leaseIDs' = [leaseIDs EXCEPT ![s] = [r \in ResourceID |-> NoLease]]
    /\ holder' = [k \in Blob |-> IF holder[k] \in {s} \X ResourceID
                                 THEN Gone ELSE holder[k]]
    /\ UNCHANGED <<rpc, blob, stray>>

(* resolveStore reads the store pointer under the server's mutex and the   *)
(* handler keeps it for the rest of the call. Without a store the RPC is   *)
(* answered FailedPrecondition at once.                                    *)
Begin(c, r, op) ==
    /\ rpc[c].pc = "idle"
    /\ store[ProcOf[c]] # NoStore
    /\ rpc' = [rpc EXCEPT ![c] = [pc |-> op, store |-> store[ProcOf[c]],
                                   rid |-> r, id |-> NoLease]]
    /\ UNCHANGED <<store, mu, leaseIDs, blob, stray, holder>>

CallLock(c, r) == Begin(c, r, "lock")
CallUnlock(c, r) == Begin(c, r, "unlock")

-----------------------------------------------------------------------------
(* Steps of a call. Return ends the handler: defer s.mu.Unlock().          *)

Return(c) == /\ rpc' = [rpc EXCEPT ![c] = IdleRPC]
             /\ mu' = [mu EXCEPT ![rpc[c].store] = NoCall]

Goto(c, pc) == rpc' = [rpc EXCEPT ![c].pc = pc]

StartRequest(c, pc, id) == rpc' = [rpc EXCEPT ![c] = 
                           [pc |-> pc, store |-> @.store, rid |-> @.rid, id |-> id]]

(* Lock: s.mu.Lock(), then the SDK's lease client draws the proposed id.   *)
EnterLock(c) ==
    /\ rpc[c].pc = "lock"
    /\ mu[rpc[c].store] = NoCall
    /\ mu' = [mu EXCEPT ![rpc[c].store] = c]
    /\ LeaseID \ UsedIDs # {}
    /\ StartRequest(c, "acquire", NewLeaseID)
    /\ UNCHANGED <<store, leaseIDs, blob, stray, holder>>

(* Faults of Unlock: it does not lock the mutex, or does not look whether  *)
(* there is an entry.                                                      *)
EnterUnlockNoMutex(c) ==
    LET id == leaseIDs[rpc[c].store][rpc[c].rid]
    IN /\ rpc[c].pc = "unlock"
       /\ IF id = NoLease THEN rpc' = [rpc EXCEPT ![c] = IdleRPC]
                          ELSE StartRequest(c, "release", id)
       /\ UNCHANGED <<store, mu, leaseIDs, blob, stray, holder>>
EnterUnlockUnchecked(c) ==
    /\ rpc[c].pc = "unlock"
    /\ mu[rpc[c].store] = NoCall
    /\ mu' = [mu EXCEPT ![rpc[c].store] = c]
    /\ StartRequest(c, "release", leaseIDs[rpc[c].store][rpc[c].rid])
    /\ UNCHANGED <<store, leaseIDs, blob, stray, holder>>

(* Unlock: without an entry the answer is "not locked". *)
EnterUnlock(c) ==
    LET s  == rpc[c].store
        id == leaseIDs[s][rpc[c].rid]
    IN /\ rpc[c].pc = "unlock"
       /\ mu[s] = NoCall
       /\ \/ /\ id = NoLease
             /\ rpc' = [rpc EXCEPT ![c] = IdleRPC]
             /\ UNCHANGED mu
          \/ /\ id # NoLease
             /\ mu' = [mu EXCEPT ![s] = c]
             /\ StartRequest(c, "release", id)
       /\ UNCHANGED <<store, leaseIDs, blob, stray, holder>>

-----------------------------------------------------------------------------
(* Azure: what a request needs and does. A lease may be acquired again     *)
(* with its own id; writing a blob whose lease has lapsed drops the lease; *)
(* a lapsed lease may still be released while nothing has replaced it.     *)

CanAcquire(k, id) == blob[k].exists /\ (blob[k].live => blob[k].lease = id)
CanPut(k)         == ~blob[k].live
BreakLease(k, id) == blob[k].lease # NoLease   \* fault: BreakLease for ReleaseLease
CanRelease(k, id) == blob[k].lease = id

LeaseTo(k, id) == /\ blob' = [blob EXCEPT ![k] = LeasedBlob(id)]
                  /\ holder' = [holder EXCEPT ![k] = Nobody]
Vacate(k) == /\ blob' = [blob EXCEPT ![k] = FreeBlob]
             /\ holder' = [holder EXCEPT ![k] = Nobody]

(* The 60 seconds of a lease are over; it is never renewed. *)
Lapse(k) == /\ blob[k].live
            /\ blob' = [blob EXCEPT ![k].live = FALSE]
            /\ UNCHANGED <<store, mu, leaseIDs, rpc, stray, holder>>

(* A request whose caller has returned reaches Azure late, or never. *)
Deliver(q) ==
    /\ stray' = stray \ {q}
    /\ \/ /\ q.kind \in {"acquire", "reacquire"} /\ CanAcquire(q.blob, q.id)
          /\ LeaseTo(q.blob, q.id)
       \/ /\ q.kind = "create" /\ CanPut(q.blob)
          /\ Vacate(q.blob)
       \/ /\ q.kind = "release" /\ CanRelease(q.blob, q.id)
          /\ Vacate(q.blob)
       \/ UNCHANGED <<blob, holder>>
    /\ UNCHANGED <<store, mu, leaseIDs, rpc>>

-----------------------------------------------------------------------------
(* Lock. "resent": the reply is lost and the SDK repeats the request.      *)

Acquire(c, resent) ==
    LET k == LockBlob[rpc[c].rid] IN
    /\ rpc[c].pc \in {"acquire", "reacquire"}
    /\ CanAcquire(k, rpc[c].id)
    /\ LeaseTo(k, rpc[c].id)
    /\ IF resent THEN UNCHANGED rpc ELSE Goto(c, "record")
    /\ UNCHANGED <<store, mu, leaseIDs, stray>>

(* Fault: an early return that skips s.mu.Unlock(). *)
AlreadyLockedNoUnlock(c) ==
    LET k == LockBlob[rpc[c].rid] IN
    /\ rpc[c].pc \in {"acquire", "reacquire"}
    /\ blob[k].live /\ blob[k].lease # rpc[c].id
    /\ rpc' = [rpc EXCEPT ![c] = IdleRPC]
    /\ UNCHANGED <<store, mu, leaseIDs, blob, stray, holder>>

(* isAzureLeaseHeld: "resource is already locked". *)
AlreadyLocked(c) ==
    LET k == LockBlob[rpc[c].rid] IN
    /\ rpc[c].pc \in {"acquire", "reacquire"}
    /\ blob[k].live /\ blob[k].lease # rpc[c].id
    /\ Return(c)
    /\ UNCHANGED <<store, leaseIDs, blob, stray, holder>>

(* BlobNotFound: the lock blob must be created first. *)
NotFound(c) ==
    /\ rpc[c].pc = "acquire"
    /\ ~blob[LockBlob[rpc[c].rid]].exists
    /\ Goto(c, "create")
    /\ UNCHANGED <<store, mu, leaseIDs, blob, stray, holder>>

(* The empty placeholder is written, by which time another process may     *)
(* have created the blob; when that one also holds a lease on it the write *)
(* is refused and Lock fails with "create lock blob".                      *)
CreatePlaceholder(c, resent) ==
    LET k == LockBlob[rpc[c].rid] IN
    /\ rpc[c].pc = "create"
    /\ \/ /\ CanPut(k)
          /\ Vacate(k)
          /\ IF resent THEN UNCHANGED rpc ELSE Goto(c, "reacquire")
          /\ UNCHANGED mu
       \/ /\ ~CanPut(k) /\ ~resent
          /\ Return(c)
          /\ UNCHANGED <<blob, holder>>
    /\ UNCHANGED <<store, leaseIDs, stray>>

(* s.leaseIDs[resourceID] = leaseID, and the host is told it has the lock. *)
Record(c) ==
    LET s == rpc[c].store
        r == rpc[c].rid
        k == LockBlob[r]
    IN /\ rpc[c].pc = "record"
       /\ leaseIDs' = [leaseIDs EXCEPT ![s][r] = rpc[c].id]
       /\ holder' = IF blob[k].lease = rpc[c].id
                    THEN [holder EXCEPT ![k] = <<s, r>>] ELSE holder
       /\ Return(c)
       /\ UNCHANGED <<store, blob, stray>>

-----------------------------------------------------------------------------
(* Unlock *)

(* When the id no longer matches the entry stays in the table. *)
Release(c, resent) ==
    LET k == LockBlob[rpc[c].rid] IN
    /\ rpc[c].pc = "release"
    /\ \/ /\ CanRelease(k, rpc[c].id)
          /\ Vacate(k)
          /\ IF resent THEN UNCHANGED rpc ELSE Goto(c, "forget")
          /\ UNCHANGED mu
       \/ /\ ~CanRelease(k, rpc[c].id) /\ ~resent
          /\ Return(c)
          /\ UNCHANGED <<blob, holder>>
    /\ UNCHANGED <<store, leaseIDs, stray>>

(* delete(s.leaseIDs, resourceID) *)
Forget(c) ==
    /\ rpc[c].pc = "forget"
    /\ leaseIDs' = [leaseIDs EXCEPT ![rpc[c].store][rpc[c].rid] = NoLease]
    /\ Return(c)
    /\ UNCHANGED <<store, blob, stray, holder>>

-----------------------------------------------------------------------------
(* Failures *)

(* A request fails (throttled, refused, no network) or the context of the  *)
(* call ends; the request may still be on its way.                         *)
Fail(c) ==
    /\ InAzure(c)
    /\ Return(c)
    /\ \/ UNCHANGED stray
       \/ /\ stray' = stray \union {RequestOf(c)}
          /\ Cardinality(stray') <= MaxStray
    /\ UNCHANGED <<store, leaseIDs, blob, holder>>

(* The plugin process dies with its store and its handlers. *)
Crash(p) ==
    LET mine == {c \in Call : ProcOf[c] = p} IN
    /\ store[p] # NoStore
    /\ store' = [store EXCEPT ![p] = NoStore]
    /\ rpc' = [c \in Call |-> IF c \in mine THEN IdleRPC ELSE rpc[c]]
    /\ mu' = [s \in Store |-> IF mu[s] \in mine THEN NoCall ELSE mu[s]]
    /\ \E Q \in SUBSET {RequestOf(c) : c \in {d \in mine : InAzure(d)}} :
         /\ stray' = stray \union Q
         /\ Cardinality(stray') <= MaxStray
    /\ UNCHANGED <<leaseIDs, blob, holder>>

-----------------------------------------------------------------------------

(* What the handler of c does next. *)
Enter(c) == EnterLock(c) \/ EnterUnlock(c)
Answered(c) == \/ Acquire(c, FALSE) \/ AlreadyLocked(c) \/ NotFound(c)
               \/ CreatePlaceholder(c, FALSE) \/ Release(c, FALSE)
               \/ Record(c) \/ Forget(c) \/ Fail(c)
Resent(c) == Acquire(c, TRUE) \/ CreatePlaceholder(c, TRUE) \/ Release(c, TRUE)

Next == \/ \E p \in Proc : Configure(p) \/ Crash(p)
        \/ \E c \in Call : \/ \E r \in ResourceID : CallLock(c, r) \/ CallUnlock(c, r)
                           \/ Enter(c) \/ Answered(c) \/ Resent(c)
        \/ \E k \in Blob : Lapse(k)
        \/ \E q \in stray : Deliver(q)

Spec == Init /\ [][Next]_vars

(* Go's mutex hands itself to a waiter that has starved for a millisecond  *)
(* (strong fairness), and an SDK request ends by an answer or, when its    *)
(* retries or its context run out, by an error (weak fairness).            *)
Fairness == \A c \in Call : SF_vars(Enter(c)) /\ WF_vars(Answered(c))

FairSpec == Spec /\ Fairness

-----------------------------------------------------------------------------
(* Properties *)

RPCType ==
    /\ rpc \in [Call -> [pc : {"idle"} \union Waiting \union Working,
                          store : Store \union {NoStore},
                          rid : ResourceID \union {NoResource},
                          id : LeaseID \union {NoLease}]]
    /\ \A c \in Call : /\ rpc[c].pc # "idle" => /\ rpc[c].store \in Store
                                                /\ rpc[c].rid \in ResourceID
                       /\ rpc[c].pc \in Working => rpc[c].id \in LeaseID

(* The values of the variables; a handler at work has a store, a resource  *)
(* id and, from its first request on, a lease id.                          *)
TypeOK ==
    /\ store \in [Proc -> Store \union {NoStore}]
    /\ mu \in [Store -> Call \union {NoCall}]
    /\ leaseIDs \in [Store -> [ResourceID -> LeaseID \union {NoLease}]]
    /\ RPCType
    /\ blob \in [Blob -> BlobState]
    /\ stray \subseteq Request
    /\ holder \in [Blob -> (Store \X ResourceID) \union {Nobody, Gone}]

(* Some store's caller was told that it has the current lease on k.        *)
Told(k) == holder[k] \in Store \X ResourceID

(* The table of s says it has the lease on r, and the lease is running.    *)
Holds(s, r) == /\ blob[LockBlob[r]].live
               /\ leaseIDs[s][r] = blob[LockBlob[r]].lease

(* Lock is exclusive for as long as the lease runs: across processes,      *)
(* stores replaced by Configure, and ids that sanitizeID maps to one blob, *)
(* at most one table entry is backed by the live lease of a lock blob.     *)
MutualExclusion ==
    \A s1, s2 \in Store, r1, r2 \in ResourceID :
        /\ LockBlob[r1] = LockBlob[r2]
        /\ Holds(s1, r1)
        /\ Holds(s2, r2)
        => s1 = s2 /\ r1 = r2

(* Whoever was told that it has the current lease can give it back: its    *)
(* store has the very id that is on the blob. Interleaved Lock and Unlock  *)
(* calls, lost replies and failed releases never lose the id of a lease    *)
(* that was granted.                                                       *)
HolderHasID ==
    \A k \in Blob : Told(k) =>
        /\ LockBlob[holder[k][2]] = k
        /\ blob[k].lease # NoLease
        /\ leaseIDs[holder[k][1]][holder[k][2]] = blob[k].lease

(* A running lease that somebody was told of is ended early only by an     *)
(* Unlock of that resource on that store, at work or given up earlier.     *)
OnlyHolderReleases ==
    [][\A k \in Blob : Told(k) /\ blob[k].live
                          /\ blob'[k].lease # blob[k].lease =>
         \/ \E c \in Call : /\ rpc[c].pc = "release"
                             /\ holder[k] = <<rpc[c].store, rpc[c].rid>>
                             /\ mu[rpc[c].store] = c
         \/ \E q \in stray : /\ q.kind = "release"
                             /\ q.blob = k
                             /\ q.id = leaseIDs[holder[k][1]][holder[k][2]]
      ]_vars

(* What makes the two invariants inductive: the mutex is held from entry   *)
(* to return, the id of a Lock at work is known to nobody else, an id      *)
(* enters one table once, an Unlock at work has its entry, and nobody is   *)
(* told of a lease while the same store is at work on that resource.       *)
Proposing(c) == rpc[c].pc \in Acquiring \union {"record"}

MutexHeld == \A c \in Call : rpc[c].pc \in Working => mu[rpc[c].store] = c

ProposalFresh ==
    \A c \in Call : Proposing(c) =>
        /\ \A s \in Store, r \in ResourceID : leaseIDs[s][r] # rpc[c].id
        /\ \A d \in Call : d # c => rpc[d].id # rpc[c].id
        /\ \A q \in stray : q.id # rpc[c].id

StrayFresh ==
    \A q \in stray : q.kind \in Acquiring =>
        \A s \in Store, r \in ResourceID : leaseIDs[s][r] # q.id

EntriesUnique ==
    \A s1, s2 \in Store, r1, r2 \in ResourceID :
        leaseIDs[s1][r1] = leaseIDs[s2][r2] /\ leaseIDs[s1][r1] # NoLease
            => s1 = s2 /\ r1 = r2

ReleasingEntry ==
    \A c \in Call : rpc[c].pc \in {"release", "forget"} =>
        leaseIDs[rpc[c].store][rpc[c].rid] = rpc[c].id

UntoldAtWork ==
    \A c \in Call : rpc[c].pc \in {"record", "forget"} =>
        \A k \in Blob : holder[k] # <<rpc[c].store, rpc[c].rid>>

UntoldProposal ==
    \A k \in Blob : holder[k] # Nobody =>
        /\ \A c \in Call : Proposing(c) => rpc[c].id # blob[k].lease
        /\ \A q \in stray : q.kind \in Acquiring => q.id # blob[k].lease

NoIDOutsideWork == \A c \in Call : rpc[c].pc \notin Working => rpc[c].id = NoLease

LiveHasLease == \A k \in Blob : blob[k].live => blob[k].lease # NoLease

LockInv == /\ MutexHeld /\ ProposalFresh /\ StrayFresh /\ EntriesUnique
           /\ ReleasingEntry /\ UntoldAtWork /\ NoIDOutsideWork /\ LiveHasLease
           /\ UntoldProposal /\ HolderHasID

(* Every Lock and Unlock RPC is answered, whatever fails: no path leaves   *)
(* the store's mutex locked.                                               *)
EveryCallReturns == \A c \in Call : rpc[c].pc # "idle" ~> rpc[c].pc = "idle"

(* StateLock implements the lock that LeaseLock specifies. *)
Lease == INSTANCE LeaseLock WITH Lock <- Blob,
                                 Holder <- Store \X ResourceID,
                                 live <- [k \in Blob |-> blob[k].live]
ImplementsLeaseLock == Lease!Spec

=============================================================================
