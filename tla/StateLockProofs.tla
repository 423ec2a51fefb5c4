-------------------------- MODULE StateLockProofs --------------------------
(***************************************************************************)
(* What holds of StateLock for any number of processes, calls, resource    *)
(* ids, lock blobs, stores and lease ids.                                  *)
(***************************************************************************)
EXTENDS StateLock, TLAPS

(* A drawn lease id is a lease id that nothing refers to. *)
LEMMA NewLeaseIDFresh ==
    ASSUME LeaseID \ UsedIDs # {}
    PROVE  NewLeaseID \in LeaseID /\ NewLeaseID \notin UsedIDs
  <1> PICK id \in LeaseID : id \notin UsedIDs
    OBVIOUS
  <1> QED
    BY DEF NewLeaseID

(* The store that Configure builds is referred to by nobody. *)
LEMMA NewStoreGarbage ==
    ASSUME Garbage # {}
    PROVE  NewStore \in Store /\ NewStore \in Garbage
  <1> PICK s \in Store : s \in Garbage
    BY DEF Garbage
  <1> QED
    BY DEF NewStore

-----------------------------------------------------------------------------
(* Type correctness *)

LEMMA TypeInit == Init => TypeOK
  BY StateLockAssumption DEF Init, TypeOK, RPCType, IdleRPC, AbsentBlob, BlobState, Waiting, Working, Acquiring

(* What a returning handler and one that moves on do to the types.         *)
LEMMA TypeReturn ==
    ASSUME TypeOK, NEW c \in Call, rpc[c].pc # "idle", Return(c)
    PROVE  mu' \in [Store -> Call \union {NoCall}] /\ RPCType'
  BY StateLockAssumption DEF TypeOK, RPCType, Return, IdleRPC, Working, Acquiring, Waiting

LEMMA TypeGoto ==
    ASSUME RPCType, NEW c \in Call, rpc[c].pc \in Working,
           NEW pc \in Working, Goto(c, pc)
    PROVE  RPCType'
  <1>1. rpc[c].pc # "idle"
    BY DEF Working, Acquiring
  <1>2. pc \in {"idle"} \union Waiting \union Working
    OBVIOUS
  <1> QED
    BY <1>1, <1>2 DEF RPCType, Goto

(* What the effects of Azure do to the types. *)
LEMMA TypeAzure ==
    ASSUME TypeOK, NEW k \in Blob, NEW id \in LeaseID,
           LeaseTo(k, id) \/ Vacate(k)
    PROVE  /\ blob' \in [Blob -> BlobState]
           /\ holder' \in [Blob -> (Store \X ResourceID) \union {Nobody, Gone}]
  <1>1. LeasedBlob(id) \in BlobState /\ FreeBlob \in BlobState
    BY DEF LeasedBlob, FreeBlob, BlobState
  <1> QED
    BY <1>1 DEF TypeOK, LeaseTo, Vacate

LEMMA TypeStart ==
    ASSUME RPCType, NEW c \in Call, rpc[c].pc # "idle",
           NEW pc \in Working, NEW id \in LeaseID, StartRequest(c, pc, id)
    PROVE  RPCType'
  <1> DEFINE new == [pc |-> pc, store |-> rpc[c].store, rid |-> rpc[c].rid, id |-> id]
  <1>2. rpc' = [rpc EXCEPT ![c] = new]
    BY DEF StartRequest
  <1>3. rpc[c].store \in Store /\ rpc[c].rid \in ResourceID
    BY DEF RPCType
  <1>4. new \in [pc : {"idle"} \union Waiting \union Working,
                store : Store \union {NoStore},
                rid : ResourceID \union {NoResource},
                id : LeaseID \union {NoLease}]
    BY <1>3
  <1>5. new.pc = pc /\ new.store = rpc[c].store /\ new.rid = rpc[c].rid /\ new.id = id
    OBVIOUS
  <1> HIDE DEF new
  <1>6. rpc' \in [Call -> [pc : {"idle"} \union Waiting \union Working,
                          store : Store \union {NoStore},
                          rid : ResourceID \union {NoResource},
                          id : LeaseID \union {NoLease}]]
    BY <1>2, <1>4 DEF RPCType
  <1>7. \A d \in Call : rpc'[d] = IF d = c THEN new ELSE rpc[d]
    BY <1>2 DEF RPCType
  <1> QED
    BY <1>3, <1>5, <1>6, <1>7 DEF RPCType

LEMMA TypeNext == TypeOK /\ [Next]_vars => TypeOK'
  <1> SUFFICES ASSUME TypeOK, [Next]_vars PROVE TypeOK'
    OBVIOUS
  <1> USE StateLockAssumption
  <1>0. ASSUME NEW c \in Call, rpc[c].pc \in Working
        PROVE  /\ rpc[c].pc # "idle"
               /\ rpc[c].store \in Store
               /\ rpc[c].rid \in ResourceID
               /\ rpc[c].id \in LeaseID
               /\ LockBlob[rpc[c].rid] \in Blob
    BY <1>0 DEF TypeOK, RPCType, Working, Acquiring
  <1>1. ASSUME NEW p \in Proc, Configure(p) PROVE TypeOK'
    <2>1. NewStore \in Store /\ NewStore \in Garbage
      BY <1>1, NewStoreGarbage DEF Configure
    <2> QED BY <1>1, <2>1 DEF Configure, TypeOK, RPCType
  <1>2. ASSUME NEW p \in Proc, Crash(p) PROVE TypeOK'
    <2>1. stray' \subseteq Request
      <3>1. \A c \in Call : InAzure(c) => RequestOf(c) \in Request
        BY DEF TypeOK, RPCType, InAzure, RequestOf, Request, Working, Acquiring
      <3> QED BY <1>2, <3>1 DEF Crash, TypeOK
    <2>2. store' \in [Proc -> Store \union {NoStore}]
      BY <1>2 DEF Crash, TypeOK
    <2>3. mu' \in [Store -> Call \union {NoCall}]
      BY <1>2 DEF Crash, TypeOK
    <2>4. RPCType'
      BY <1>2 DEF Crash, TypeOK, RPCType, IdleRPC, Working, Acquiring, Waiting
    <2> QED BY <1>2, <2>1, <2>2, <2>3, <2>4 DEF Crash, TypeOK
  <1>3. ASSUME NEW c \in Call, NEW r \in ResourceID, CallLock(c, r) \/ CallUnlock(c, r)
        PROVE TypeOK'
    <2>1. RPCType'
      <3>1. store[ProcOf[c]] \in Store
        BY <1>3 DEF CallLock, CallUnlock, Begin, TypeOK
      <3>2. PICK op \in Waiting : Begin(c, r, op)
        BY <1>3 DEF CallLock, CallUnlock, Waiting
      <3>3. op \notin Working /\ op # "idle"
        BY DEF Waiting, Working, Acquiring
      <3>4. rpc' = [rpc EXCEPT ![c] = [pc |-> op, store |-> store[ProcOf[c]],
                                       rid |-> r, id |-> NoLease]]
        BY <3>2 DEF Begin, IdleRPC
      <3> QED BY <3>1, <3>3, <3>4 DEF TypeOK, RPCType
    <2> QED BY <1>3, <2>1 DEF CallLock, CallUnlock, Begin, TypeOK
  <1>4. ASSUME NEW c \in Call, Enter(c) PROVE TypeOK'
    <2>1. CASE EnterLock(c)
      <3>1. NewLeaseID \in LeaseID
        BY <2>1, NewLeaseIDFresh DEF EnterLock
      <3>2. rpc[c].store \in Store
        BY <2>1 DEF EnterLock, TypeOK, RPCType
      <3>3. RPCType'
        <4> "acquire" \in Working
          BY DEF Working, Acquiring
        <4> QED BY <2>1, <3>1, TypeStart DEF EnterLock, TypeOK
      <3> QED BY <2>1, <3>2, <3>3 DEF EnterLock, TypeOK
    <2>2. CASE EnterUnlock(c)
      <3>1. rpc[c].store \in Store /\ rpc[c].rid \in ResourceID
        BY <2>2 DEF EnterUnlock, TypeOK, RPCType
      <3>2. CASE rpc' = [rpc EXCEPT ![c] = IdleRPC] /\ UNCHANGED mu
        <4>1. RPCType'
          BY <3>2 DEF TypeOK, RPCType, IdleRPC, Working, Acquiring, Waiting
        <4> QED BY <2>2, <3>2, <4>1 DEF EnterUnlock, TypeOK
      <3>3. CASE ~(rpc' = [rpc EXCEPT ![c] = IdleRPC] /\ UNCHANGED mu)
        <4> DEFINE id == leaseIDs[rpc[c].store][rpc[c].rid]
        <4>1. /\ id # NoLease
              /\ mu' = [mu EXCEPT ![rpc[c].store] = c]
              /\ StartRequest(c, "release", id)
          BY <2>2, <3>3 DEF EnterUnlock
        <4>2. id \in LeaseID
          BY <3>1, <4>1 DEF TypeOK
        <4>3. RPCType'
          <5>1. "release" \in Working /\ rpc[c].pc # "idle"
            BY <2>2 DEF EnterUnlock, Working
          <5> HIDE DEF id
          <5> QED BY <4>1, <4>2, <5>1, TypeStart DEF TypeOK
        <4> QED BY <2>2, <4>1, <4>3 DEF EnterUnlock, TypeOK
      <3> QED BY <3>2, <3>3
    <2> QED BY <1>4, <2>1, <2>2 DEF Enter
  <1>5. ASSUME NEW c \in Call, Answered(c) \/ Resent(c) PROVE TypeOK'
    <2>1. ASSUME NEW resent \in BOOLEAN, Acquire(c, resent) PROVE TypeOK'
      <3>1. rpc[c].pc \in Working /\ "record" \in Working
        BY <2>1 DEF Acquire, Working, Acquiring
      <3>2. RPCType'
        <4>1. CASE UNCHANGED rpc
          BY <4>1 DEF TypeOK, RPCType
        <4>2. CASE Goto(c, "record")
          BY <3>1, <4>2, TypeGoto DEF TypeOK
        <4> QED BY <2>1, <4>1, <4>2 DEF Acquire
      <3> QED BY <2>1, <3>1, <3>2, <1>0, TypeAzure DEF Acquire, TypeOK
    <2>2. ASSUME AlreadyLocked(c) PROVE TypeOK'
      BY <2>2, TypeReturn DEF AlreadyLocked, TypeOK
    <2>3. ASSUME NotFound(c) PROVE TypeOK'
      <3>1. rpc[c].pc \in Working /\ "create" \in Working
        BY <2>3 DEF NotFound, Working, Acquiring
      <3> QED BY <2>3, <3>1, TypeGoto DEF NotFound, TypeOK
    <2>4. ASSUME NEW resent \in BOOLEAN, CreatePlaceholder(c, resent) PROVE TypeOK'
      <3>1. rpc[c].pc \in Working /\ "reacquire" \in Working
        BY <2>4 DEF CreatePlaceholder, Working, Acquiring
      <3>2. mu' \in [Store -> Call \union {NoCall}] /\ RPCType'
        <4>1. CASE Return(c)
          BY <3>1, <1>0, <4>1, TypeReturn
        <4>2. CASE UNCHANGED <<mu, rpc>>
          BY <4>2 DEF TypeOK, RPCType
        <4>3. CASE UNCHANGED mu /\ Goto(c, "reacquire")
          BY <3>1, <4>3, TypeGoto DEF TypeOK
        <4> QED BY <2>4, <4>1, <4>2, <4>3 DEF CreatePlaceholder
      <3>3. CASE Vacate(LockBlob[rpc[c].rid])
        BY <2>4, <3>1, <3>2, <3>3, <1>0, TypeAzure DEF CreatePlaceholder, TypeOK
      <3>4. CASE UNCHANGED <<blob, holder>>
        BY <2>4, <3>2, <3>4 DEF CreatePlaceholder, TypeOK
      <3> QED BY <2>4, <3>3, <3>4 DEF CreatePlaceholder
    <2>5. ASSUME NEW resent \in BOOLEAN, Release(c, resent) PROVE TypeOK'
      <3>1. rpc[c].pc \in Working /\ "forget" \in Working
        BY <2>5 DEF Release, Working, Acquiring
      <3>2. mu' \in [Store -> Call \union {NoCall}] /\ RPCType'
        <4>1. CASE Return(c)
          BY <3>1, <1>0, <4>1, TypeReturn
        <4>2. CASE UNCHANGED <<mu, rpc>>
          BY <4>2 DEF TypeOK, RPCType
        <4>3. CASE UNCHANGED mu /\ Goto(c, "forget")
          BY <3>1, <4>3, TypeGoto DEF TypeOK
        <4> QED BY <2>5, <4>1, <4>2, <4>3 DEF Release
      <3>3. CASE Vacate(LockBlob[rpc[c].rid])
        BY <2>5, <3>1, <3>2, <3>3, <1>0, TypeAzure DEF Release, TypeOK
      <3>4. CASE UNCHANGED <<blob, holder>>
        BY <2>5, <3>2, <3>4 DEF Release, TypeOK
      <3> QED BY <2>5, <3>3, <3>4 DEF Release
    <2>6. ASSUME Record(c) PROVE TypeOK'
      <3>1. rpc[c].pc \in Working
        BY <2>6 DEF Record, Working
      <3> QED BY <2>6, <3>1, <1>0, TypeReturn DEF Record, TypeOK
    <2>7. ASSUME Forget(c) PROVE TypeOK'
      <3>1. rpc[c].pc \in Working
        BY <2>7 DEF Forget, Working
      <3> QED BY <2>7, <3>1, <1>0, TypeReturn DEF Forget, TypeOK
    <2>8. ASSUME Fail(c) PROVE TypeOK'
      <3>1. RequestOf(c) \in Request /\ rpc[c].pc # "idle"
        BY <2>8 DEF Fail, TypeOK, RPCType, InAzure, RequestOf, Request, Working, Acquiring
      <3> QED BY <2>8, <3>1, TypeReturn DEF Fail, TypeOK
    <2> QED BY <1>5, <2>1, <2>2, <2>3, <2>4, <2>5, <2>6, <2>7, <2>8 DEF Answered, Resent
  <1>6. ASSUME NEW k \in Blob, Lapse(k) PROVE TypeOK'
    BY <1>6 DEF Lapse, TypeOK, BlobState, RPCType
  <1>7. ASSUME NEW q \in stray, Deliver(q) PROVE TypeOK'
    <2>1. q.blob \in Blob /\ q.id \in LeaseID
      BY DEF TypeOK, Request
    <2>2. CASE UNCHANGED <<blob, holder>>
      BY <1>7, <2>2 DEF Deliver, TypeOK, RPCType
    <2>3. CASE LeaseTo(q.blob, q.id) \/ Vacate(q.blob)
      BY <1>7, <2>1, <2>3, TypeAzure DEF Deliver, TypeOK, RPCType
    <2> QED BY <1>7, <2>2, <2>3 DEF Deliver
  <1>8. CASE UNCHANGED vars
    BY <1>8 DEF vars, TypeOK, RPCType
  <1> QED BY <1>1, <1>2, <1>3, <1>4, <1>5, <1>6, <1>7, <1>8 DEF Next

(* Every variable keeps its type, and a handler at work has a store, a     *)
(* resource id and, from its first request on, a lease id.                 *)
THEOREM TypeCorrect == Spec => []TypeOK
  BY TypeInit, TypeNext, PTL DEF Spec

-----------------------------------------------------------------------------
(* The inductive invariant *)

LEMMA InvInit == Init => LockInv
  BY StateLockAssumption
     DEF Init, LockInv, MutexHeld, ProposalFresh, Proposing, StrayFresh, EntriesUnique,
         ReleasingEntry, UntoldAtWork, NoIDOutsideWork, LiveHasLease, UntoldProposal,
         HolderHasID, Told, IdleRPC, AbsentBlob, Working, Acquiring

(* The id of a Lock at work, or of its request still on its way, stays     *)
(* unknown to all while no lease and no new proposal is made,              *)
LEMMA UntoldKept ==
    ASSUME LockInv, UNCHANGED blob,
           \A k \in Blob : holder'[k] # Nobody => holder[k] # Nobody,
           \A c \in Call : Proposing(c)' => Proposing(c) /\ rpc'[c].id = rpc[c].id,
           \A q \in stray' : q.kind \in Acquiring =>
               q \in stray \/ \E c \in Call : Proposing(c) /\ q.id = rpc[c].id
    PROVE  UntoldProposal'
  BY DEF LockInv, UntoldProposal

(* and when Azure grants or ends a lease.                                  *)
LEMMA UntoldAzure ==
    ASSUME TypeOK, LockInv, NEW k \in Blob, NEW id \in LeaseID, LeaseTo(k, id) \/ Vacate(k),
           \A c \in Call : (Proposing(c)' <=> Proposing(c)) /\ rpc'[c].id = rpc[c].id,
           stray' \subseteq stray
    PROVE  UntoldProposal'
  <1>1. /\ holder'[k] = Nobody
        /\ \A j \in Blob : j # k => holder'[j] = holder[j] /\ blob'[j] = blob[j]
    BY DEF TypeOK, LeaseTo, Vacate
  <1> QED BY <1>1 DEF LockInv, UntoldProposal

(* A handler that returns frees the mutex of its store and of no other.    *)
LEMMA MutexReturn ==
    ASSUME TypeOK, LockInv, NEW c \in Call, rpc[c].pc \in Working, Return(c)
    PROVE  MutexHeld' /\ NoIDOutsideWork'
  <1>1. rpc[c].store \in Store /\ mu[rpc[c].store] = c
    BY DEF TypeOK, RPCType, LockInv, MutexHeld, Working, Acquiring
  <1>2. \A d \in Call : rpc'[d] = IF d = c THEN IdleRPC ELSE rpc[d]
    BY DEF Return, TypeOK, RPCType
  <1>3. \A s \in Store : mu'[s] = IF s = rpc[c].store THEN NoCall ELSE mu[s]
    BY DEF Return, TypeOK
  <1>4. IdleRPC.pc = "idle" /\ IdleRPC.id = NoLease /\ "idle" \notin Working
    BY DEF IdleRPC, Working, Acquiring
  <1>5. MutexHeld'
    <2> SUFFICES ASSUME NEW d \in Call, rpc'[d].pc \in Working
                 PROVE  mu'[rpc'[d].store] = d
      BY DEF MutexHeld
    <2>1. d # c /\ rpc'[d] = rpc[d]
      BY <1>2, <1>4
    <2>2. rpc[d].store \in Store /\ mu[rpc[d].store] = d
      BY <2>1 DEF TypeOK, RPCType, LockInv, MutexHeld, Working, Acquiring
    <2> QED BY <1>1, <1>3, <2>1, <2>2
  <1>6. NoIDOutsideWork'
    BY <1>2, <1>4 DEF LockInv, NoIDOutsideWork
  <1> QED BY <1>5, <1>6

(* A handler that returns takes nothing with it but its own lease id. *)
LEMMA InvReturn ==
    ASSUME TypeOK, LockInv, NEW c \in Call, rpc[c].pc \in Working, Return(c),
           UNCHANGED <<leaseIDs, blob, holder, stray>>
    PROVE  LockInv'
  <1>1. \A d \in Call : rpc'[d] = IF d = c THEN IdleRPC ELSE rpc[d]
    BY DEF Return, TypeOK, RPCType
  <1>2. IdleRPC.pc = "idle" /\ IdleRPC.id = NoLease
    BY DEF IdleRPC
  <1>3. \A d \in Call : Proposing(d) => rpc[d].id # NoLease
    BY StateLockAssumption DEF TypeOK, RPCType, Proposing, Working
  <1>4. \A d \in Call : Proposing(d)' => d # c /\ Proposing(d)
    BY <1>1, <1>2 DEF Proposing, Acquiring
  <1>5. ProposalFresh'
    BY <1>1, <1>2, <1>3, <1>4 DEF LockInv, ProposalFresh
  <1>6. ReleasingEntry' /\ UntoldAtWork'
    BY <1>1, <1>2 DEF LockInv, ReleasingEntry, UntoldAtWork
  <1>7. UntoldProposal'
    BY <1>1, <1>4, UntoldKept
  <1> QED
    BY <1>5, <1>6, <1>7, MutexReturn DEF LockInv, StrayFresh, EntriesUnique, LiveHasLease, HolderHasID, Told

(* What an effect of Azure leaves of the holders: they lose only locks.    *)
LEMMA AzureHolder ==
    ASSUME TypeOK, NEW k \in Blob, NEW id \in LeaseID, LeaseTo(k, id) \/ Vacate(k)
    PROVE  /\ \A j \in Blob : holder'[j] = IF j = k THEN Nobody ELSE holder[j]
           /\ \A j \in Blob : j # k => blob'[j] = blob[j]
           /\ blob'[k].live => blob'[k].lease \in LeaseID
  BY DEF TypeOK, LeaseTo, Vacate, LeasedBlob, FreeBlob

LEMMA InvAzure ==
    ASSUME TypeOK, LockInv, NEW k \in Blob, NEW id \in LeaseID,
           LeaseTo(k, id) \/ Vacate(k), UNCHANGED leaseIDs
    PROVE  HolderHasID' /\ LiveHasLease'
  <1>1. HolderHasID'
    BY AzureHolder, StateLockAssumption DEF LockInv, HolderHasID, Told
  <1>2. LiveHasLease'
    BY AzureHolder, StateLockAssumption DEF LockInv, LiveHasLease
  <1> QED BY <1>1, <1>2

LEMMA InvNext == TypeOK /\ LockInv /\ [Next]_vars => LockInv'
  <1> SUFFICES ASSUME TypeOK, LockInv, [Next]_vars PROVE LockInv'
    OBVIOUS
  <1> USE StateLockAssumption
  <1>0. ASSUME NEW c \in Call, rpc[c].pc \in Working
        PROVE  /\ rpc[c].pc # "idle"
               /\ rpc[c].store \in Store
               /\ rpc[c].rid \in ResourceID
               /\ rpc[c].id \in LeaseID
               /\ LockBlob[rpc[c].rid] \in Blob
               /\ mu[rpc[c].store] = c
    BY <1>0 DEF TypeOK, RPCType, Working, Acquiring, LockInv, MutexHeld
  <1>1. ASSUME NEW p \in Proc, Configure(p) PROVE LockInv'
    <2> DEFINE s == NewStore
    <2>1. s \in Store /\ s \in Garbage
      BY <1>1, NewStoreGarbage DEF Configure
    <2> HIDE DEF s
    <2>2. /\ mu' = [mu EXCEPT ![s] = NoCall]
          /\ leaseIDs' = [leaseIDs EXCEPT ![s] = [r \in ResourceID |-> NoLease]]
          /\ holder' = [k \in Blob |-> IF holder[k] \in {s} \X ResourceID
                                       THEN Gone ELSE holder[k]]
          /\ UNCHANGED <<rpc, blob, stray>>
      BY <1>1 DEF Configure, s
    <2>3. \A c \in Call : rpc[c].store # s
      BY <2>1 DEF Garbage
    <2>4. \A t \in Store, r \in ResourceID :
             leaseIDs'[t][r] = IF t = s THEN NoLease ELSE leaseIDs[t][r]
      BY <2>1, <2>2 DEF TypeOK
    <2>5. MutexHeld'
      BY <1>0, <2>2, <2>3 DEF LockInv, MutexHeld, TypeOK
    <2>6. ProposalFresh' /\ StrayFresh' /\ EntriesUnique'
      <3>1. \A c \in Call : Proposing(c) => rpc[c].id # NoLease
        BY <1>0 DEF Proposing, Working
      <3>2. \A q \in stray : q.id # NoLease
        BY DEF TypeOK, Request
      <3>3. \A c \in Call : Proposing(c)' <=> Proposing(c)
        BY <2>2 DEF Proposing
      <3> QED BY <2>2, <2>4, <3>1, <3>2, <3>3
              DEF LockInv, ProposalFresh, StrayFresh, EntriesUnique
    <2>7. ReleasingEntry'
      <3> \A c \in Call : rpc[c].pc \in {"release", "forget"} => rpc[c].pc \in Working
        BY DEF Working
      <3> QED BY <1>0, <2>2, <2>3, <2>4 DEF LockInv, ReleasingEntry
    <2>8. UntoldAtWork'
      <3>1. \A c \in Call : rpc[c].pc \in {"record", "forget"} =>
               <<rpc[c].store, rpc[c].rid>> # Gone
        BY <1>0 DEF Working
      <3> QED BY <2>2, <3>1 DEF LockInv, UntoldAtWork
    <2>9. HolderHasID'
      <3> SUFFICES ASSUME NEW k \in Blob, Told(k)'
                   PROVE  /\ LockBlob[holder'[k][2]] = k
                          /\ blob[k].lease # NoLease
                          /\ leaseIDs'[holder'[k][1]][holder'[k][2]] = blob[k].lease
        BY <2>2 DEF HolderHasID, Told
      <3>1. holder'[k] = holder[k] /\ holder[k] \notin {s} \X ResourceID
        BY <2>2 DEF Told
      <3>2. holder[k] \in Store \X ResourceID
        BY <3>1 DEF Told
      <3>3. holder[k][1] # s
        BY <3>1, <3>2
      <3> QED BY <2>4, <3>1, <3>2, <3>3 DEF LockInv, HolderHasID, Told
    <2>10. UntoldProposal'
      <3>1. \A c \in Call : Proposing(c)' => Proposing(c) /\ rpc'[c].id = rpc[c].id
        BY <2>2 DEF Proposing
      <3>2. \A k \in Blob : holder'[k] # Nobody => holder[k] # Nobody
        BY <2>1, <2>2
      <3> QED BY <2>2, <3>1, <3>2, UntoldKept
    <2> QED BY <2>2, <2>5, <2>6, <2>7, <2>8, <2>9, <2>10
            DEF LockInv, NoIDOutsideWork, LiveHasLease
  <1>2. ASSUME NEW p \in Proc, Crash(p) PROVE LockInv'
    <2> DEFINE mine == {c \in Call : ProcOf[c] = p}
    <2>1. PICK Q \in SUBSET {RequestOf(c) : c \in {d \in mine : InAzure(d)}} :
             stray' = stray \union Q
      BY <1>2 DEF Crash
    <2>2. /\ \A c \in Call : rpc'[c] = IF c \in mine THEN IdleRPC ELSE rpc[c]
          /\ \A s \in Store : mu'[s] = IF mu[s] \in mine THEN NoCall ELSE mu[s]
          /\ UNCHANGED <<leaseIDs, blob, holder>>
      BY <1>2 DEF Crash
    <2>3. IdleRPC.pc = "idle" /\ IdleRPC.id = NoLease
      BY DEF IdleRPC
    <2>4. "idle" \notin Working /\ "idle" \notin Acquiring
      BY DEF Working, Acquiring
    <2>5. \A q \in Q : \E c \in mine : InAzure(c) /\ q = RequestOf(c)
      BY <2>1
    <2>6. \A c \in Call : InAzure(c) =>
             /\ RequestOf(c).kind = rpc[c].pc /\ RequestOf(c).id = rpc[c].id
      BY DEF RequestOf
    <2>7. mine \subseteq Call
      OBVIOUS
    <2> HIDE DEF mine
    <2>8. \A c \in Call : Proposing(c)' => c \notin mine /\ Proposing(c) /\ rpc'[c] = rpc[c]
      BY <2>2, <2>3, <2>4 DEF Proposing
    <2>9. \A c \in Call : Proposing(c) => rpc[c].id # NoLease
      BY <1>0 DEF Proposing, Working
    <2>10. MutexHeld'
      <3> SUFFICES ASSUME NEW c \in Call, rpc'[c].pc \in Working
                   PROVE  mu'[rpc'[c].store] = c
        BY DEF MutexHeld
      <3>1. c \notin mine /\ rpc'[c] = rpc[c]
        BY <2>2, <2>3, <2>4
      <3> QED BY <1>0, <2>2, <3>1
    <2>11. ProposalFresh'
      <3> SUFFICES ASSUME NEW c \in Call, Proposing(c)'
                   PROVE  /\ \A s \in Store, r \in ResourceID : leaseIDs'[s][r] # rpc'[c].id
                          /\ \A d \in Call : d # c => rpc'[d].id # rpc'[c].id
                          /\ \A q \in stray' : q.id # rpc'[c].id
        BY DEF ProposalFresh
      <3>1. c \notin mine /\ Proposing(c) /\ rpc'[c] = rpc[c]
        BY <2>8
      <3>2. \A q \in Q : q.id # rpc[c].id
        BY <2>5, <2>6, <2>7, <3>1 DEF LockInv, ProposalFresh
      <3>3. \A d \in Call : d # c => rpc'[d].id # rpc[c].id
        BY <2>2, <2>3, <2>9, <3>1 DEF LockInv, ProposalFresh
      <3> QED BY <2>1, <2>2, <3>1, <3>2, <3>3 DEF LockInv, ProposalFresh
    <2>12. StrayFresh'
      <3>1. \A q \in Q : q.kind \in Acquiring =>
               \A s \in Store, r \in ResourceID : leaseIDs[s][r] # q.id
        BY <2>5, <2>6, <2>7 DEF LockInv, ProposalFresh, Proposing
      <3> QED BY <2>1, <2>2, <3>1 DEF LockInv, StrayFresh
    <2>13. ReleasingEntry' /\ UntoldAtWork' /\ NoIDOutsideWork'
      BY <2>2, <2>3, <2>4 DEF LockInv, ReleasingEntry, UntoldAtWork, NoIDOutsideWork
    <2>14. UntoldProposal'
      <3> \A q \in Q : q.kind \in Acquiring => \E c \in Call : Proposing(c) /\ q.id = rpc[c].id
        BY <2>5, <2>6, <2>7 DEF Proposing
      <3> QED BY <2>1, <2>2, <2>8, UntoldKept
    <2> QED BY <2>2, <2>10, <2>11, <2>12, <2>13, <2>14
            DEF LockInv, EntriesUnique, LiveHasLease, HolderHasID, Told
  <1>3. ASSUME NEW c \in Call, NEW r \in ResourceID, CallLock(c, r) \/ CallUnlock(c, r)
        PROVE LockInv'
    <2>1. PICK op \in Waiting : Begin(c, r, op)
      BY <1>3 DEF CallLock, CallUnlock, Waiting
    <2>2. op \notin Working /\ op \notin Acquiring
      BY DEF Waiting, Working, Acquiring
    <2>3. /\ \A d \in Call : d # c => rpc'[d] = rpc[d]
          /\ rpc'[c].pc = op /\ rpc'[c].id = NoLease
          /\ UNCHANGED <<mu, leaseIDs, blob, stray, holder>>
      BY <2>1 DEF Begin, TypeOK, RPCType
    <2>4. \A d \in Call : Proposing(d)' => d # c /\ Proposing(d)
      BY <2>2, <2>3 DEF Proposing, Working
    <2>5. \A d \in Call : Proposing(d) => rpc[d].id # NoLease
      BY <1>0 DEF Proposing, Working
    <2>6. MutexHeld'
      BY <2>2, <2>3 DEF LockInv, MutexHeld
    <2>7. ProposalFresh'
      BY <2>3, <2>4, <2>5 DEF LockInv, ProposalFresh
    <2>8. ReleasingEntry' /\ UntoldAtWork' /\ NoIDOutsideWork'
      <3> op \notin {"record", "release", "forget"}
        BY DEF Waiting
      <3> QED BY <2>2, <2>3 DEF LockInv, ReleasingEntry, UntoldAtWork, NoIDOutsideWork
    <2>9. UntoldProposal'
      BY <2>3, <2>4, UntoldKept
    <2> QED BY <2>3, <2>6, <2>7, <2>8, <2>9
            DEF LockInv, StrayFresh, EntriesUnique, LiveHasLease, HolderHasID, Told
  <1>4. ASSUME NEW c \in Call, EnterLock(c) PROVE LockInv'
    <2>1. NewLeaseID \in LeaseID /\ NewLeaseID \notin UsedIDs
      BY <1>4, NewLeaseIDFresh DEF EnterLock
    <2>2. PICK id \in LeaseID : id = NewLeaseID
      BY <2>1
    <2>3. /\ \A s \in Store, r \in ResourceID : leaseIDs[s][r] # id
          /\ \A d \in Call : rpc[d].id # id
          /\ \A q \in stray : q.id # id
          /\ \A k \in Blob : blob[k].lease # id
      BY <2>1, <2>2 DEF UsedIDs
    <2>4. rpc[c].store \in Store /\ rpc[c].pc = "lock" /\ mu[rpc[c].store] = NoCall
      BY <1>4 DEF EnterLock, TypeOK, RPCType
    <2>5. /\ \A d \in Call : d # c => rpc'[d] = rpc[d]
          /\ rpc'[c].pc = "acquire" /\ rpc'[c].id = id /\ rpc'[c].store = rpc[c].store
          /\ mu' = [mu EXCEPT ![rpc[c].store] = c]
          /\ UNCHANGED <<leaseIDs, blob, stray, holder>>
      BY <1>4, <2>2 DEF EnterLock, StartRequest, TypeOK, RPCType
    <2>6. "acquire" \in Working
      BY DEF Working, Acquiring
    <2>7. \A d \in Call : d # c => (Proposing(d)' <=> Proposing(d))
      BY <2>5 DEF Proposing
    <2>8. MutexHeld'
      BY <1>0, <2>4, <2>5 DEF LockInv, MutexHeld, TypeOK
    <2>9. ProposalFresh'
      BY <2>3, <2>5, <2>7 DEF LockInv, ProposalFresh
    <2>10. ReleasingEntry' /\ UntoldAtWork' /\ NoIDOutsideWork'
      BY <2>5, <2>6 DEF LockInv, ReleasingEntry, UntoldAtWork, NoIDOutsideWork
    <2>11. UntoldProposal'
      BY <2>3, <2>5, <2>7 DEF LockInv, UntoldProposal
    <2> QED BY <2>5, <2>8, <2>9, <2>10, <2>11
            DEF LockInv, StrayFresh, EntriesUnique, LiveHasLease, HolderHasID, Told
  <1>5. ASSUME NEW c \in Call, EnterUnlock(c) PROVE LockInv'
    <2> DEFINE id == leaseIDs[rpc[c].store][rpc[c].rid]
    <2>1. /\ rpc[c].store \in Store /\ rpc[c].rid \in ResourceID
          /\ rpc[c].pc = "unlock" /\ mu[rpc[c].store] = NoCall
          /\ UNCHANGED <<leaseIDs, blob, stray, holder>>
      BY <1>5 DEF EnterUnlock, TypeOK, RPCType
    <2>2. \A d \in Call : Proposing(d) => rpc[d].id # NoLease
      BY <1>0 DEF Proposing, Working
    <2>3. CASE rpc' = [rpc EXCEPT ![c] = IdleRPC] /\ UNCHANGED mu
      <3>1. /\ \A d \in Call : d # c => rpc'[d] = rpc[d]
            /\ rpc'[c].pc = "idle" /\ rpc'[c].id = NoLease
        BY <2>3 DEF IdleRPC, TypeOK, RPCType
      <3>2. \A d \in Call : Proposing(d)' => d # c /\ Proposing(d)
        BY <3>1 DEF Proposing, Acquiring
      <3>3. MutexHeld' /\ ReleasingEntry' /\ UntoldAtWork' /\ NoIDOutsideWork'
        BY <2>1, <2>3, <3>1 DEF LockInv, MutexHeld, ReleasingEntry, UntoldAtWork,
                                NoIDOutsideWork, Working, Acquiring
      <3>4. ProposalFresh'
        BY <2>1, <2>2, <3>1, <3>2 DEF LockInv, ProposalFresh
      <3>5. UntoldProposal'
        BY <2>1, <3>1, <3>2, UntoldKept
      <3> QED BY <2>1, <3>3, <3>4, <3>5
              DEF LockInv, StrayFresh, EntriesUnique, LiveHasLease, HolderHasID, Told
    <2>4. CASE ~(rpc' = [rpc EXCEPT ![c] = IdleRPC] /\ UNCHANGED mu)
      <3>1. /\ id # NoLease
            /\ mu' = [mu EXCEPT ![rpc[c].store] = c]
            /\ StartRequest(c, "release", id)
        BY <1>5, <2>4 DEF EnterUnlock
      <3>2. /\ \A d \in Call : d # c => rpc'[d] = rpc[d]
            /\ rpc'[c].pc = "release" /\ rpc'[c].id = id
            /\ rpc'[c].store = rpc[c].store /\ rpc'[c].rid = rpc[c].rid
        BY <3>1 DEF StartRequest, TypeOK, RPCType
      <3> HIDE DEF id
      <3>3. \A d \in Call : Proposing(d)' => d # c /\ Proposing(d)
        BY <3>2 DEF Proposing, Acquiring
      <3>4. MutexHeld'
        BY <1>0, <2>1, <3>1, <3>2 DEF LockInv, MutexHeld, TypeOK
      <3>5. ProposalFresh'
        BY <2>1, <3>2, <3>3 DEF LockInv, ProposalFresh, id
      <3>6. ReleasingEntry' /\ UntoldAtWork' /\ NoIDOutsideWork'
        <4> "release" \in Working
          BY DEF Working
        <4> QED BY <2>1, <3>2 DEF LockInv, ReleasingEntry, UntoldAtWork, NoIDOutsideWork, id
      <3>7. UntoldProposal'
        BY <2>1, <3>2, <3>3, UntoldKept
      <3> QED BY <2>1, <3>4, <3>5, <3>6, <3>7
              DEF LockInv, StrayFresh, EntriesUnique, LiveHasLease, HolderHasID, Told
    <2> QED BY <2>3, <2>4
  <1>6. ASSUME NEW c \in Call, NEW resent \in BOOLEAN, Acquire(c, resent) PROVE LockInv'
    <2> DEFINE k == LockBlob[rpc[c].rid]
    <2>1. /\ rpc[c].pc \in {"acquire", "reacquire"} /\ rpc[c].pc \in Working
          /\ LeaseTo(k, rpc[c].id)
          /\ UNCHANGED <<mu, leaseIDs, stray>>
      BY <1>6 DEF Acquire, Working, Acquiring
    <2>2. k \in Blob /\ rpc[c].id \in LeaseID
      BY <1>0, <2>1
    <2>3. HolderHasID' /\ LiveHasLease'
      BY <2>1, <2>2, InvAzure
    <2>4. \A j \in Blob : holder'[j] = IF j = k THEN Nobody ELSE holder[j]
      BY <2>1, <2>2, AzureHolder
    <2>5. \A j \in Blob : holder'[j] # <<rpc[c].store, rpc[c].rid>>
      <3>1. <<rpc[c].store, rpc[c].rid>> \in Store \X ResourceID
        BY <1>0, <2>1
      <3>2. \A j \in Blob : holder[j] = <<rpc[c].store, rpc[c].rid>> => j = k
        BY <3>1 DEF LockInv, HolderHasID, Told
      <3> QED BY <2>4, <3>1, <3>2
    <2>6. \A d \in Call : <<rpc[d].store, rpc[d].rid>> = Nobody =>
                            rpc[d].pc \notin {"record", "forget"}
      BY <1>0 DEF Working
    <2>7. \/ UNCHANGED rpc
          \/ /\ \A d \in Call : d # c => rpc'[d] = rpc[d]
             /\ rpc'[c].pc = "record" /\ rpc'[c].id = rpc[c].id
             /\ rpc'[c].store = rpc[c].store /\ rpc'[c].rid = rpc[c].rid
      BY <1>6 DEF Acquire, Goto, TypeOK, RPCType
    <2> HIDE DEF k
    <2>8. \A d \in Call : (Proposing(d)' <=> Proposing(d)) /\ rpc'[d].id = rpc[d].id
      BY <2>1, <2>7 DEF Proposing, Acquiring
    <2>9. MutexHeld' /\ ReleasingEntry' /\ NoIDOutsideWork'
      BY <1>0, <2>1, <2>7 DEF LockInv, MutexHeld, ReleasingEntry, NoIDOutsideWork, Working
    <2>10. ProposalFresh'
      BY <2>1, <2>8 DEF LockInv, ProposalFresh
    <2>11. UntoldAtWork'
      BY <2>4, <2>5, <2>6, <2>7 DEF LockInv, UntoldAtWork
    <2>12. UntoldProposal'
      BY <2>1, <2>2, <2>8, UntoldAzure
    <2> QED BY <2>1, <2>3, <2>9, <2>10, <2>11, <2>12 DEF LockInv, StrayFresh, EntriesUnique
  <1>7. ASSUME NEW c \in Call, AlreadyLocked(c) PROVE LockInv'
    <2> rpc[c].pc \in Working
      BY <1>7 DEF AlreadyLocked, Working, Acquiring
    <2> QED BY <1>7, InvReturn DEF AlreadyLocked
  <1>8. ASSUME NEW c \in Call, NotFound(c) PROVE LockInv'
    <2>1. /\ rpc[c].pc = "acquire"
          /\ \A d \in Call : d # c => rpc'[d] = rpc[d]
          /\ rpc'[c].pc = "create" /\ rpc'[c].id = rpc[c].id
          /\ rpc'[c].store = rpc[c].store /\ rpc'[c].rid = rpc[c].rid
          /\ UNCHANGED <<mu, leaseIDs, blob, stray, holder>>
      BY <1>8 DEF NotFound, Goto, TypeOK, RPCType
    <2>2. \A d \in Call : (Proposing(d)' <=> Proposing(d)) /\ rpc'[d].id = rpc[d].id
      BY <2>1 DEF Proposing, Acquiring
    <2>3. "acquire" \in Working /\ "create" \in Working
      BY DEF Working, Acquiring
    <2>4. MutexHeld' /\ ReleasingEntry' /\ UntoldAtWork' /\ NoIDOutsideWork'
      BY <2>1, <2>3 DEF LockInv, MutexHeld, ReleasingEntry, UntoldAtWork, NoIDOutsideWork
    <2>5. ProposalFresh'
      BY <2>1, <2>2 DEF LockInv, ProposalFresh
    <2>6. UntoldProposal'
      BY <2>1, <2>2, UntoldKept
    <2> QED BY <2>1, <2>4, <2>5, <2>6
            DEF LockInv, StrayFresh, EntriesUnique, LiveHasLease, HolderHasID, Told
  <1>9. ASSUME NEW c \in Call, NEW resent \in BOOLEAN, CreatePlaceholder(c, resent)
        PROVE LockInv'
    <2> DEFINE k == LockBlob[rpc[c].rid]
    <2>1. rpc[c].pc = "create" /\ rpc[c].pc \in Working /\ UNCHANGED <<leaseIDs, stray>>
      BY <1>9 DEF CreatePlaceholder, Working, Acquiring
    <2>2. CASE Return(c) /\ UNCHANGED <<blob, holder>>
      BY <2>1, <2>2, InvReturn
    <2>3. CASE ~(Return(c) /\ UNCHANGED <<blob, holder>>)
      <3>1. Vacate(k) /\ UNCHANGED mu
        BY <1>9, <2>3 DEF CreatePlaceholder
      <3>2. \/ UNCHANGED rpc
            \/ /\ \A d \in Call : d # c => rpc'[d] = rpc[d]
               /\ rpc'[c].pc = "reacquire" /\ rpc'[c].id = rpc[c].id
               /\ rpc'[c].store = rpc[c].store /\ rpc'[c].rid = rpc[c].rid
        BY <1>9, <2>3 DEF CreatePlaceholder, Goto, TypeOK, RPCType
      <3>3. k \in Blob /\ rpc[c].id \in LeaseID
        BY <1>0, <2>1
      <3>4. HolderHasID' /\ LiveHasLease'
        BY <2>1, <3>1, <3>3, InvAzure
      <3>5. \A j \in Blob : holder'[j] = IF j = k THEN Nobody ELSE holder[j]
        BY <3>1, <3>3, AzureHolder
      <3>6. \A d \in Call : <<rpc[d].store, rpc[d].rid>> = Nobody =>
                              rpc[d].pc \notin {"record", "forget"}
        BY <1>0 DEF Working
      <3> HIDE DEF k
      <3>7. \A d \in Call : (Proposing(d)' <=> Proposing(d)) /\ rpc'[d].id = rpc[d].id
        BY <2>1, <3>2 DEF Proposing, Acquiring
      <3>8. "create" \in Working /\ "reacquire" \in Working
        BY DEF Working, Acquiring
      <3>9. MutexHeld' /\ ReleasingEntry' /\ NoIDOutsideWork'
        BY <2>1, <3>1, <3>2, <3>8 DEF LockInv, MutexHeld, ReleasingEntry, NoIDOutsideWork
      <3>10. ProposalFresh'
        BY <2>1, <3>7 DEF LockInv, ProposalFresh
      <3>11. UntoldAtWork'
        BY <2>1, <3>2, <3>5, <3>6 DEF LockInv, UntoldAtWork
      <3>12. UntoldProposal'
        BY <2>1, <3>1, <3>3, <3>7, UntoldAzure
      <3> QED BY <2>1, <3>4, <3>9, <3>10, <3>11, <3>12 DEF LockInv, StrayFresh, EntriesUnique
    <2> QED BY <2>2, <2>3
  <1>10. ASSUME NEW c \in Call, Record(c) PROVE LockInv'
    <2> DEFINE s == rpc[c].store  r == rpc[c].rid  id == rpc[c].id  k == LockBlob[r]
    <2>1. /\ rpc[c].pc = "record" /\ rpc[c].pc \in Working /\ Proposing(c)
          /\ leaseIDs' = [leaseIDs EXCEPT ![s][r] = id]
          /\ holder' = IF blob[k].lease = id THEN [holder EXCEPT ![k] = <<s, r>>] ELSE holder
          /\ UNCHANGED <<blob, stray>>
      BY <1>10 DEF Record, Working, Proposing
    <2>2. /\ s \in Store /\ r \in ResourceID /\ id \in LeaseID /\ k \in Blob
          /\ mu[s] = c
      BY <1>0, <2>1
    <2>3. /\ \A d \in Call : d # c => rpc'[d] = rpc[d]
          /\ rpc'[c].pc = "idle" /\ rpc'[c].id = NoLease
          /\ mu' = [mu EXCEPT ![s] = NoCall]
      BY <1>10 DEF Record, Return, IdleRPC, TypeOK, RPCType
    <2>4. \A t \in Store, x \in ResourceID :
             leaseIDs'[t][x] = IF t = s /\ x = r THEN id ELSE leaseIDs[t][x]
      BY <2>1, <2>2 DEF TypeOK
    <2>5. /\ \A t \in Store, x \in ResourceID : leaseIDs[t][x] # id
          /\ \A d \in Call : d # c => rpc[d].id # id
          /\ \A q \in stray : q.id # id
      BY <2>1 DEF LockInv, ProposalFresh
    <2>6. \A j \in Blob : holder[j] # <<s, r>>
      BY <2>1 DEF LockInv, UntoldAtWork
    <2>7. \A d \in Call : d # c /\ rpc[d].pc \in Working => rpc[d].store # s
      BY <2>2, <1>0
    <2> HIDE DEF s, r, id, k
    <2>8. \A d \in Call : Proposing(d)' => d # c /\ Proposing(d)
      BY <2>3 DEF Proposing, Acquiring
    <2>9. MutexHeld' /\ NoIDOutsideWork'
      BY <1>10, <2>1, MutexReturn DEF Record
    <2>10. ProposalFresh'
      <3>1. \A d \in Call : Proposing(d) => rpc[d].id # NoLease
        BY <1>0 DEF Proposing, Working
      <3> SUFFICES ASSUME NEW d \in Call, Proposing(d)'
                   PROVE  /\ \A t \in Store, x \in ResourceID : leaseIDs'[t][x] # rpc'[d].id
                          /\ \A e \in Call : e # d => rpc'[e].id # rpc'[d].id
                          /\ \A q \in stray' : q.id # rpc'[d].id
        BY DEF ProposalFresh
      <3>2. d # c /\ Proposing(d) /\ rpc'[d] = rpc[d] /\ rpc[d].id # id
        BY <2>3, <2>5, <2>8
      <3> QED BY <2>1, <2>3, <2>4, <3>1, <3>2 DEF LockInv, ProposalFresh
    <2>11. StrayFresh' /\ EntriesUnique'
      BY <2>1, <2>4, <2>5 DEF LockInv, StrayFresh, EntriesUnique
    <2>12. ReleasingEntry'
      BY <1>0, <2>3, <2>4, <2>7 DEF LockInv, ReleasingEntry, Working
    <2>13. UntoldAtWork'
      <3> SUFFICES ASSUME NEW d \in Call, rpc'[d].pc \in {"record", "forget"}, NEW j \in Blob
                   PROVE  holder'[j] # <<rpc'[d].store, rpc'[d].rid>>
        BY DEF UntoldAtWork
      <3>1. d # c /\ rpc'[d] = rpc[d] /\ rpc[d].store # s
        BY <2>3, <2>7 DEF Working
      <3>2. holder'[j] = holder[j] \/ holder'[j] = <<s, r>>
        BY <2>1, <2>2 DEF TypeOK
      <3> QED BY <3>1, <3>2 DEF LockInv, UntoldAtWork
    <2>14. HolderHasID'
      <3> SUFFICES ASSUME NEW j \in Blob, Told(j)'
                   PROVE  /\ LockBlob[holder'[j][2]] = j
                          /\ blob[j].lease # NoLease
                          /\ leaseIDs'[holder'[j][1]][holder'[j][2]] = blob[j].lease
        BY <2>1 DEF HolderHasID, Told
      <3>1. CASE j = k /\ blob[k].lease = id
        <4> holder'[j] = <<s, r>>
          BY <2>1, <2>2, <3>1 DEF TypeOK
        <4> QED BY <2>2, <2>4, <3>1 DEF k
      <3>2. CASE ~(j = k /\ blob[k].lease = id)
        <4>1. holder'[j] = holder[j]
          BY <2>1, <2>2, <3>2 DEF TypeOK
        <4>2. holder[j] \in Store \X ResourceID
          BY <4>1 DEF Told
        <4>3. ~(holder[j][1] = s /\ holder[j][2] = r)
          BY <2>6, <4>2
        <4> QED BY <2>4, <4>1, <4>2, <4>3 DEF LockInv, HolderHasID, Told
      <3> QED BY <3>1, <3>2
    <2>15. UntoldProposal'
      <3> SUFFICES ASSUME NEW j \in Blob, holder'[j] # Nobody
                   PROVE  /\ \A d \in Call : Proposing(d)' => rpc'[d].id # blob[j].lease
                          /\ \A q \in stray : q.kind \in Acquiring => q.id # blob[j].lease
        BY <2>1 DEF UntoldProposal
      <3>1. CASE j = k /\ blob[k].lease = id
        BY <2>3, <2>5, <2>8, <3>1
      <3>2. CASE ~(j = k /\ blob[k].lease = id)
        <4> holder'[j] = holder[j]
          BY <2>1, <2>2, <3>2 DEF TypeOK
        <4> QED BY <2>3, <2>8 DEF LockInv, UntoldProposal
      <3> QED BY <3>1, <3>2
    <2> QED BY <2>1, <2>9, <2>10, <2>11, <2>12, <2>13, <2>14, <2>15 DEF LockInv, LiveHasLease
  <1>11. ASSUME NEW c \in Call, NEW resent \in BOOLEAN, Release(c, resent) PROVE LockInv'
    <2> DEFINE k == LockBlob[rpc[c].rid]
    <2>1. rpc[c].pc = "release" /\ rpc[c].pc \in Working /\ UNCHANGED <<leaseIDs, stray>>
      BY <1>11 DEF Release, Working
    <2>2. CASE Return(c) /\ UNCHANGED <<blob, holder>>
      BY <2>1, <2>2, InvReturn
    <2>3. CASE ~(Return(c) /\ UNCHANGED <<blob, holder>>)
      <3>1. Vacate(k) /\ UNCHANGED mu
        BY <1>11, <2>3 DEF Release
      <3>2. \/ UNCHANGED rpc
            \/ /\ \A d \in Call : d # c => rpc'[d] = rpc[d]
               /\ rpc'[c].pc = "forget" /\ rpc'[c].id = rpc[c].id
               /\ rpc'[c].store = rpc[c].store /\ rpc'[c].rid = rpc[c].rid
        BY <1>11, <2>3 DEF Release, Goto, TypeOK, RPCType
      <3>3. k \in Blob /\ rpc[c].id \in LeaseID
        BY <1>0, <2>1
      <3>4. HolderHasID' /\ LiveHasLease'
        BY <2>1, <3>1, <3>3, InvAzure
      <3>5. \A j \in Blob : holder'[j] = IF j = k THEN Nobody ELSE holder[j]
        BY <3>1, <3>3, AzureHolder
      <3>6. \A d \in Call : <<rpc[d].store, rpc[d].rid>> = Nobody =>
                              rpc[d].pc \notin {"record", "forget"}
        BY <1>0 DEF Working
      <3>7. \A j \in Blob : holder'[j] # <<rpc[c].store, rpc[c].rid>>
        <4>1. <<rpc[c].store, rpc[c].rid>> \in Store \X ResourceID
          BY <1>0, <2>1
        <4>2. \A j \in Blob : holder[j] = <<rpc[c].store, rpc[c].rid>> => j = k
          BY <4>1 DEF LockInv, HolderHasID, Told
        <4> QED BY <3>5, <4>1, <4>2
      <3> HIDE DEF k
      <3>8. \A d \in Call : (Proposing(d)' <=> Proposing(d)) /\ rpc'[d].id = rpc[d].id
        BY <2>1, <3>2 DEF Proposing, Acquiring
      <3>9. "release" \in Working /\ "forget" \in Working
        BY DEF Working
      <3>10. MutexHeld' /\ ReleasingEntry' /\ NoIDOutsideWork'
        BY <2>1, <3>1, <3>2, <3>9 DEF LockInv, MutexHeld, ReleasingEntry, NoIDOutsideWork
      <3>11. ProposalFresh'
        BY <2>1, <3>8 DEF LockInv, ProposalFresh
      <3>12. UntoldAtWork'
        <4> SUFFICES ASSUME NEW d \in Call, rpc'[d].pc \in {"record", "forget"}, NEW j \in Blob
                     PROVE  holder'[j] # <<rpc'[d].store, rpc'[d].rid>>
          BY DEF UntoldAtWork
        <4>1. CASE rpc'[d] = rpc[d]
          BY <3>5, <3>6, <4>1 DEF LockInv, UntoldAtWork
        <4>2. CASE rpc'[d] # rpc[d]
          BY <3>2, <3>7, <4>2
        <4> QED BY <4>1, <4>2
      <3>13. UntoldProposal'
        BY <2>1, <3>1, <3>3, <3>8, UntoldAzure
      <3> QED BY <2>1, <3>4, <3>10, <3>11, <3>12, <3>13 DEF LockInv, StrayFresh, EntriesUnique
    <2> QED BY <2>2, <2>3
  <1>12. ASSUME NEW c \in Call, Forget(c) PROVE LockInv'
    <2> DEFINE s == rpc[c].store  r == rpc[c].rid
    <2>1. /\ rpc[c].pc = "forget" /\ rpc[c].pc \in Working
          /\ leaseIDs' = [leaseIDs EXCEPT ![s][r] = NoLease]
          /\ UNCHANGED <<blob, stray, holder>>
      BY <1>12 DEF Forget, Working
    <2>2. s \in Store /\ r \in ResourceID /\ mu[s] = c
      BY <1>0, <2>1
    <2>3. /\ \A d \in Call : d # c => rpc'[d] = rpc[d]
          /\ rpc'[c].pc = "idle" /\ rpc'[c].id = NoLease
          /\ mu' = [mu EXCEPT ![s] = NoCall]
      BY <1>12 DEF Forget, Return, IdleRPC, TypeOK, RPCType
    <2>4. \A t \in Store, x \in ResourceID :
             leaseIDs'[t][x] = IF t = s /\ x = r THEN NoLease ELSE leaseIDs[t][x]
      BY <2>1, <2>2 DEF TypeOK
    <2>5. \A j \in Blob : holder[j] # <<s, r>>
      BY <2>1 DEF LockInv, UntoldAtWork
    <2>6. \A d \in Call : d # c /\ rpc[d].pc \in Working => rpc[d].store # s
      BY <2>2, <1>0
    <2>7. \A d \in Call : Proposing(d) => rpc[d].id # NoLease
      BY <1>0 DEF Proposing, Working
    <2>8. \A q \in stray : q.id # NoLease
      BY DEF TypeOK, Request
    <2> HIDE DEF s, r
    <2>9. \A d \in Call : Proposing(d)' => d # c /\ Proposing(d)
      BY <2>3 DEF Proposing, Acquiring
    <2>10. MutexHeld' /\ NoIDOutsideWork'
      BY <1>12, <2>1, MutexReturn DEF Forget
    <2>11. ProposalFresh'
      <3> SUFFICES ASSUME NEW d \in Call, Proposing(d)'
                   PROVE  /\ \A t \in Store, x \in ResourceID : leaseIDs'[t][x] # rpc'[d].id
                          /\ \A e \in Call : e # d => rpc'[e].id # rpc'[d].id
                          /\ \A q \in stray' : q.id # rpc'[d].id
        BY DEF ProposalFresh
      <3>1. d # c /\ Proposing(d) /\ rpc'[d] = rpc[d] /\ rpc[d].id # NoLease
        BY <2>3, <2>7, <2>9
      <3> QED BY <2>1, <2>3, <2>4, <3>1 DEF LockInv, ProposalFresh
    <2>12. StrayFresh' /\ EntriesUnique'
      BY <2>1, <2>4, <2>8 DEF LockInv, StrayFresh, EntriesUnique
    <2>13. ReleasingEntry'
      BY <1>0, <2>3, <2>4, <2>6 DEF LockInv, ReleasingEntry, Working
    <2>14. UntoldAtWork'
      BY <2>1, <2>3 DEF LockInv, UntoldAtWork
    <2>15. HolderHasID'
      <3> SUFFICES ASSUME NEW j \in Blob, Told(j)
                   PROVE  /\ LockBlob[holder[j][2]] = j
                          /\ blob[j].lease # NoLease
                          /\ leaseIDs'[holder[j][1]][holder[j][2]] = blob[j].lease
        BY <2>1 DEF HolderHasID, Told
      <3>1. holder[j] \in Store \X ResourceID
        BY DEF Told
      <3>2. ~(holder[j][1] = s /\ holder[j][2] = r)
        BY <2>5, <3>1
      <3> QED BY <2>4, <3>1, <3>2 DEF LockInv, HolderHasID, Told
    <2>16. UntoldProposal'
      BY <2>1, <2>3, <2>9, UntoldKept
    <2> QED BY <2>1, <2>10, <2>11, <2>12, <2>13, <2>14, <2>15, <2>16 DEF LockInv, LiveHasLease
  <1>13. ASSUME NEW c \in Call, Fail(c) PROVE LockInv'
    <2>1. InAzure(c) /\ rpc[c].pc \in Working /\ Return(c) /\ UNCHANGED <<leaseIDs, blob, holder>>
      BY <1>13 DEF Fail, InAzure, Working
    <2>2. CASE UNCHANGED stray
      BY <2>1, <2>2, InvReturn
    <2>3. CASE stray' = stray \union {RequestOf(c)}
      <3>1. /\ \A d \in Call : d # c => rpc'[d] = rpc[d]
            /\ rpc'[c].pc = "idle" /\ rpc'[c].id = NoLease
            /\ mu' = [mu EXCEPT ![rpc[c].store] = NoCall]
        BY <2>1 DEF Return, IdleRPC, TypeOK, RPCType
      <3>2. RequestOf(c).kind = rpc[c].pc /\ RequestOf(c).id = rpc[c].id
        BY DEF RequestOf
      <3>5. \A d \in Call : Proposing(d)' => d # c /\ Proposing(d)
        BY <3>1 DEF Proposing, Acquiring
      <3>6. MutexHeld' /\ ReleasingEntry' /\ UntoldAtWork' /\ NoIDOutsideWork'
        <4>1. MutexHeld' /\ NoIDOutsideWork'
          BY <2>1, MutexReturn
        <4>2. ReleasingEntry' /\ UntoldAtWork'
          BY <2>1, <3>1 DEF LockInv, ReleasingEntry, UntoldAtWork
        <4> QED BY <4>1, <4>2
      <3>7. ProposalFresh'
        <4> SUFFICES ASSUME NEW d \in Call, Proposing(d)'
                     PROVE  /\ \A t \in Store, x \in ResourceID : leaseIDs'[t][x] # rpc'[d].id
                            /\ \A e \in Call : e # d => rpc'[e].id # rpc'[d].id
                            /\ \A q \in stray' : q.id # rpc'[d].id
          BY DEF ProposalFresh
        <4>1. d # c /\ Proposing(d) /\ rpc'[d] = rpc[d] /\ rpc[d].id # NoLease
          BY <1>0, <3>1, <3>5 DEF Proposing, Working
        <4> QED BY <2>1, <2>3, <3>1, <3>2, <4>1 DEF LockInv, ProposalFresh
      <3>8. StrayFresh'
        BY <2>1, <2>3, <3>2 DEF LockInv, StrayFresh, ProposalFresh, Proposing
      <3>9. UntoldProposal'
        <4>1. RequestOf(c).kind \in Acquiring => Proposing(c) /\ RequestOf(c).id = rpc[c].id
          BY <3>2 DEF Proposing
        <4> QED BY <2>1, <2>3, <3>1, <3>5, <4>1, UntoldKept
      <3> QED BY <2>1, <3>6, <3>7, <3>8, <3>9 DEF LockInv, EntriesUnique, LiveHasLease, HolderHasID, Told
    <2> QED BY <1>13, <2>2, <2>3 DEF Fail
  <1>14. ASSUME NEW k \in Blob, Lapse(k) PROVE LockInv'
    <2>1. /\ \A j \in Blob : blob'[j].lease = blob[j].lease /\ (blob'[j].live => blob[j].live)
          /\ UNCHANGED <<mu, leaseIDs, rpc, stray, holder>>
      BY <1>14 DEF Lapse, TypeOK, BlobState
    <2>2. HolderHasID' /\ LiveHasLease' /\ UntoldProposal'
      BY <2>1 DEF LockInv, HolderHasID, Told, LiveHasLease, UntoldProposal, Proposing
    <2> QED BY <2>1, <2>2 DEF LockInv, MutexHeld, ProposalFresh, Proposing, StrayFresh,
                             EntriesUnique, ReleasingEntry, UntoldAtWork, NoIDOutsideWork
  <1>15. ASSUME NEW q \in stray, Deliver(q) PROVE LockInv'
    <2>1. /\ stray' \subseteq stray
          /\ UNCHANGED <<mu, leaseIDs, rpc>>
      BY <1>15 DEF Deliver
    <2>2. q.blob \in Blob /\ q.id \in LeaseID
      BY DEF TypeOK, Request
    <2>3. /\ HolderHasID' /\ LiveHasLease'
          /\ \A j \in Blob : holder'[j] \in {Nobody, holder[j]}
      <3>1. CASE UNCHANGED <<blob, holder>>
        BY <2>1, <3>1 DEF LockInv, HolderHasID, Told, LiveHasLease
      <3>2. CASE LeaseTo(q.blob, q.id) \/ Vacate(q.blob)
        BY <2>1, <2>2, <3>2, InvAzure, AzureHolder
      <3> QED BY <1>15, <3>1, <3>2 DEF Deliver
    <2>4. UntoldAtWork'
      <3> \A d \in Call : <<rpc[d].store, rpc[d].rid>> = Nobody =>
                           rpc[d].pc \notin {"record", "forget"}
        BY <1>0 DEF Working
      <3> QED BY <2>1, <2>3 DEF LockInv, UntoldAtWork
    <2>5. UntoldProposal'
      <3>1. \A c \in Call : (Proposing(c)' <=> Proposing(c)) /\ rpc'[c].id = rpc[c].id
        BY <2>1 DEF Proposing
      <3>2. CASE UNCHANGED <<blob, holder>>
        BY <2>1, <3>1, <3>2, UntoldKept
      <3>3. CASE LeaseTo(q.blob, q.id) \/ Vacate(q.blob)
        BY <2>1, <2>2, <3>1, <3>3, UntoldAzure
      <3> QED BY <1>15, <3>2, <3>3 DEF Deliver
    <2> QED BY <2>1, <2>3, <2>4, <2>5 DEF LockInv, MutexHeld, ProposalFresh, Proposing, StrayFresh,
                                   EntriesUnique, ReleasingEntry, NoIDOutsideWork
  <1>16. CASE UNCHANGED vars
    BY <1>16 DEF vars, LockInv, MutexHeld, ProposalFresh, Proposing, StrayFresh, EntriesUnique,
                 ReleasingEntry, UntoldAtWork, NoIDOutsideWork, LiveHasLease, HolderHasID, Told,
                 UntoldProposal
  <1> QED
    BY <1>1, <1>2, <1>3, <1>4, <1>5, <1>6, <1>7, <1>8, <1>9, <1>10, <1>11, <1>12, <1>13,
       <1>14, <1>15, <1>16 DEF Next, Enter, Answered, Resent

-----------------------------------------------------------------------------
(* Results *)

(* The strengthened invariant holds in every reachable state. *)
THEOREM Invariant == Spec => []LockInv
  BY InvInit, InvNext, TypeCorrect, PTL DEF Spec

(* However many processes lock through however many stores, at most one    *)
(* table entry is backed by the live lease of a lock blob.                 *)
THEOREM Exclusion == Spec => []MutualExclusion
  <1>1. TypeOK /\ LockInv => MutualExclusion
    <2> SUFFICES ASSUME LockInv, NEW s1 \in Store, NEW s2 \in Store,
                        NEW r1 \in ResourceID, NEW r2 \in ResourceID,
                        LockBlob[r1] = LockBlob[r2], Holds(s1, r1), Holds(s2, r2), TypeOK
                 PROVE  s1 = s2 /\ r1 = r2
      BY DEF MutualExclusion
    <2>1. LockBlob[r1] \in Blob
      BY StateLockAssumption
    <2> QED BY <2>1 DEF Holds, LockInv, EntriesUnique, LiveHasLease
  <1> QED BY <1>1, TypeCorrect, Invariant, PTL

(* Whoever was told that it holds the current lease can give it back. *)
THEOREM HolderCanRelease == Spec => []HolderHasID
  <1>1. LockInv => HolderHasID
    BY DEF LockInv
  <1> QED BY <1>1, Invariant, PTL

(* A running lease somebody was told of is ended early only by an Unlock   *)
(* of that resource on that store.                                         *)
LEMMA HolderReleasesStep ==
    ASSUME TypeOK, LockInv, [Next]_vars, NEW k \in Blob,
           Told(k), blob[k].live, blob'[k].lease # blob[k].lease
    PROVE  \/ \E c \in Call : /\ rpc[c].pc = "release"
                              /\ holder[k] = <<rpc[c].store, rpc[c].rid>>
                              /\ mu[rpc[c].store] = c
           \/ \E q \in stray : /\ q.kind = "release"
                              /\ q.blob = k
                              /\ q.id = leaseIDs[holder[k][1]][holder[k][2]]
  <1>1. /\ holder[k] \in Store \X ResourceID
        /\ LockBlob[holder[k][2]] = k
        /\ leaseIDs[holder[k][1]][holder[k][2]] = blob[k].lease
        /\ blob[k].lease # NoLease
    BY DEF TypeOK, LockInv, HolderHasID, Told
  <1>2. ASSUME NEW j \in Blob, NEW id \in LeaseID, LeaseTo(j, id), CanAcquire(j, id)
        PROVE  FALSE
    BY <1>2 DEF LeaseTo, LeasedBlob, CanAcquire, TypeOK
  <1>3. ASSUME NEW j \in Blob, Vacate(j) PROVE j = k
    BY <1>3 DEF Vacate, TypeOK
  <1>4. ASSUME NEW c \in Call, rpc[c].pc \in Working
        PROVE  /\ rpc[c].store \in Store /\ rpc[c].rid \in ResourceID
               /\ rpc[c].id \in LeaseID /\ LockBlob[rpc[c].rid] \in Blob
               /\ mu[rpc[c].store] = c
    BY <1>4, StateLockAssumption DEF TypeOK, RPCType, Working, Acquiring, LockInv, MutexHeld
  <1>5. CASE UNCHANGED blob
    BY <1>5
  <1>6. ASSUME NEW c \in Call, NEW resent \in BOOLEAN, Acquire(c, resent) PROVE FALSE
    BY <1>2, <1>4, <1>6 DEF Acquire, Working, Acquiring
  <1>7. ASSUME NEW c \in Call, NEW resent \in BOOLEAN, CreatePlaceholder(c, resent) PROVE FALSE
    <2>1. LockBlob[rpc[c].rid] \in Blob
      BY <1>4, <1>7 DEF CreatePlaceholder, Working, Acquiring
    <2>2. Vacate(LockBlob[rpc[c].rid]) /\ CanPut(LockBlob[rpc[c].rid])
      BY <1>7 DEF CreatePlaceholder
    <2> QED BY <1>3, <2>1, <2>2 DEF CanPut
  <1>8. ASSUME NEW c \in Call, NEW resent \in BOOLEAN, Release(c, resent)
        PROVE  /\ rpc[c].pc = "release"
               /\ holder[k] = <<rpc[c].store, rpc[c].rid>>
               /\ mu[rpc[c].store] = c
    <2>1. rpc[c].pc = "release" /\ rpc[c].pc \in Working
      BY <1>8 DEF Release, Working
    <2>2. Vacate(LockBlob[rpc[c].rid]) /\ CanRelease(LockBlob[rpc[c].rid], rpc[c].id)
      BY <1>8 DEF Release
    <2>3. LockBlob[rpc[c].rid] = k
      BY <1>3, <1>4, <2>1, <2>2
    <2>4. leaseIDs[rpc[c].store][rpc[c].rid] = rpc[c].id
      BY <2>1 DEF LockInv, ReleasingEntry
    <2>5. rpc[c].store = holder[k][1] /\ rpc[c].rid = holder[k][2]
      BY <1>1, <1>4, <2>1, <2>2, <2>3, <2>4 DEF CanRelease, LockInv, EntriesUnique
    <2> QED BY <1>1, <1>4, <2>1, <2>5
  <1>9. ASSUME NEW q \in stray, Deliver(q)
        PROVE  /\ q.kind = "release"
               /\ q.blob = k
               /\ q.id = leaseIDs[holder[k][1]][holder[k][2]]
    <2>1. q.blob \in Blob /\ q.id \in LeaseID
      BY DEF TypeOK, Request
    <2>2. \/ LeaseTo(q.blob, q.id) /\ CanAcquire(q.blob, q.id)
          \/ q.kind = "create" /\ Vacate(q.blob) /\ CanPut(q.blob)
          \/ q.kind = "release" /\ Vacate(q.blob) /\ CanRelease(q.blob, q.id)
      BY <1>9 DEF Deliver
    <2> QED BY <1>1, <1>2, <1>3, <2>1, <2>2 DEF CanPut, CanRelease
  <1>10. ASSUME NEW c \in Call, Answered(c) \/ Resent(c)
         PROVE  \/ UNCHANGED blob
                \/ \E resent \in BOOLEAN : \/ Acquire(c, resent)
                                         \/ CreatePlaceholder(c, resent)
                                         \/ Release(c, resent)
    BY <1>10 DEF Answered, Resent, AlreadyLocked, NotFound, Record, Forget, Fail
  <1>11. \/ UNCHANGED blob
         \/ \E c \in Call : Answered(c) \/ Resent(c)
         \/ \E j \in Blob : Lapse(j)
         \/ \E q \in stray : Deliver(q)
    BY DEF Next, vars, Configure, Crash, CallLock, CallUnlock, Begin, Enter, EnterLock, EnterUnlock
  <1>12. ASSUME NEW j \in Blob, Lapse(j) PROVE FALSE
    BY <1>12 DEF Lapse, TypeOK, BlobState
  <1> QED
    BY <1>5, <1>6, <1>7, <1>8, <1>9, <1>10, <1>11, <1>12

(* The action property that the runs check, for every value of the constants. *)
THEOREM HolderReleases == Spec => OnlyHolderReleases
  <1>1. TypeOK /\ LockInv /\ [Next]_vars =>
          [\A k \in Blob : Told(k) /\ blob[k].live
                              /\ blob'[k].lease # blob[k].lease =>
             \/ \E c \in Call : /\ rpc[c].pc = "release"
                                 /\ holder[k] = <<rpc[c].store, rpc[c].rid>>
                                 /\ mu[rpc[c].store] = c
             \/ \E q \in stray : /\ q.kind = "release"
                                 /\ q.blob = k
                                 /\ q.id = leaseIDs[holder[k][1]][holder[k][2]]]_vars
    BY HolderReleasesStep
  <1> QED BY <1>1, TypeCorrect, Invariant, PTL DEF OnlyHolderReleases, Spec

-----------------------------------------------------------------------------
(* Refinement of LeaseLock *)

Live == [k \in Blob |-> blob[k].live]

(* A grant starts a lease, or repeats one that nobody was told of. *)
LEMMA GrantTakes ==
    ASSUME TypeOK, NEW k \in Blob, NEW id \in LeaseID, LeaseTo(k, id),
           blob[k].live => holder[k] = Nobody
    PROVE  Lease!Take(k) \/ UNCHANGED <<Live, holder>>
  <1>1. blob'[k].live /\ \A j \in Blob : j # k => blob'[j] = blob[j]
    BY DEF LeaseTo, LeasedBlob, TypeOK
  <1>2. CASE ~blob[k].live
    <2>1. Live' = [Live EXCEPT ![k] = TRUE]
      BY <1>1 DEF Live, LeaseTo, LeasedBlob, TypeOK
    <2> QED BY <1>2, <2>1 DEF Lease!Take, Live, LeaseTo
  <1>3. CASE blob[k].live
    <2>1. Live' = Live
      BY <1>1, <1>3 DEF Live, TypeOK, BlobState, LeaseTo, LeasedBlob
    <2>2. holder' = holder
      BY <1>3 DEF LeaseTo, TypeOK
    <2> QED BY <2>1, <2>2
  <1> QED BY <1>2, <1>3

LEMMA VacateEnds ==
    ASSUME TypeOK, NEW k \in Blob, Vacate(k)
    PROVE  Lease!End(k)
  <1>1. Live' = [Live EXCEPT ![k] = FALSE]
    BY DEF Live, Vacate, FreeBlob, TypeOK
  <1> QED BY <1>1 DEF Lease!End, Live, Vacate

LEMMA StepRefines ==
    ASSUME TypeOK, LockInv, [Next]_vars
    PROVE  [Lease!Next]_(Lease!vars)
  <1> USE StateLockAssumption
  <1> Live = [k \in Blob |-> blob[k].live]
    BY DEF Live
  <1>1. ASSUME UNCHANGED <<blob, holder>> PROVE UNCHANGED <<Live, holder>>
    BY <1>1 DEF Live
  <1>2. ASSUME UNCHANGED <<Live, holder>> PROVE [Lease!Next]_(Lease!vars)
    BY <1>2 DEF Lease!vars, Live
  <1>3. ASSUME NEW k \in Blob, Lease!Take(k) \/ Lease!End(k) \/ Lease!Lapse(k)
        PROVE  [Lease!Next]_(Lease!vars)
    BY <1>3 DEF Lease!Next
  <1>4. ASSUME NEW c \in Call, rpc[c].pc \in Working
        PROVE  /\ rpc[c].store \in Store /\ rpc[c].rid \in ResourceID
               /\ rpc[c].id \in LeaseID /\ LockBlob[rpc[c].rid] \in Blob
    BY <1>4 DEF TypeOK, RPCType, Working, Acquiring
  <1>5. ASSUME NEW k \in Blob, NEW id \in LeaseID, LeaseTo(k, id), CanAcquire(k, id),
               holder[k] # Nobody => id # blob[k].lease
        PROVE  [Lease!Next]_(Lease!vars)
    <2>1. blob[k].live => holder[k] = Nobody
      BY <1>5 DEF CanAcquire
    <2> QED BY <1>2, <1>3, <1>5, <2>1, GrantTakes
  <1>6. ASSUME NEW k \in Blob, Vacate(k) PROVE [Lease!Next]_(Lease!vars)
    BY <1>3, <1>6, VacateEnds
  <1>7. ASSUME NEW p \in Proc, Configure(p) PROVE [Lease!Next]_(Lease!vars)
    <2> DEFINE K == {k \in Blob : holder[k] \in {NewStore} \X ResourceID}
    <2>1. UNCHANGED blob /\ holder' = [k \in Blob |-> IF k \in K THEN Gone ELSE holder[k]]
      BY <1>7 DEF Configure
    <2>2. UNCHANGED Live
      BY <2>1 DEF Live
    <2>3. \A k \in K : holder[k] \in Store \X ResourceID
      BY <1>7, NewStoreGarbage DEF Configure, Garbage
    <2>4. Lease!Abandon(K)
      BY <2>1, <2>2, <2>3 DEF Lease!Abandon, Live
    <2> QED BY <2>4 DEF Lease!Next
  <1>8. ASSUME NEW c \in Call, Record(c) PROVE [Lease!Next]_(Lease!vars)
    <2> DEFINE k == LockBlob[rpc[c].rid]  h == <<rpc[c].store, rpc[c].rid>>
    <2>1. rpc[c].pc = "record" /\ rpc[c].pc \in Working /\ Proposing(c) /\ UNCHANGED blob
      BY <1>8 DEF Record, Working, Proposing
    <2>2. k \in Blob /\ h \in Store \X ResourceID
      BY <1>4, <2>1
    <2>3. CASE blob[k].lease = rpc[c].id
      <3>1. holder[k] = Nobody
        BY <2>1, <2>2, <2>3 DEF LockInv, UntoldProposal
      <3>2. holder' = [holder EXCEPT ![k] = h]
        BY <1>8, <2>3 DEF Record
      <3>3. UNCHANGED Live
        BY <2>1 DEF Live
      <3>4. Lease!Tell(k, h)
        BY <3>1, <3>2, <3>3 DEF Lease!Tell, Live
      <3> QED BY <2>2, <3>4 DEF Lease!Next
    <2>4. CASE blob[k].lease # rpc[c].id
      <3> UNCHANGED <<blob, holder>>
        BY <1>8, <2>1, <2>4 DEF Record
      <3> QED BY <1>1, <1>2
    <2> QED BY <2>3, <2>4
  <1>9. ASSUME NEW c \in Call, NEW resent \in BOOLEAN, Acquire(c, resent)
        PROVE  [Lease!Next]_(Lease!vars)
    <2>1. rpc[c].pc \in Working /\ Proposing(c)
      BY <1>9 DEF Acquire, Working, Acquiring, Proposing
    <2>2. \A k \in Blob : holder[k] # Nobody => rpc[c].id # blob[k].lease
      BY <2>1 DEF LockInv, UntoldProposal
    <2> QED BY <1>4, <1>5, <1>9, <2>1, <2>2 DEF Acquire
  <1>10. ASSUME NEW c \in Call, NEW resent \in BOOLEAN,
                CreatePlaceholder(c, resent) \/ Release(c, resent)
         PROVE  [Lease!Next]_(Lease!vars)
    <2>1. rpc[c].pc \in Working
      BY <1>10 DEF CreatePlaceholder, Release, Working, Acquiring
    <2>2. Vacate(LockBlob[rpc[c].rid]) \/ UNCHANGED <<blob, holder>>
      BY <1>10 DEF CreatePlaceholder, Release
    <2> QED BY <1>1, <1>2, <1>4, <1>6, <2>1, <2>2
  <1>11. ASSUME NEW k \in Blob, Lapse(k) PROVE [Lease!Next]_(Lease!vars)
    <2>1. Live' = [Live EXCEPT ![k] = FALSE]
      BY <1>11 DEF Lapse, Live, TypeOK, BlobState
    <2>2. Lease!Lapse(k)
      BY <1>11, <2>1 DEF Lapse, Lease!Lapse, Live
    <2> QED BY <1>3, <2>2
  <1>12. ASSUME NEW q \in stray, Deliver(q) PROVE [Lease!Next]_(Lease!vars)
    <2>1. q.blob \in Blob /\ q.id \in LeaseID
      BY DEF TypeOK, Request
    <2>2. CASE q.kind \in {"acquire", "reacquire"} /\ LeaseTo(q.blob, q.id) /\ CanAcquire(q.blob, q.id)
      <3> holder[q.blob] # Nobody => q.id # blob[q.blob].lease
        BY <2>1, <2>2 DEF LockInv, UntoldProposal, Acquiring
      <3> QED BY <1>5, <2>1, <2>2
    <2>3. CASE Vacate(q.blob)
      BY <1>6, <2>1, <2>3
    <2>4. CASE UNCHANGED <<blob, holder>>
      BY <1>1, <1>2, <2>4
    <2> QED BY <1>12, <2>2, <2>3, <2>4 DEF Deliver
  <1>13. CASE UNCHANGED <<blob, holder>>
    BY <1>1, <1>2, <1>13
  <1>14. ASSUME NEW c \in Call, Answered(c) \/ Resent(c)
         PROVE  \/ UNCHANGED <<blob, holder>>
                \/ Record(c)
                \/ \E resent \in BOOLEAN : \/ Acquire(c, resent)
                                         \/ CreatePlaceholder(c, resent)
                                         \/ Release(c, resent)
    BY <1>14 DEF Answered, Resent, AlreadyLocked, NotFound, Forget, Fail
  <1>15. \/ UNCHANGED <<blob, holder>>
         \/ \E p \in Proc : Configure(p)
         \/ \E c \in Call : Answered(c) \/ Resent(c)
         \/ \E k \in Blob : Lapse(k)
         \/ \E q \in stray : Deliver(q)
    BY DEF Next, vars, Crash, CallLock, CallUnlock, Begin, Enter, EnterLock, EnterUnlock
  <1> QED
    BY <1>7, <1>8, <1>9, <1>10, <1>11, <1>12, <1>13, <1>14, <1>15

(* StateLock implements LeaseLock: every step takes, tells, ends or loses  *)
(* a lease the way the abstract lock allows, or changes nothing there.     *)
THEOREM Refinement == Spec => ImplementsLeaseLock
  <1>1. Init => Lease!Init
    BY DEF Init, Lease!Init, AbsentBlob
  <1>2. TypeOK /\ LockInv /\ [Next]_vars => [Lease!Next]_(Lease!vars)
    BY StepRefines
  <1> QED
    BY <1>1, <1>2, TypeCorrect, Invariant, PTL DEF Spec, ImplementsLeaseLock, Lease!Spec

=============================================================================
