---------------------------- MODULE StateBackend ----------------------------
(***************************************************************************)
(* The two halves of the iac.state backend at work together: sessions of   *)
(* the host lock a resource, read its record, write it and unlock. The     *)
(* lock is the one StateLock implements, the store that of StateStore;     *)
(* nothing but the host's discipline ties one to the other.                *)
(*                                                                         *)
(* Session c makes its requests as call c of StateStore.                   *)
(***************************************************************************)
EXTENDS StateStore

CONSTANTS Target,    \* Target[c]: the resource id session c works on
          LockName,  \* lock blobs
          LockBlob,  \* LockBlob[r]: the lock blob of a resource id
          Store,     \* store objects
          StoreOf,   \* StoreOf[c]: the store that serves session c
          Nobody, Gone \* as in LeaseLock

ASSUME StateBackendAssumption ==
    /\ Target \in [Call -> ResourceID]
    /\ LockBlob \in [ResourceID -> LockName]
    /\ StoreOf \in [Call -> Store]
    /\ Nobody \notin Store \X ResourceID /\ Nobody # Gone
    \* blobName and lockBlobName both go through sanitizeID
    /\ \A r1, r2 \in ResourceID : StateBlob[r1] = StateBlob[r2] <=> LockBlob[r1] = LockBlob[r2]

VARIABLES live, holder,  \* the variables of LeaseLock
          at,            \* at[c]: where session c is
          owns,          \* auxiliary: sessions told of the lease as it stands
          current        \* auxiliary: sessions whose record no other session replaced

lockVars == <<live, holder>>
vars == <<storeVars, lockVars, at, owns, current>>

Holder == Store \X ResourceID
Lease == INSTANCE LeaseLock WITH Lock <- LockName

LockOf(c)   == LockBlob[Target[c]]
HolderOf(c) == <<StoreOf[c], Target[c]>>
Sharing(c)  == {d \in Call : StateBlob[Target[d]] = StateBlob[Target[c]]}
Owns(c)     == c \in owns /\ live[LockOf(c)]

Init == /\ InitStore /\ Lease!Init
        /\ at = [c \in Call |-> "out"]
        /\ owns = {}
        /\ current = {}

MoveTo(c, where) == at' = [at EXCEPT ![c] = where]

-----------------------------------------------------------------------------
(* The lock. A lease that ends or is taken anew is nobody's any more.      *)

Disown(k) == owns' = {c \in owns : LockOf(c) # k}

LockMoves == /\ \/ \E k \in LockName : \/ Lease!Take(k) /\ Disown(k)
                                       \/ Lease!End(k) /\ Disown(k)
                                       \/ Lease!Lapse(k) /\ UNCHANGED owns
                \/ \E K \in SUBSET LockName : Lease!Abandon(K) /\ UNCHANGED owns
             /\ UNCHANGED <<storeVars, at, current>>

CallLock(c) == /\ at[c] = "out"
               /\ MoveTo(c, "locking")
               /\ UNCHANGED <<storeVars, lockVars, owns, current>>

(* Fault: one that finds the resource locked is told that it has the lock. *)
LockedAnyway(c) ==
    /\ at[c] = "locking"
    /\ MoveTo(c, "in")
    /\ owns' = owns \union {c}
    /\ UNCHANGED <<storeVars, lockVars, current>>

(* The success of Lock, when the lease is still the one that was granted,  *)
Locked(c) == /\ at[c] = "locking"
             /\ MoveTo(c, "in")
             /\ Lease!Tell(LockOf(c), HolderOf(c))
             /\ owns' = owns \union {c}
             /\ UNCHANGED <<storeVars, current>>

(* and when it has lapsed before the success was reported.                 *)
LockedLate(c) == /\ at[c] = "locking"
                 /\ MoveTo(c, "in")
                 /\ UNCHANGED <<storeVars, lockVars, owns, current>>

NotLocked(c) == /\ at[c] = "locking"
                /\ MoveTo(c, "out")
                /\ UNCHANGED <<storeVars, lockVars, owns, current>>

CallUnlock(c) == /\ at[c] \in {"in", "have", "saved"} /\ rpc[c].pc = "idle"
                 /\ MoveTo(c, "unlocking")
                 /\ current' = current \ {c}
                 /\ UNCHANGED <<storeVars, lockVars, owns>>

(* Unlock ends the lease that its store has for the resource, also one     *)
(* that another session of that store was granted meanwhile.               *)
Unlocked(c) == /\ at[c] = "unlocking"
               /\ MoveTo(c, "out")
               /\ \/ /\ holder[LockOf(c)] = HolderOf(c)
                     /\ Lease!End(LockOf(c))
                     /\ Disown(LockOf(c))
                  \/ owns' = owns \ {c} /\ UNCHANGED lockVars
               /\ UNCHANGED <<storeVars, current>>

-----------------------------------------------------------------------------
(* The store, as the host uses it between Lock and Unlock.                 *)

CallRead(c) == /\ at[c] = "in"
               /\ CallGet(c, Target[c])
               /\ UNCHANGED <<lockVars, at, owns, current>>

Read(c) == /\ \/ Get(c) /\ current' = current \union {c}
              \/ GetFailed(c) /\ UNCHANGED current
           /\ UNCHANGED <<lockVars, at, owns>>

CallWrite(c) == /\ at[c] = "have"
                /\ \/ \E status \in Status : CallSave(c, [rid |-> Target[c], status |-> status])
                   \/ CallDelete(c, Target[c])
                /\ UNCHANGED <<lockVars, at, owns, current>>

(* A write under a live lease makes every other reader of the blob stale.  *)
Write(c, resent) == /\ Save(c, resent) \/ Delete(c, resent)
                    /\ current' = IF Owns(c) THEN current \ (Sharing(c) \ {c}) ELSE current
                    /\ UNCHANGED <<lockVars, at, owns>>

WriteLost(c) == WriteFailed(c) /\ UNCHANGED <<lockVars, at, owns, current>>

Arrive(q) == Deliver(q) /\ UNCHANGED <<lockVars, at, owns, current>>

(* With an error in hand the session goes no further.                      *)
Answered(c) == /\ End(c)
               /\ MoveTo(c, IF at[c] = "in" /\ rpc[c].answer # "error" THEN "have" ELSE "saved")
               /\ UNCHANGED <<lockVars, owns, current>>

-----------------------------------------------------------------------------

Next == \/ LockMoves
        \/ \E c \in Call : \/ CallLock(c) \/ Locked(c) \/ LockedLate(c) \/ NotLocked(c)
                           \/ CallUnlock(c) \/ Unlocked(c)
                           \/ CallRead(c) \/ Read(c) \/ CallWrite(c) \/ WriteLost(c) \/ Answered(c)
                           \/ \E resent \in BOOLEAN : Write(c, resent)
        \/ \E q \in late : Arrive(q)

Spec == Init /\ [][Next]_vars

-----------------------------------------------------------------------------
(* Properties *)

(* No lost update under live leases: a session that has read a record and  *)
(* whose lease still runs writes over the very record it read, unless the  *)
(* store was written by somebody who had no live lease: a session that      *)
(* outlived its lease or lost it to another's Unlock, or a late upload.     *)
(* Two ids that share a state blob share a lock blob, and no lease is      *)
(* granted to two.                                                         *)
NoLostUpdate ==
    \A c \in Call : at[c] = "have" /\ Owns(c) => c \in current

(* What makes it inductive: a lease that a session owns was told of, once; *)
(* a session between two requests has no request open; and its record is   *)
(* current from the moment it was read.                                    *)
AtRest ==
    \A c \in Call : /\ at[c] \in {"out", "locking", "unlocking"} => rpc[c].pc = "idle"
                    /\ rpc[c].pc \in {"save", "delete"} => at[c] = "have"

ToldOnce ==
    /\ \A c \in owns : holder[LockOf(c)] # Nobody
    /\ \A c, d \in owns : LockOf(c) = LockOf(d) => c = d

ReadIsCurrent ==
    \A c \in owns : \/ at[c] = "have"
                    \/ at[c] = "in" /\ rpc[c].pc = "answered" /\ rpc[c].answer # "error"
                    => c \in current

SessionInv == AtRest /\ ToldOnce /\ ReadIsCurrent

=============================================================================
