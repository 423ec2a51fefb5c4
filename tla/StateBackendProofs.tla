------------------------- MODULE StateBackendProofs -------------------------
(***************************************************************************)
(* The composition of lock and store, for any number of sessions, stores   *)
(* and resource ids: no lost update under live leases.                     *)
(***************************************************************************)
EXTENDS StateBackend, TLAPS

(* The part of StateStore's types that the argument needs.                 *)
Shape == /\ DOMAIN rpc = Call /\ DOMAIN at = Call /\ DOMAIN holder = LockName
         /\ owns \subseteq Call
IInv == Shape /\ SessionInv

LEMMA InvInit == Init => IInv
  BY DEF Init, InitStore, Lease!Init, IInv, Shape, SessionInv, AtRest, ToldOnce, ReadIsCurrent, IdleCall

LEMMA LockNames == \A c \in Call : LockOf(c) \in LockName
  BY StateBackendAssumption DEF LockOf

(* A step of session c that only moves c keeps what holds of the others.   *)
LEMMA OneMoves ==
    ASSUME IInv, NEW c \in Call,
           DOMAIN at' = Call /\ \A d \in Call : d # c => at'[d] = at[d],
           DOMAIN rpc' = Call /\ \A d \in Call : d # c => rpc'[d] = rpc[d],
           UNCHANGED lockVars,
           owns' \subseteq owns,
           current \ {c} \subseteq current',
           at'[c] \in {"out", "locking", "unlocking"} => rpc'[c].pc = "idle",
           rpc'[c].pc \in {"save", "delete"} => at'[c] = "have",
           c \in owns' =>
             (\/ at'[c] = "have"
              \/ at'[c] = "in" /\ rpc'[c].pc = "answered" /\ rpc'[c].answer # "error"
              => c \in current')
    PROVE  IInv'
  <1>1. Shape'
    BY DEF IInv, Shape, lockVars
  <1>2. AtRest'
    BY DEF IInv, SessionInv, AtRest
  <1>3. ToldOnce'
    BY DEF IInv, SessionInv, ToldOnce, lockVars, LockOf
  <1>4. ReadIsCurrent'
    BY DEF IInv, Shape, SessionInv, ReadIsCurrent
  <1> QED BY <1>1, <1>2, <1>3, <1>4 DEF IInv, SessionInv

(* A lease that begins or ends has no owner.                               *)
LEMMA DisownKeeps ==
    ASSUME IInv, NEW k \in LockName, Disown(k),
           DOMAIN holder' = LockName,
           \A j \in LockName : j # k => holder'[j] = holder[j],
           DOMAIN at' = Call /\ \A d \in Call : at'[d] = at[d] \/ at'[d] = "out",
           \A d \in Call : at'[d] = "out" => rpc[d].pc = "idle",
           UNCHANGED <<storeVars, current>>
    PROVE  IInv'
  <1>1. owns' \subseteq owns /\ \A c \in owns' : LockOf(c) # k
    BY DEF Disown
  <1>2. Shape'
    BY <1>1 DEF IInv, Shape, storeVars
  <1>3. AtRest'
    BY DEF IInv, SessionInv, AtRest, storeVars
  <1>4. ToldOnce'
    BY <1>1, LockNames DEF IInv, Shape, SessionInv, ToldOnce, LockOf
  <1>5. ReadIsCurrent'
    BY <1>1 DEF IInv, Shape, SessionInv, ReadIsCurrent, storeVars
  <1> QED BY <1>2, <1>3, <1>4, <1>5 DEF IInv, SessionInv

LEMMA InvNext == IInv /\ [Next]_vars => IInv'
  <1> SUFFICES ASSUME IInv, [Next]_vars PROVE IInv'
    OBVIOUS
  <1> USE DEF lockVars, storeVars
  <1>1. CASE LockMoves
    <2>1. ASSUME NEW k \in LockName, Lease!Take(k) \/ Lease!End(k), Disown(k)
          PROVE  IInv'
      BY <1>1, <2>1, DisownKeeps DEF LockMoves, Lease!Take, Lease!End, IInv, Shape, SessionInv, AtRest
    <2>2. ASSUME NEW k \in LockName, Lease!Lapse(k), UNCHANGED owns
          PROVE  IInv'
      BY <1>1, <2>2 DEF LockMoves, Lease!Lapse, IInv, Shape, SessionInv, AtRest, ToldOnce,
                        ReadIsCurrent, LockOf
    <2>3. ASSUME NEW K \in SUBSET LockName, Lease!Abandon(K), UNCHANGED owns
          PROVE  IInv'
      BY <1>1, <2>3, LockNames, StateBackendAssumption
         DEF LockMoves, Lease!Abandon, IInv, Shape, SessionInv, AtRest, ToldOnce,
             ReadIsCurrent, LockOf
    <2> QED BY <1>1, <2>1, <2>2, <2>3 DEF LockMoves
  <1>2. ASSUME NEW c \in Call, CallLock(c) \/ LockedLate(c) \/ NotLocked(c)
        PROVE  IInv'
    <2> rpc[c].pc = "idle"
      BY <1>2 DEF CallLock, LockedLate, NotLocked, IInv, SessionInv, AtRest
    <2> QED BY <1>2, OneMoves DEF CallLock, LockedLate, NotLocked, MoveTo, IInv, Shape
  <1>3. ASSUME NEW c \in Call, Locked(c) PROVE IInv'
    <2>1. /\ at[c] = "locking" /\ rpc[c].pc = "idle" /\ at' = [at EXCEPT ![c] = "in"]
          /\ holder[LockOf(c)] = Nobody
          /\ holder' = [holder EXCEPT ![LockOf(c)] = HolderOf(c)]
          /\ owns' = owns \union {c} /\ UNCHANGED <<rpc, current>>
      BY <1>3 DEF Locked, MoveTo, Lease!Tell, IInv, SessionInv, AtRest
    <2>2. HolderOf(c) # Nobody
      BY StateBackendAssumption DEF HolderOf
    <2>3. Shape'
      BY <2>1 DEF IInv, Shape
    <2>4. AtRest'
      BY <2>1 DEF IInv, Shape, SessionInv, AtRest
    <2>5. ToldOnce'
      BY <2>1, <2>2, LockNames DEF IInv, Shape, SessionInv, ToldOnce, LockOf
    <2>6. ReadIsCurrent'
      BY <2>1 DEF IInv, Shape, SessionInv, ReadIsCurrent
    <2> QED BY <2>3, <2>4, <2>5, <2>6 DEF IInv, SessionInv
  <1>4. ASSUME NEW c \in Call, CallUnlock(c) PROVE IInv'
    BY <1>4, OneMoves DEF CallUnlock, MoveTo, IInv, Shape
  <1>5. ASSUME NEW c \in Call, Unlocked(c) PROVE IInv'
    <2>1. /\ at[c] = "unlocking" /\ rpc[c].pc = "idle" /\ at' = [at EXCEPT ![c] = "out"]
          /\ UNCHANGED <<rpc, current>>
      BY <1>5 DEF Unlocked, MoveTo, IInv, SessionInv, AtRest
    <2>2. CASE Lease!End(LockOf(c)) /\ Disown(LockOf(c))
      BY <1>5, <2>1, <2>2, LockNames, DisownKeeps
         DEF Unlocked, Lease!End, IInv, Shape, SessionInv, AtRest
    <2>3. CASE owns' = owns \ {c} /\ UNCHANGED lockVars
      BY <2>1, <2>3, OneMoves DEF IInv, Shape
    <2> QED BY <1>5, <2>2, <2>3 DEF Unlocked
  <1>6. ASSUME NEW c \in Call, CallRead(c) PROVE IInv'
    BY <1>6, OneMoves DEF CallRead, CallGet, Begin, IdleCall, IInv, Shape
  <1>7. ASSUME NEW c \in Call, Read(c) PROVE IInv'
    <2>1. /\ rpc[c].pc = "get" /\ DOMAIN rpc' = Call /\ rpc'[c].pc = "answered"
          /\ \A d \in Call : d # c => rpc'[d] = rpc[d]
          /\ UNCHANGED <<lockVars, at, owns>>
      BY <1>7 DEF Read, Get, GetFailed, Reply, IInv, Shape
    <2>2. /\ current \subseteq current'
          /\ c \in current' \/ rpc'[c].answer = "error"
      BY <1>7 DEF Read, Get, GetFailed, Reply, IInv, Shape
    <2>3. at[c] \notin {"out", "locking", "unlocking"}
      BY <2>1 DEF IInv, SessionInv, AtRest
    <2>4. c \in owns /\ at[c] = "have" => c \in current
      BY DEF IInv, SessionInv, ReadIsCurrent
    <2> QED BY <2>1, <2>2, <2>3, <2>4, OneMoves DEF IInv, Shape
  <1>8. ASSUME NEW c \in Call, CallWrite(c) PROVE IInv'
    <2>1. c \in owns => c \in current
      BY <1>8 DEF CallWrite, IInv, SessionInv, ReadIsCurrent
    <2> QED BY <1>8, <2>1, OneMoves DEF CallWrite, CallSave, CallDelete, Begin, IdleCall, IInv, Shape
  <1>9. ASSUME NEW c \in Call, NEW resent \in BOOLEAN, Write(c, resent) PROVE IInv'
    <2>1. /\ rpc[c].pc \in {"save", "delete"} /\ DOMAIN rpc' = Call
          /\ \A d \in Call : d # c => rpc'[d] = rpc[d]
          /\ rpc'[c].pc \in {"save", "delete", "answered"}
          /\ UNCHANGED <<lockVars, at, owns>>
      BY <1>9 DEF Write, Save, Delete, Reply, IInv, Shape
    <2>2. \A d \in owns : d \in current => d \in current'
      <3> SUFFICES ASSUME NEW d \in owns, d \in current, d \notin current' PROVE FALSE
        OBVIOUS
      <3>1. Owns(c) /\ d \in Sharing(c) /\ d # c
        BY <1>9 DEF Write
      <3>2. LockOf(d) = LockOf(c)
        BY <3>1, StateBackendAssumption DEF Sharing, LockOf
      <3> QED BY <3>1, <3>2 DEF Owns, IInv, SessionInv, ToldOnce
    <2>3. Shape'
      BY <2>1 DEF IInv, Shape
    <2>4. AtRest'
      BY <2>1 DEF IInv, SessionInv, AtRest
    <2>5. ToldOnce'
      BY <2>1 DEF IInv, SessionInv, ToldOnce, LockOf
    <2>6. ReadIsCurrent'
      <3> at[c] = "have"
        BY <2>1 DEF IInv, SessionInv, AtRest
      <3> QED BY <2>1, <2>2 DEF IInv, Shape, SessionInv, ReadIsCurrent
    <2> QED BY <2>3, <2>4, <2>5, <2>6 DEF IInv, SessionInv
  <1>10. ASSUME NEW c \in Call, WriteLost(c) PROVE IInv'
    BY <1>10, OneMoves DEF WriteLost, WriteFailed, Reply, IInv, Shape, SessionInv, AtRest, ReadIsCurrent
  <1>11. ASSUME NEW c \in Call, Answered(c) PROVE IInv'
    BY <1>11, OneMoves DEF Answered, End, MoveTo, IdleCall, IInv, Shape, SessionInv, ReadIsCurrent
  <1>12. ASSUME NEW q \in late, Arrive(q) PROVE IInv'
    BY <1>12 DEF Arrive, Deliver, IInv, Shape, SessionInv, AtRest, ToldOnce, ReadIsCurrent, LockOf
  <1>13. CASE UNCHANGED vars
    BY <1>13 DEF vars, IInv, Shape, SessionInv, AtRest, ToldOnce, ReadIsCurrent, LockOf
  <1> QED BY <1>1, <1>2, <1>3, <1>4, <1>5, <1>6, <1>7, <1>8, <1>9, <1>10, <1>11, <1>12, <1>13
          DEF Next

(* A session whose lease runs has read the record that is stored, unless   *)
(* the store was written by somebody without a live lease.                 *)
THEOREM NoUpdateLost == Spec => []NoLostUpdate
  <1>1. IInv => NoLostUpdate
    BY DEF IInv, SessionInv, ReadIsCurrent, NoLostUpdate, Owns
  <1> QED BY InvInit, InvNext, <1>1, PTL DEF Spec

=============================================================================
