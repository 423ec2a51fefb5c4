--------------------------- MODULE ProviderProofs ---------------------------
(***************************************************************************)
(* The provider under concurrent RPCs, for any number of calls and         *)
(* configurations: snapshots are whole and scans see one set of drivers.   *)
(***************************************************************************)
EXTENDS Provider, TLAPS

CallState == [pc : {"idle", "rlock", "rwait", "reading", "copying", "using", "lock",
                    "announced", "identity", "clients", "closing"},
              kind : {"none", "initialize", "close", "scan", "driver", "snapshot"},
              config : Setting, left : 0..MaxRefs,
              copy : Fields, used : SUBSET Setting, entry : Fields]

LEMMA TypeUnfolded ==
    TypeOK <=> /\ fields \in Fields /\ writer \in Call \union {NoCall}
               /\ readers \subseteq Call /\ rpc \in [Call -> CallState]
  BY DEF TypeOK, CallState

LEMMA IdleTyped == IdleRPC \in CallState /\ New \in Fields /\ NoConfig \in Setting
  <1>1. NoConfig \in Setting /\ New \in Fields
    BY DEF Setting, New, Fields
  <1>2. 0 \in 0..MaxRefs
    BY ProviderAssumption
  <1> QED BY <1>1, <1>2 DEF IdleRPC, CallState

LEMMA InvInit == Init => ProviderInv
  <1> SUFFICES ASSUME Init PROVE ProviderInv
    OBVIOUS
  <1>1. TypeOK
    BY IdleTyped, TypeUnfolded DEF Init
  <1>2. \A c \in Call : rpc[c] = IdleRPC
    BY DEF Init
  <1>3. Exclusive /\ Frozen /\ Partial /\ AtomicSnapshot /\ OneGeneration
    BY <1>2 DEF Init, IdleRPC, Exclusive, Frozen, Partial, AtomicSnapshot, OneGeneration, Inside, Held
  <1> QED BY <1>1, <1>3 DEF ProviderInv

(* What has to hold of every call after a step.                            *)
CallInv(c) ==
    /\ rpc[c].pc \in {"announced"} \union Inside => writer = c
    /\ rpc[c].pc \in Inside => readers = {}
    /\ c \in readers <=> rpc[c].pc \in Held
    /\ rpc[c].pc \in Held => rpc[c].entry = fields
    /\ rpc[c].pc = "copying" => rpc[c].copy = fields
    /\ rpc[c].used # {} => rpc[c].pc = "reading" /\ rpc[c].kind = "scan"
    /\ rpc[c].pc = "using" => \A f \in Copied(c) : rpc[c].copy[f] = rpc[c].entry[f]
    /\ rpc[c].used \subseteq {rpc[c].entry.drivers}

LEMMA PerCall == ProviderInv <=> TypeOK /\ \A c \in Call : CallInv(c)
  BY DEF ProviderInv, Exclusive, Frozen, Partial, AtomicSnapshot, OneGeneration, CallInv

(* A step of call c that leaves the lock's writer and the fields alone and *)
(* adds or removes at most c among the readers.                            *)
LEMMA OneMoves ==
    ASSUME ProviderInv, NEW c \in Call, NEW r \in CallState,
           rpc' = [rpc EXCEPT ![c] = r],
           UNCHANGED <<fields, writer>>,
           readers' \subseteq Call, readers' \ {c} = readers \ {c},
           c \in readers' => c \in readers \/ writer = NoCall,
           CallInv(c)'
    PROVE  ProviderInv'
  <1>1. rpc \in [Call -> CallState] /\ TypeOK
    BY TypeUnfolded DEF ProviderInv
  <1>2. TypeOK'
    BY <1>1 DEF TypeOK, CallState
  <1>3. ASSUME NEW d \in Call PROVE CallInv(d)'
    <2>1. CASE d = c
      BY <2>1
    <2>2. CASE d # c
      <3>1. rpc'[d] = rpc[d] /\ CallInv(d) /\ (d \in readers' <=> d \in readers)
        BY <1>1, <2>2, PerCall
      <3>2. rpc[d].pc \in Inside => readers' = {}
        BY <3>1, ProviderAssumption DEF CallInv
      <3> QED BY <3>1, <3>2 DEF CallInv, Copied
    <2> QED BY <2>1, <2>2
  <1> QED BY <1>2, <1>3 DEF ProviderInv, Exclusive, Frozen, Partial, AtomicSnapshot,
                           OneGeneration, CallInv, Copied

(* The end of a write: everybody who waits enters and sees what it left.   *)
LEMMA UnlockKeeps ==
    ASSUME ProviderInv, NEW c \in Call, rpc[c].pc \in Inside, Unlock(c), fields' \in Fields
    PROVE  ProviderInv'
  <1> DEFINE waiting == {d \in Call : rpc[d].pc = "rwait"}
  <1>1. rpc \in [Call -> CallState] /\ readers = {} /\ writer' = NoCall /\ readers' = waiting
    BY TypeUnfolded DEF ProviderInv, Exclusive, Unlock
  <1>2. rpc' = [d \in Call |-> IF d = c THEN IdleRPC
                               ELSE IF d \in waiting
                               THEN [rpc[d] EXCEPT !.pc = "reading", !.entry = fields']
                               ELSE rpc[d]]
    BY DEF Unlock
  <1>3. ASSUME NEW d \in Call PROVE rpc'[d] \in CallState /\ CallInv(d)'
    <2>1. CallInv(d) /\ rpc[d] \in CallState /\ c # NoCall
      BY <1>1, PerCall, ProviderAssumption
    <2>2. CASE d = c
      <3>1. rpc'[d] = IdleRPC /\ d \notin readers'
        BY <1>1, <1>2, <2>2 DEF Inside
      <3> QED BY <3>1, IdleTyped DEF CallInv, IdleRPC, Inside, Held
    <2>3. CASE d # c /\ d \in waiting
      <3>1. rpc'[d] = [rpc[d] EXCEPT !.pc = "reading", !.entry = fields'] /\ d \in readers'
        BY <1>1, <1>2, <2>3
      <3>2. rpc[d].pc = "rwait" /\ rpc[d].used = {}
        BY <2>1, <2>3 DEF CallInv, Held
      <3>3. rpc'[d] \in CallState
        BY <2>1, <3>1 DEF CallState
      <3>4. rpc'[d].pc = "reading" /\ rpc'[d].entry = fields' /\ rpc'[d].used = {}
        BY <2>1, <3>1, <3>2 DEF CallState
      <3> QED BY <3>1, <3>3, <3>4 DEF CallInv, Inside, Held
    <2>4. CASE d # c /\ d \notin waiting
      <3>1. rpc'[d] = rpc[d] /\ d \notin readers /\ d \notin readers'
        BY <1>1, <1>2, <2>4
      <3>2. rpc[d].pc \notin {"announced"} \union Inside
        <4>1. writer = c
          BY PerCall DEF CallInv
        <4> QED BY <2>1, <2>4, <4>1 DEF CallInv
      <3> QED BY <2>1, <3>1, <3>2 DEF CallInv, Copied, Held
    <2> QED BY <2>2, <2>3, <2>4
  <1>4. TypeOK'
    <2>1. rpc' \in [Call -> CallState]
      BY <1>2, <1>3
    <2> QED BY <1>1, <2>1 DEF TypeOK, CallState
  <1> QED BY <1>3, <1>4 DEF ProviderInv, Exclusive, Frozen, Partial, AtomicSnapshot,
                            OneGeneration, CallInv, Copied

(* While a writer is inside nobody reads, so it may change the fields.     *)
LEMMA AssignKeeps ==
    ASSUME ProviderInv, NEW c \in Call, AssignIdentity(c)
    PROVE  ProviderInv'
  <1>1. rpc \in [Call -> CallState] /\ fields \in Fields /\ rpc[c].pc \in Inside /\ readers = {}
    BY TypeUnfolded DEF ProviderInv, Exclusive, AssignIdentity, Inside
  <1>2. rpc[c].config \in Setting
    BY <1>1 DEF CallState
  <1>3. fields' \in Fields
    BY <1>1, <1>2 DEF AssignIdentity, Fields
  <1>4. rpc' = [rpc EXCEPT ![c] = [rpc[c] EXCEPT !.pc = "clients"]] /\ rpc'[c].pc = "clients"
    BY <1>1 DEF AssignIdentity, Goto, CallState
  <1>5. TypeOK'
    <2>1. rpc' \in [Call -> CallState]
      BY <1>1, <1>4 DEF CallState
    <2> QED BY <1>3, <2>1 DEF ProviderInv, TypeOK, CallState, AssignIdentity
  <1>6. ASSUME NEW d \in Call PROVE CallInv(d)'
    <2>1. CallInv(d) /\ writer' = writer /\ readers' = readers /\ CallInv(c)
      BY PerCall DEF AssignIdentity
    <2>2. CASE d = c
      <3>1. /\ rpc'[d].used = rpc[d].used /\ rpc'[d].entry = rpc[d].entry
            /\ rpc[d].pc = "identity" /\ rpc'[d].pc = "clients"
        BY <1>1, <1>4, <2>2 DEF CallState, AssignIdentity
      <3> QED BY <2>1, <2>2, <3>1 DEF CallInv, Inside, Held
    <2>3. CASE d # c
      <3>1. rpc'[d] = rpc[d] /\ rpc[d].pc \notin Held
        BY <1>1, <1>4, <2>1, <2>3 DEF CallInv
      <3> QED BY <2>1, <3>1 DEF CallInv, Copied, Held
    <2> QED BY <2>2, <2>3
  <1> QED BY <1>5, <1>6 DEF ProviderInv, Exclusive, Frozen, Partial, AtomicSnapshot,
                            OneGeneration, CallInv, Copied

(* Steps that move one call and leave fields and writer as they are.       *)
LEMMA MoveKeeps ==
    ASSUME ProviderInv, NEW c \in Call,
           Arrive(c) \/ RLock(c) \/ LookUp(c) \/ LeaveScan(c) \/ CopyDriver(c)
           \/ CopyClients(c) \/ CopyIdentity(c) \/ Use(c)
    PROVE  ProviderInv'
  <1> DEFINE Step(r) == rpc' = [rpc EXCEPT ![c] = r]
  <1>1. /\ rpc \in [Call -> CallState] /\ rpc[c] \in CallState
        /\ fields \in Fields /\ readers \subseteq Call /\ CallInv(c)
    BY TypeUnfolded, PerCall DEF ProviderInv
  <1>2. ASSUME NEW kind \in {"initialize", "close", "scan", "driver", "snapshot"},
               NEW pc \in {"lock", "rlock"}, NEW config \in Setting, NEW n \in 0..MaxRefs,
               Begin(c, kind, pc, config, n)
        PROVE  ProviderInv'
    <2> DEFINE r == [IdleRPC EXCEPT !.pc = pc, !.kind = kind, !.config = config, !.left = n]
    <2>1. r \in CallState /\ r.pc = pc /\ r.used = {}
      BY IdleTyped DEF IdleRPC, CallState
    <2>2. Step(r) /\ rpc'[c] = r
      BY <1>1, <1>2 DEF Begin
    <2>3. CallInv(c)'
      BY <1>1, <1>2, <2>1, <2>2 DEF Begin, CallInv, Inside, Held
    <2> QED BY <1>1, <1>2, <2>1, <2>2, <2>3, OneMoves DEF Begin
  <1>3. CASE Arrive(c)
    <2>1. 0 \in 0..MaxRefs /\ 1..MaxRefs \subseteq 0..MaxRefs /\ NoConfig \in Setting
          /\ Config \subseteq Setting
      BY ProviderAssumption DEF Setting
    <2> QED BY <1>2, <1>3, <2>1 DEF Arrive, CallInitialize, CallScan, CallClose, CallDriver,
                                    CallSnapshot, CallPlan
  <1>4. CASE RLock(c)
    <2>1. CASE writer = NoCall
      <3> DEFINE r == [rpc[c] EXCEPT !.pc = "reading", !.entry = fields]
      <3>1. r \in CallState /\ r.pc = "reading" /\ r.used = {} /\ r.entry = fields
        BY <1>1, <1>4 DEF CallState, RLock, CallInv, Held
      <3>2. Step(r) /\ rpc'[c] = r /\ readers' = readers \union {c}
        BY <1>1, <1>4, <2>1 DEF RLock
      <3>3. CallInv(c)'
        BY <1>4, <3>1, <3>2 DEF RLock, CallInv, Inside, Held
      <3> QED BY <1>1, <1>4, <2>1, <3>1, <3>2, <3>3, OneMoves DEF RLock
    <2>2. CASE writer # NoCall
      <3> DEFINE r == [rpc[c] EXCEPT !.pc = "rwait"]
      <3>1. r \in CallState /\ r.pc = "rwait" /\ r.used = {}
        BY <1>1, <1>4 DEF CallState, RLock, CallInv, Held
      <3>2. Step(r) /\ rpc'[c] = r /\ readers' = readers /\ c \notin readers
        BY <1>1, <1>4, <2>2 DEF RLock, Goto, CallInv, Held
      <3>3. CallInv(c)'
        BY <3>1, <3>2 DEF CallInv, Inside, Held
      <3> QED BY <1>1, <1>4, <3>1, <3>2, <3>3, OneMoves DEF RLock
    <2> QED BY <2>1, <2>2
  <1>5. CASE LookUp(c)
    <2> DEFINE r == [rpc[c] EXCEPT !.left = @ - 1, !.used = @ \union {fields.drivers}]
    <2>1. rpc[c].left - 1 \in 0..MaxRefs
      BY <1>1, <1>5, ProviderAssumption DEF LookUp, CallState
    <2>2. r \in CallState /\ r.pc = "reading" /\ r.entry = fields /\ r.used = {fields.drivers}
      BY <1>1, <1>5, <2>1 DEF LookUp, CallState, CallInv, Held, Fields
    <2>3. Step(r) /\ rpc'[c] = r
      BY <1>1, <1>5 DEF LookUp
    <2>4. CallInv(c)'
      BY <1>1, <1>5, <2>2, <2>3 DEF LookUp, CallInv, Inside, Held
    <2> QED BY <1>1, <1>5, <2>2, <2>3, <2>4, OneMoves DEF LookUp
  <1>6. CASE LeaveScan(c) \/ Use(c)
    <2>1. Step(IdleRPC) /\ rpc'[c] = IdleRPC /\ c \notin readers' /\ readers' = readers \ {c}
      BY <1>1, <1>6 DEF LeaveScan, Use, RUnlock, Return, CallInv, Held
    <2>2. CallInv(c)'
      BY <2>1 DEF IdleRPC, CallInv, Inside, Held
    <2> QED BY <1>1, <1>6, <2>1, <2>2, IdleTyped, OneMoves DEF LeaveScan, Use
  <1>7. CASE CopyDriver(c)
    <2> DEFINE r == [rpc[c] EXCEPT !.pc = "using", !.copy.drivers = fields.drivers]
    <2>1. /\ r \in CallState /\ r.pc = "using" /\ r.kind = "driver" /\ r.entry = fields
          /\ r.copy.drivers = fields.drivers /\ r.used = rpc[c].used
      BY <1>1, <1>7 DEF CopyDriver, CallState, Fields, CallInv, Held
    <2>2. Step(r) /\ rpc'[c] = r /\ readers' = readers \ {c}
      BY <1>1, <1>7 DEF CopyDriver, RUnlock
    <2>3. r.used = {}
      BY <1>1, <1>7, <2>1 DEF CopyDriver, CallInv
    <2>4. CallInv(c)'
      BY <2>1, <2>2, <2>3 DEF CallInv, Copied, Inside, Held
    <2> QED BY <1>1, <1>7, <2>1, <2>2, <2>4, OneMoves DEF CopyDriver
  <1>8. CASE CopyClients(c)
    <2> DEFINE r == [rpc[c] EXCEPT !.pc = "copying", !.copy = fields]
    <2>1. /\ r \in CallState /\ r.pc = "copying" /\ r.entry = fields
          /\ r.copy = fields /\ r.used = rpc[c].used
      BY <1>1, <1>8 DEF CopyClients, CallState, CallInv, Held
    <2>2. Step(r) /\ rpc'[c] = r
      BY <1>1, <1>8 DEF CopyClients
    <2>3. CallInv(c)'
      BY <1>1, <1>8, <2>1, <2>2 DEF CopyClients, CallInv, Inside, Held
    <2> QED BY <1>1, <1>8, <2>1, <2>2, <2>3, OneMoves DEF CopyClients
  <1>9. CASE CopyIdentity(c)
    <2> DEFINE r == [rpc[c] EXCEPT !.pc = "using", !.copy.identity = fields.identity]
    <2>1. /\ r \in CallState /\ r.pc = "using" /\ r.entry = fields
          /\ r.copy = fields /\ r.used = rpc[c].used
      BY <1>1, <1>9 DEF CopyIdentity, CallState, Fields, CallInv, Held
    <2>2. Step(r) /\ rpc'[c] = r /\ readers' = readers \ {c}
      BY <1>1, <1>9 DEF CopyIdentity, RUnlock
    <2>3. r.used = {}
      BY <1>1, <1>9, <2>1 DEF CopyIdentity, CallInv
    <2>4. CallInv(c)'
      BY <2>1, <2>2, <2>3 DEF CallInv, Copied, Inside, Held
    <2> QED BY <1>1, <1>9, <2>1, <2>2, <2>4, OneMoves DEF CopyIdentity
  <1> QED BY <1>3, <1>4, <1>5, <1>6, <1>7, <1>8, <1>9

(* A writer announces itself, and enters when the last reader has left.    *)
LEMMA WriterKeeps ==
    ASSUME ProviderInv, NEW c \in Call, Announce(c) \/ Locked(c)
    PROVE  ProviderInv'
  <1> DEFINE to == IF rpc[c].pc = "lock" THEN "announced"
                   ELSE IF rpc[c].kind = "close" THEN "closing" ELSE "identity"
  <1>1. /\ rpc \in [Call -> CallState] /\ rpc[c] \in CallState
        /\ UNCHANGED <<fields, readers>> /\ writer' = c
        /\ rpc[c].pc \in {"lock", "announced"}
    BY TypeUnfolded, PerCall DEF ProviderInv, CallInv, Announce, Locked
  <1>2. rpc' = [rpc EXCEPT ![c].pc = to]
    BY DEF Announce, Locked, Goto
  <1>3. TypeOK'
    <2>1. rpc' \in [Call -> CallState]
      BY <1>1, <1>2 DEF CallState
    <2> QED BY <1>1, <2>1 DEF ProviderInv, TypeOK, CallState
  <1>4. ASSUME NEW d \in Call PROVE CallInv(d)'
    <2>1. CallInv(d)
      BY PerCall
    <2>2. CASE d = c
      <3>1. /\ rpc'[d].pc = to /\ rpc'[d].used = rpc[d].used /\ rpc'[d].entry = rpc[d].entry
        BY <1>1, <1>2, <2>2 DEF CallState
      <3>2. to \in Inside => readers = {}
        BY DEF Announce, Locked, Inside
      <3> QED BY <1>1, <2>1, <2>2, <3>1, <3>2 DEF CallInv, Inside, Held
    <2>3. CASE d # c
      <3>1. rpc'[d] = rpc[d] /\ rpc[d].pc \notin {"announced"} \union Inside
        BY <1>1, <1>2, <2>1, <2>3, ProviderAssumption DEF Announce, Locked, CallInv, Inside
      <3> QED BY <1>1, <2>1, <3>1 DEF CallInv, Copied
    <2> QED BY <2>2, <2>3
  <1> QED BY <1>3, <1>4 DEF ProviderInv, Exclusive, Frozen, Partial, AtomicSnapshot,
                            OneGeneration, CallInv, Copied

LEMMA InvNext == ProviderInv /\ [Next]_vars => ProviderInv'
  <1> SUFFICES ASSUME ProviderInv, [Next]_vars PROVE ProviderInv'
    OBVIOUS
  <1>1. CASE UNCHANGED vars
    BY <1>1 DEF vars, ProviderInv, TypeOK, Exclusive, Frozen, Partial, AtomicSnapshot,
                OneGeneration, Copied
  <1>2. ASSUME NEW c \in Call, Refuse(c) \/ ClientsFailed(c) \/ AssignClients(c) \/ Close(c)
        PROVE  ProviderInv'
    <2>1. /\ rpc \in [Call -> CallState] /\ fields \in Fields /\ rpc[c].pc \in Inside /\ Unlock(c)
      BY <1>2, TypeUnfolded DEF ProviderInv, Refuse, ClientsFailed, AssignClients, Close, Inside
    <2>2. rpc[c].config \in Setting
      BY <2>1 DEF CallState
    <2>3. fields' \in Fields
      BY <1>2, <2>1, <2>2, IdleTyped DEF Refuse, ClientsFailed, AssignClients, Close, Fields
    <2> QED BY <2>1, <2>3, UnlockKeeps
  <1>3. ASSUME NEW c \in Call, Arrive(c) \/ Serve(c) \/ Announce(c)
        PROVE  ProviderInv'
    BY <1>2, <1>3, MoveKeeps, WriterKeeps, AssignKeeps DEF Serve
  <1> QED BY <1>1, <1>3 DEF Next

(* Every state is well typed: at most one writer, the counter of a scan    *)
(* within its resources (provider.go, all handlers).                       *)
THEOREM TypeCorrect == Spec => []TypeOK
  <1>1. ProviderInv => TypeOK
    BY DEF ProviderInv
  <1> QED BY <1>1, InvInit, InvNext, PTL DEF Spec

(* Whatever Initialize and Close do meanwhile, an RPC that goes on after   *)
(* RUnlock works with fields of one moment (runner.go, ownership.go,       *)
(* SubscriptionSnapshot, ResourceDriver).                                  *)
THEOREM Snapshots == Spec => []AtomicSnapshot
  <1>1. ProviderInv => AtomicSnapshot
    BY DEF ProviderInv
  <1> QED BY <1>1, InvInit, InvNext, PTL DEF Spec

(* Destroy, Status, DetectDrift and Import never change drivers halfway    *)
(* through their resources.                                                *)
THEOREM Scans == Spec => []OneGeneration
  <1>1. ProviderInv => OneGeneration
    BY DEF ProviderInv
  <1> QED BY <1>1, InvInit, InvNext, PTL DEF Spec

(* A failed Initialize leaves all the clients of the one before it, and     *)
(* Close those that it does not drop (Initialize, Close).                  *)
THEOREM Clients == Spec => []ClientsOfOneCall
  <1>1. Init => ClientsOfOneCall
    BY DEF Init, New, ClientsOfOneCall
  <1>2. ClientsOfOneCall /\ [Next]_vars => ClientsOfOneCall'
    <2> SUFFICES ASSUME ClientsOfOneCall, [Next]_vars PROVE ClientsOfOneCall'
      OBVIOUS
    <2>1. CASE UNCHANGED fields
      BY <2>1 DEF ClientsOfOneCall
    <2>2. ASSUME NEW c \in Call, AssignIdentity(c) PROVE ClientsOfOneCall'
      <3>1. fields' = [fields EXCEPT !.identity = rpc[c].config]
        BY <2>2 DEF AssignIdentity
      <3> QED BY <3>1 DEF ClientsOfOneCall
    <2>3. ASSUME NEW c \in Call, AssignClients(c) \/ Close(c) PROVE ClientsOfOneCall'
      BY <2>3 DEF AssignClients, Close, ClientsOfOneCall
    <2>4. ASSUME NEW c \in Call, Arrive(c) \/ Serve(c) \/ Announce(c),
                 ~AssignIdentity(c), ~AssignClients(c), ~Close(c)
          PROVE  UNCHANGED fields
      BY <2>4 DEF Arrive, Serve, Announce, CallInitialize, CallScan, CallClose, CallDriver,
                  CallSnapshot, CallPlan, Begin, RLock, Locked, Refuse, ClientsFailed,
                  LookUp, LeaveScan, CopyDriver, CopyClients, CopyIdentity, Use
    <2> QED BY <2>1, <2>2, <2>3, <2>4 DEF Next, vars
  <1> QED BY <1>1, <1>2, PTL DEF Spec

=============================================================================
