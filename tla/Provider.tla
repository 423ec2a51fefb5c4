------------------------------ MODULE Provider ------------------------------
(***************************************************************************)
(* AzureProvider (internal/provider.go) under concurrent RPCs: its fields, *)
(* the sync.RWMutex that guards them, and the four ways in which an RPC    *)
(* uses it (internal/iacserver.go, resourcedriver_server.go, ownership.go, *)
(* runner.go, region_lister.go):                                           *)
(*   write     Initialize and Close change the fields under Lock;          *)
(*   scan      Destroy, Status, DetectDrift and Import look up one driver  *)
(*             per resource and call Azure with it, all under RLock;       *)
(*   driver    the ResourceDriver RPCs look up their driver under RLock    *)
(*             and use it after RUnlock;                                   *)
(*   snapshot  the runner, ownership and region RPCs copy the fields they  *)
(*             need under RLock and call Azure after RUnlock.              *)
(***************************************************************************)
EXTENDS Integers

CONSTANTS Call,      \* RPC handler goroutines
          Config,    \* configurations of Initialize (subscription, group, location)
          MaxRefs,   \* bound: resources named by one scan
          NoCall, NoConfig

ASSUME ProviderAssumption ==
    /\ MaxRefs \in Nat
    /\ NoCall \notin Call
    /\ NoConfig \notin Config

VARIABLES fields,    \* the fields of AzureProvider, each by the configuration it is from
          writer,    \* RWMutex: the call inside Lock..Unlock, or waiting there for readers
          readers,   \* RWMutex: the calls inside RLock..RUnlock
          rpc        \* rpc[c]: where the handler c is, and its local variables

vars == <<fields, writer, readers, rpc>>

Setting == Config \union {NoConfig}

(* identity: subscriptionID, resourceGroup and location, assigned together *)
(* and before anything can fail; runner: runnerClient and credential;      *)
(* owners: the two ownership clients.                                      *)
Fields == [identity : Setting, drivers : Setting, runner : Setting, owners : Setting]
New == [identity |-> NoConfig, drivers |-> NoConfig, runner |-> NoConfig, owners |-> NoConfig]

(* entry is auxiliary: the fields when RLock let the call in.              *)
IdleRPC == [pc |-> "idle", kind |-> "none", config |-> NoConfig, left |-> 0,
            copy |-> New, used |-> {}, entry |-> New]

Init == /\ fields = New
        /\ writer = NoCall
        /\ readers = {}
        /\ rpc = [c \in Call |-> IdleRPC]

Begin(c, kind, pc, config, left) ==
    /\ rpc[c].pc = "idle"
    /\ rpc' = [rpc EXCEPT ![c] = [IdleRPC EXCEPT !.pc = pc, !.kind = kind,
                                                 !.config = config, !.left = left]]
    /\ UNCHANGED <<fields, writer, readers>>

Goto(c, pc) == rpc' = [rpc EXCEPT ![c].pc = pc]
Return(c) == rpc' = [rpc EXCEPT ![c] = IdleRPC]

-----------------------------------------------------------------------------
(* The calls. Status, Destroy, DetectDrift and Import are alike: a scan of *)
(* n resources. Plan enters as they do and reads no field.                 *)

CallInitialize(c, config) == Begin(c, "initialize", "lock", config, 0)
CallClose(c)    == Begin(c, "close", "lock", NoConfig, 0)
CallScan(c, n)  == Begin(c, "scan", "rlock", NoConfig, n)
CallDriver(c)   == Begin(c, "driver", "rlock", NoConfig, 0)
CallSnapshot(c) == Begin(c, "snapshot", "rlock", NoConfig, 0)
CallPlan(c)     == Begin(c, "scan", "rlock", NoConfig, 0)

-----------------------------------------------------------------------------
(* sync.RWMutex. A writer that has announced itself keeps new readers out, *)
(* waits for those inside, and when it leaves lets in all that wait.       *)

RLock(c) == /\ rpc[c].pc = "rlock"
            /\ IF writer = NoCall
               THEN /\ readers' = readers \union {c}
                    /\ rpc' = [rpc EXCEPT ![c].pc = "reading", ![c].entry = fields]
               ELSE /\ Goto(c, "rwait")
                    /\ UNCHANGED readers
            /\ UNCHANGED <<fields, writer>>

Announce(c) == /\ rpc[c].pc = "lock"
               /\ writer = NoCall
               /\ writer' = c
               /\ Goto(c, "announced")
               /\ UNCHANGED <<fields, readers>>

Locked(c) == /\ rpc[c].pc = "announced"
             /\ readers = {}
             /\ Goto(c, IF rpc[c].kind = "close" THEN "closing" ELSE "identity")
             /\ UNCHANGED <<fields, writer, readers>>

(* Unlock, with the return of Initialize or Close.                         *)
Unlock(c) ==
    LET waiting == {d \in Call : rpc[d].pc = "rwait"} IN
    /\ writer' = NoCall
    /\ readers' = waiting
    /\ rpc' = [d \in Call |-> IF d = c THEN IdleRPC
                              ELSE IF d \in waiting
                              THEN [rpc[d] EXCEPT !.pc = "reading", !.entry = fields']
                              ELSE rpc[d]]

-----------------------------------------------------------------------------
(* Initialize and Close, under Lock                                        *)

(* Without subscription_id or resource_group nothing is assigned.          *)
Refuse(c) == /\ rpc[c].pc = "identity"
             /\ UNCHANGED fields
             /\ Unlock(c)

AssignIdentity(c) ==
    /\ rpc[c].pc = "identity"
    /\ fields' = [fields EXCEPT !.identity = rpc[c].config]
    /\ Goto(c, "clients")
    /\ UNCHANGED <<writer, readers>>

(* Fault: the drivers are assigned as soon as they are built, before the   *)
(* clients of the runner, which may still fail.                            *)
ClientsFailedLate(c) == /\ rpc[c].pc = "clients"
                        /\ fields' = [fields EXCEPT !.drivers = rpc[c].config]
                        /\ Unlock(c)

(* The credential or one of the clients cannot be built: the identity is   *)
(* the new one already, all the rest is still that of an earlier call.     *)
ClientsFailed(c) == /\ rpc[c].pc = "clients"
                    /\ UNCHANGED fields
                    /\ Unlock(c)

AssignClients(c) ==
    /\ rpc[c].pc = "clients"
    /\ fields' = [identity |-> fields.identity, drivers |-> rpc[c].config,
                  runner |-> rpc[c].config, owners |-> rpc[c].config]
    /\ Unlock(c)

(* The drivers and the ownership clients go; identity, credential and      *)
(* runner client stay.                                                     *)
Close(c) ==
    /\ rpc[c].pc = "closing"
    /\ fields' = [identity |-> fields.identity, drivers |-> NoConfig,
                  runner |-> fields.runner, owners |-> NoConfig]
    /\ Unlock(c)

-----------------------------------------------------------------------------
(* Readers                                                                 *)

RUnlock(c) == readers' = readers \ {c}

(* Fault: the public ResourceDriver, which takes RLock itself, in place of *)
(* resourceDriver: behind a waiting writer neither gets any further.       *)
LookUpNested(c) ==
    /\ rpc[c].pc = "reading" /\ rpc[c].kind = "scan" /\ rpc[c].left > 0
    /\ writer = NoCall
    /\ rpc' = [rpc EXCEPT ![c].left = @ - 1, ![c].used = @ \union {fields.drivers}]
    /\ UNCHANGED <<fields, writer, readers>>

(* Fault: RUnlock before each request to Azure and RLock after it.         *)
LookUpUnlocked(c) ==
    /\ rpc[c].pc = "reading" /\ rpc[c].kind = "scan" /\ rpc[c].left > 0
    /\ rpc' = [rpc EXCEPT ![c].left = @ - 1, ![c].used = @ \union {fields.drivers},
                          ![c].pc = "rlock"]
    /\ RUnlock(c)
    /\ UNCHANGED <<fields, writer>>

(* Fault: <= for < in the loop over the resources.                         *)
LookUpOneMore(c) ==
    /\ rpc[c].pc = "reading" /\ rpc[c].kind = "scan" /\ rpc[c].left >= 0
    /\ rpc' = [rpc EXCEPT ![c].left = @ - 1, ![c].used = @ \union {fields.drivers}]
    /\ UNCHANGED <<fields, writer, readers>>

(* One resource of a scan: resourceDriver, then the request to Azure. When *)
(* either fails the scan goes on with the next resource.                   *)
LookUp(c) ==
    /\ rpc[c].pc = "reading" /\ rpc[c].kind = "scan" /\ rpc[c].left > 0
    /\ rpc' = [rpc EXCEPT ![c].left = @ - 1, ![c].used = @ \union {fields.drivers}]
    /\ UNCHANGED <<fields, writer, readers>>

LeaveScan(c) == /\ rpc[c].pc = "reading"
                /\ rpc[c].kind = "scan" /\ rpc[c].left = 0
                /\ RUnlock(c)
                /\ Return(c)
                /\ UNCHANGED <<fields, writer>>

(* ResourceDriver of a ResourceDriver RPC.                                 *)
CopyDriver(c) ==
    /\ rpc[c].pc = "reading" /\ rpc[c].kind = "driver"
    /\ rpc' = [rpc EXCEPT ![c].pc = "using", ![c].copy.drivers = fields.drivers]
    /\ RUnlock(c)
    /\ UNCHANGED <<fields, writer>>

(* A snapshot copies the fields one after the other, clients first.        *)
CopyClients(c) ==
    /\ rpc[c].pc = "reading" /\ rpc[c].kind = "snapshot"
    /\ rpc' = [rpc EXCEPT ![c].pc = "copying", ![c].copy = fields]
    /\ UNCHANGED <<fields, writer, readers>>

(* Fault: RUnlock before the last field is read.                           *)
CopyIdentityLate(c) ==
    \/ /\ rpc[c].pc = "copying"
       /\ RUnlock(c)
       /\ Goto(c, "late")
       /\ UNCHANGED <<fields, writer>>
    \/ /\ rpc[c].pc = "late"
       /\ rpc' = [rpc EXCEPT ![c].pc = "using", ![c].copy.identity = fields.identity]
       /\ UNCHANGED <<fields, writer, readers>>

CopyIdentity(c) ==
    /\ rpc[c].pc = "copying"
    /\ rpc' = [rpc EXCEPT ![c].pc = "using", ![c].copy.identity = fields.identity]
    /\ RUnlock(c)
    /\ UNCHANGED <<fields, writer>>

(* The request to Azure, or an early return because a client is missing.   *)
Use(c) == /\ rpc[c].pc = "using"
          /\ Return(c)
          /\ UNCHANGED <<fields, writer, readers>>

-----------------------------------------------------------------------------

Arrive(c) == \/ \E config \in Config : CallInitialize(c, config)
             \/ \E n \in 1..MaxRefs : CallScan(c, n)
             \/ CallClose(c) \/ CallDriver(c) \/ CallSnapshot(c) \/ CallPlan(c)

Serve(c) == \/ RLock(c) \/ Locked(c)
            \/ Refuse(c) \/ AssignIdentity(c) \/ ClientsFailed(c) \/ AssignClients(c) \/ Close(c)
            \/ LookUp(c) \/ LeaveScan(c)
            \/ CopyDriver(c) \/ CopyClients(c) \/ CopyIdentity(c) \/ Use(c)

Next == \E c \in Call : Arrive(c) \/ Serve(c) \/ Announce(c)

Spec == Init /\ [][Next]_vars

(* A request to Azure ends; the mutex among writers is a Go mutex, which   *)
(* hands itself to a waiter that has starved for a millisecond.            *)
Fairness == \A c \in Call : WF_vars(Serve(c)) /\ SF_vars(Announce(c))

FairSpec == Spec /\ Fairness

-----------------------------------------------------------------------------
(* Properties *)

(* The values of the variables.                                            *)
TypeOK ==
    /\ fields \in Fields
    /\ writer \in Call \union {NoCall}
    /\ readers \subseteq Call
    /\ rpc \in [Call -> [pc : {"idle", "rlock", "rwait", "reading", "copying", "using", "lock",
                               "announced", "identity", "clients", "closing"},
                         kind : {"none", "initialize", "close", "scan", "driver", "snapshot"},
                         config : Setting, left : 0..MaxRefs,
                         copy : Fields, used : SUBSET Setting, entry : Fields]]

(* What an RPC copies for the time after RUnlock is what the fields were   *)
(* at one moment between two writers, never a mixture of before and after  *)
(* a concurrent Initialize or Close.                                       *)
Copied(c) == IF rpc[c].kind = "driver" THEN {"drivers"} ELSE DOMAIN New
AtomicSnapshot == \A c \in Call :
    rpc[c].pc = "using" => \A f \in Copied(c) : rpc[c].copy[f] = rpc[c].entry[f]

(* All resources of one Destroy, Status, DetectDrift or Import are handled *)
(* by the drivers that were there when it began, however long its requests *)
(* to Azure take.                                                          *)
OneGeneration == \A c \in Call : rpc[c].used \subseteq {rpc[c].entry.drivers}

(* Initialize replaces the drivers and all the clients or, when one of     *)
(* them cannot be built, none, and Close leaves no stale driver beside     *)
(* other clients: what is there was built by one call of Initialize, after *)
(* any series of failed, refused and concurrent ones.                      *)
ClientsOfOneCall == /\ fields.drivers \in {NoConfig, fields.runner}
                    /\ fields.owners = fields.drivers

(* Every RPC is answered: no reader waits for a writer that waits for it,  *)
(* and writers that follow each other do not keep the readers out.         *)
EveryCallReturns == \A c \in Call : rpc[c].pc # "idle" ~> rpc[c].pc = "idle"

-----------------------------------------------------------------------------
(* The strengthening that makes AtomicSnapshot and OneGeneration inductive *)

Inside == {"identity", "clients", "closing"}
Held == {"reading", "copying"}

(* RWMutex: one writer, and no reader beside a writer that is inside.      *)
Exclusive == \A c \in Call :
    /\ rpc[c].pc \in {"announced"} \union Inside => writer = c
    /\ rpc[c].pc \in Inside => readers = {}
    /\ c \in readers <=> rpc[c].pc \in Held

(* Under RLock the fields are what they were when it was granted.          *)
Frozen == \A c \in Call : rpc[c].pc \in Held => rpc[c].entry = fields

(* A snapshot half taken is still right; only a scan that still reads has  *)
(* used anything.                                                          *)
Partial == \A c \in Call :
    /\ rpc[c].pc = "copying" => rpc[c].copy = fields
    /\ rpc[c].used # {} => rpc[c].pc = "reading" /\ rpc[c].kind = "scan"

ProviderInv == TypeOK /\ Exclusive /\ Frozen /\ Partial /\ AtomicSnapshot /\ OneGeneration

=============================================================================
