----------------------------- MODULE RolloutProofs -----------------------------
(***************************************************************************)
(* Deployments, for any images, owners, addresses, failures, restarts and    *)
(* acts of others.                                                          *)
(***************************************************************************)
EXTENDS ContainersProofs

Counts == [faults : Nat, applies : Nat, removals : Nat, tags : Nat, edits : Nat,
           restarts : Nat]

(* The steps of a strategy, and the requests of a step.                      *)
Stages == [rolling   |-> {"update", "check", "done"},
           bluegreen |-> {"create", "check", "switch", "destroy", "done"},
           canary    |-> {"create", "check", "gate", "promote", "destroy", "done",
                          "aborted"}]

Requests == [update  |-> {"get", "put"},
             create  |-> {"get", "put"},
             check   |-> {"look"},
             promote |-> {"image", "get", "put", "delete"},
             destroy |-> {"delete"},
             switch  |-> {"getgw", "putgw"}]

Op == {"update", "create", "check", "promote", "destroy", "switch"}

CallOf == [op : Op, at : {"look", "image", "get", "put", "delete", "getgw", "putgw"},
           image : Image, cg : Group \cup {None}, gw : Gateway \cup {None},
           calm : BOOLEAN]

(* Types, and that the call in progress is a request of the step to do.        *)
StageInv ==
    /\ group \in [Name -> Group \cup {Absent}]
    /\ gateway = None \/ gateway \in Gateway
    /\ kept \in [owner : Owner \cup {None}, rest : Nat \cup {None}]
    /\ used \in Counts
    /\ service \in Services
    /\ IF service \in Strategy THEN todo \in Stages[service] ELSE todo = "done"
    /\ greenIP \in Addr \cup {None}
    /\ greenIP # None => service = "bluegreen"
    /\ \/ call = Idle
       \/ /\ call \in CallOf /\ service \in Strategy
          /\ call.op = todo /\ call.at \in Requests[todo]
          /\ call.at = "put" => call.cg \in Group
          /\ call.at \in {"getgw", "putgw"} => greenIP \in Addr /\ gateway \in Gateway
          /\ call.at = "putgw" => call.gw \in Gateway

(* What is about to be written back has what must not be lost.               *)
KeptInv ==
    /\ call.at = "put" /\ call.op # "create" /\ kept.owner # None =>
          call.cg.owner = kept.owner
    /\ call.at = "putgw" /\ kept.rest # None => call.gw.rest = kept.rest

(* The image that a promotion found is that of the canary, then of what is to   *)
(* be written, then of the stable group.                                    *)
PromoteInv ==
    call # Idle /\ call.op = "promote" /\ call.calm =>
        /\ call.at \in {"get", "put", "delete"} /\ group["side"] # Absent =>
              group["side"].image = call.image
        /\ call.at = "put" => call.cg.image = call.image
        /\ call.at = "delete" =>
              group["base"] # Absent /\ group["base"].image = call.image

(* Green has the cached address, and the pool has green's before blue goes.     *)
GreenInv ==
    service = "bluegreen" /\ used.removals = 0 =>
        /\ greenIP # None => group["side"] # Absent /\ group["side"].ip = greenIP
        /\ todo = "destroy" /\ Switchable =>
              group["side"] # Absent /\ group["side"].ip = gateway.pool
        /\ call.at = "putgw" =>
              /\ call.gw.has = gateway.has /\ gateway.has # "nothing"
              /\ gateway.has = "named" => call.gw.pool = greenIP

DeployInv == StageInv /\ OthersKept /\ KeptInv /\ PromoteInv /\ Served /\ GreenInv

-----------------------------------------------------------------------------
(* Counting, and the order of the steps.                                     *)

LEMMA Faulted ==
    ASSUME used \in Counts, Fault
    PROVE  used' \in Counts /\ used'.removals = used.removals
  BY DEF Fault, Counts

LEMMA Acted ==
    ASSUME used \in Counts, NEW a \in {"applies", "removals", "tags", "edits"}, Act(a)
    PROVE  /\ used' \in Counts
           /\ a # "removals" => used'.removals = used.removals
           /\ a = "removals" => used'.removals # 0 /\ used'.removals # used.removals
  BY DEF Act, Counts

LEMMA NextStage ==
    ASSUME service \in Strategy, todo \in Stages[service], todo \in Op
    PROVE  /\ Plan[service][todo] \in Stages[service]
           /\ service = "bluegreen" /\ Plan[service][todo] = "destroy" => todo = "switch"
<1>1. CASE service = "rolling"
  BY <1>1 DEF Plan, Stages, Op
<1>2. CASE service = "bluegreen"
  BY <1>2 DEF Plan, Stages, Op
<1>3. CASE service = "canary"
  BY <1>3 DEF Plan, Stages, Op
<1> QED
  BY <1>1, <1>2, <1>3 DEF Strategy

LEMMA FailStage ==
    ASSUME service \in Strategy, todo \in Stages[service], Fail
    PROVE  /\ todo' \in Stages[service] /\ call' = Idle
           /\ todo' = "destroy" => todo = "destroy"
  BY DEF Fail, FirstStep, Strategy, Stages

(* The call in progress, with its fields.                                    *)
LEMMA AtWork ==
    ASSUME StageInv, call # Idle
    PROVE  /\ call \in CallOf /\ service \in Strategy /\ todo \in Op
           /\ call.op = todo /\ call.at \in Requests[todo] /\ todo \in Stages[service]
           /\ call.at = "put" => call.cg \in Group
           /\ call.at \in {"getgw", "putgw"} => greenIP \in Addr /\ gateway \in Gateway
           /\ call.at = "putgw" => call.gw \in Gateway
  BY DEF StageInv, CallOf

LEMMA NoRequest == Idle.at = "idle"
  BY DEF Idle

(* Which request is of which step.                                          *)
LEMMA StepOf ==
    ASSUME StageInv, call # Idle
    PROVE  /\ call.at = "look" => todo = "check"
           /\ call.at = "image" => todo = "promote"
           /\ call.at = "get" => todo \in {"update", "create", "promote"}
           /\ call.at = "put" => todo \in {"update", "create", "promote"}
           /\ call.at = "delete" => todo \in {"promote", "destroy"}
           /\ call.at \in {"getgw", "putgw"} => todo = "switch"
           /\ todo = "update" => service = "rolling"
           /\ todo = "promote" => service = "canary"
           /\ todo = "switch" => service = "bluegreen"
           /\ todo = "destroy" => service \in {"bluegreen", "canary"}
<1>1. /\ todo \in Op /\ call.at \in Requests[todo] /\ todo \in Stages[service]
      /\ service \in Strategy
  BY AtWork
<1>2. /\ call.at = "look" => todo = "check"
      /\ call.at = "image" => todo = "promote"
      /\ call.at = "get" => todo \in {"update", "create", "promote"}
      /\ call.at = "put" => todo \in {"update", "create", "promote"}
      /\ call.at = "delete" => todo \in {"promote", "destroy"}
      /\ call.at \in {"getgw", "putgw"} => todo = "switch"
  BY <1>1 DEF Requests, Op
<1>3. /\ todo = "update" => service = "rolling"
      /\ todo = "promote" => service = "canary"
      /\ todo = "switch" => service = "bluegreen"
      /\ todo = "destroy" => service \in {"bluegreen", "canary"}
  BY <1>1 DEF Stages, Strategy
<1> QED
  BY <1>2, <1>3

-----------------------------------------------------------------------------
(* Calls begin, read, and end without a change of Azure's objects.            *)

LEMMA DeployInit == Init => DeployInv
<1> SUFFICES ASSUME Init PROVE DeployInv
  OBVIOUS
<1>1. /\ call = Idle /\ greenIP = None /\ service \in Services
      /\ used = [faults |-> 0, applies |-> 0, removals |-> 0, tags |-> 0,
                 edits |-> 0, restarts |-> 0]
      /\ gateway \in {None} \cup (IF service = "bluegreen" THEN Gateways ELSE {})
      /\ todo = IF service \in Strategy THEN FirstStep ELSE "done"
  BY DEF Init, GroupsInit, RolloutInit
<1>2. PICK o \in FirstOwner, side \in Beside :
        /\ group = [n \in Name |-> IF n = "base" THEN At(o, Home) ELSE side]
        /\ kept = [owner |-> o, rest |-> 0]
  BY DEF Init, GroupsInit
<1>3. /\ group \in [Name -> Group \cup {Absent}]
      /\ group["base"] \in Group /\ group["base"] # Absent
      /\ group["base"].owner = o /\ group["base"].ip = Home
  <2>1. At(o, Home) \in Group /\ side \in Group \cup {Absent}
    BY ContainerGroupsAssumption DEF Beside, At, Group
  <2> QED
    BY <1>2, <2>1, ContainerGroupsAssumption DEF At, Name
<1>4. gateway = None \/ (gateway \in Gateway /\ gateway.pool = Home /\ gateway.rest = 0)
  BY <1>1, ContainerGroupsAssumption DEF Gateways, Gateway
<1>5. service \in Strategy => todo \in Stages[service] /\ todo # "destroy"
  BY <1>1 DEF FirstStep, Strategy, Stages
<1>6. StageInv
  BY <1>1, <1>2, <1>3, <1>4, <1>5, ContainerGroupsAssumption DEF StageInv, Counts
<1>7. OthersKept
  BY <1>2, <1>3, <1>4 DEF OthersKept
<1>8. Served
  BY <1>3, <1>4 DEF Served, Alive, Name, Switchable
<1>9. KeptInv /\ PromoteInv /\ GreenInv
  BY <1>1, <1>5, NoRequest DEF KeptInv, PromoteInv, GreenInv, Strategy, Switchable
<1> QED
  BY <1>6, <1>7, <1>8, <1>9 DEF DeployInv

LEMMA CallEnds ==
    ASSUME DeployInv, call' = Idle, service \in Strategy,
           UNCHANGED <<service, group, gateway, kept, greenIP>>,
           used' \in Counts, used'.removals = used.removals,
           todo' \in Stages[service],
           service = "bluegreen" /\ todo' = "destroy" => todo = "destroy" \/ gateway = None
    PROVE  DeployInv'
<1>1. StageInv'
  BY DEF DeployInv, StageInv
<1>2. KeptInv' /\ PromoteInv' /\ GreenInv'
  BY NoRequest DEF DeployInv, KeptInv, PromoteInv, GreenInv, Switchable
<1>3. OthersKept' /\ Served'
  BY DEF DeployInv, OthersKept, Served, Alive, Switchable
<1> QED
  BY <1>1, <1>2, <1>3 DEF DeployInv

LEMMA Begun ==
    ASSUME DeployInv, NEW op \in Op,
           NEW at \in {"look", "image", "get", "delete", "getgw"},
           Begin(op, at), at \in Requests[op], service \in Strategy,
           op = "promote" => at = "image",
           op = "switch" => greenIP # None /\ gateway # None,
           at = "getgw" => op = "switch"
    PROVE  DeployInv'
<1>1. /\ call' = [op |-> op, at |-> at, image |-> New, cg |-> None, gw |-> None,
                  calm |-> TRUE]
      /\ todo = op /\ UNCHANGED <<service, group, gateway, kept, used, todo, greenIP>>
  BY DEF Begin
<1>2. call' \in CallOf /\ call'.op = op /\ call'.at = at
  BY <1>1, RolloutAssumption DEF CallOf
<1>3. StageInv'
  BY <1>1, <1>2 DEF DeployInv, StageInv
<1>4. KeptInv' /\ PromoteInv' /\ GreenInv'
  BY <1>1, <1>2 DEF DeployInv, KeptInv, PromoteInv, GreenInv, Switchable
<1>5. OthersKept' /\ Served'
  BY <1>1 DEF DeployInv, OthersKept, Served, Alive, Switchable
<1> QED
  BY <1>3, <1>4, <1>5 DEF DeployInv

LEMMA HostKeeps ==
    ASSUME DeployInv, Host, service \in Strategy
    PROVE  DeployInv'
<1>1. todo \in Stages[service] /\ used \in Counts /\ StageInv
  BY DEF DeployInv, StageInv
<1>2. CASE Update \/ CreateGreen \/ CreateCanary
  BY <1>2, Begun DEF Update, CreateGreen, CreateCanary, Requests, Op
<1>3. CASE HealthCheck \/ PromoteCanary \/ DestroyBlue \/ DestroyCanary
  BY <1>3, Begun DEF HealthCheck, PromoteCanary, DestroyBlue, DestroyCanary, Requests, Op
<1>4. CASE SwitchTraffic
  BY <1>4, Begun DEF SwitchTraffic, NoEndpoint, Requests, Op
<1>5. CASE SwitchWithoutGateway \/ EndpointMissing
  <2>1. /\ call' = Idle /\ UNCHANGED <<service, group, gateway, kept, used, greenIP>>
        /\ todo = "switch"
        /\ todo' = "create" \/ (todo' = "destroy" /\ gateway = None)
    BY <1>5 DEF SwitchWithoutGateway, EndpointMissing, Stay
  <2>2. service = "bluegreen" /\ todo' \in Stages[service]
    BY <1>1, <2>1 DEF Stages, Strategy
  <2> QED
    BY <1>1, <2>1, <2>2, CallEnds
<1>6. CASE RoutePercent
  <2>1. /\ call' = Idle /\ UNCHANGED <<service, group, gateway, kept, used, greenIP>>
        /\ todo = "gate" /\ todo' \in {"promote", "destroy"}
    BY <1>6 DEF RoutePercent, Stay
  <2>2. service = "canary" /\ todo' \in Stages[service]
    BY <1>1, <2>1 DEF Stages, Strategy
  <2> QED
    BY <1>1, <2>1, <2>2, CallEnds
<1> QED
  BY <1>2, <1>3, <1>4, <1>5, <1>6 DEF Host

(* A read is answered or fails.                                             *)
LEMMA ReadsKeep ==
    ASSUME DeployInv,
           GetMissing \/ GetFailed \/ LookDone \/ GetDone \/ ImageDone \/ GetGateway
             \/ GatewayBare
    PROVE  DeployInv'
<1>1. StageInv /\ used \in Counts
  BY DEF DeployInv, StageInv
<1>2. call # Idle
  BY NoRequest
     DEF GetMissing, GetFailed, LookDone, GetDone, ImageDone, GetGateway, GatewayBare, Read
<1>3. /\ call \in CallOf /\ service \in Strategy /\ todo \in Op
      /\ call.op = todo /\ todo \in Stages[service]
  BY <1>1, <1>2, AtWork
<1>4. CASE GetMissing \/ GatewayBare
  <2>1. Fail /\ UNCHANGED <<service, group, gateway, kept, used, greenIP>>
    BY <1>4 DEF GetMissing, GatewayBare
  <2> QED
    BY <1>1, <1>3, <2>1, FailStage, CallEnds
<1>5. CASE GetFailed
  <2>1. Fault /\ Fail /\ UNCHANGED <<service, group, gateway, kept, greenIP>>
    BY <1>5 DEF GetFailed
  <2> QED
    BY <1>1, <1>3, <2>1, FailStage, Faulted, CallEnds
<1>6. CASE LookDone
  <2>1. /\ UNCHANGED <<service, group, gateway, kept, used, greenIP>>
        /\ Succeed \/ Fail
    BY <1>1, <1>2, <1>6, StepOf DEF LookDone
  <2>2. CASE Succeed
    BY <1>1, <1>2, <1>3, <1>6, <2>1, <2>2, StepOf, NextStage, CallEnds
       DEF Succeed, LookDone
  <2>3. CASE Fail
    BY <1>1, <1>3, <2>1, <2>3, FailStage, CallEnds
  <2> QED
    BY <2>1, <2>2, <2>3
<1>7. CASE GetDone \/ ImageDone \/ GetGateway
  <2>1. UNCHANGED <<service, group, gateway, kept, used, todo, greenIP>>
    BY <1>7 DEF GetDone, ImageDone, GetGateway
  <2>2. OthersKept' /\ Served'
    BY <2>1 DEF DeployInv, OthersKept, Served, Alive, Switchable
  <2>3. CASE GetDone
    <3> DEFINE cg == Body(group["base"])
    <3>1. /\ call.at = "get" /\ call' = [call EXCEPT !.at = "put", !.cg = cg]
          /\ group["base"] \in Group
      BY <1>1, <2>3 DEF GetDone, StageInv, Name
    <3>2. /\ cg \in Group /\ cg.image = call.image
          /\ call.op # "create" => cg.owner = group["base"].owner
      BY <1>3, <3>1 DEF Body, Group, CallOf
    <3> HIDE DEF cg
    <3>3. /\ call' \in CallOf /\ call'.at = "put" /\ call'.cg = cg /\ call'.op = call.op
          /\ call'.image = call.image /\ call'.calm = call.calm
      BY <1>3, <3>1, <3>2 DEF CallOf
    <3>4. "put" \in Requests[todo]
      BY <1>1, <1>2, <3>1, StepOf DEF Requests
    <3>5. StageInv'
      BY <1>1, <1>3, <2>1, <3>2, <3>3, <3>4 DEF StageInv
    <3>6. KeptInv'
      BY <2>1, <3>2, <3>3 DEF KeptInv, DeployInv, OthersKept
    <3>7. PromoteInv' /\ GreenInv'
      BY <1>2, <2>1, <3>1, <3>2, <3>3 DEF DeployInv, PromoteInv, GreenInv, Switchable
    <3> QED
      BY <2>2, <3>5, <3>6, <3>7 DEF DeployInv
  <2>4. CASE ImageDone
    <3>1. /\ call.at = "image"
          /\ call' = [call EXCEPT !.at = "get", !.image = group["side"].image]
          /\ group["side"] \in Group
      BY <1>1, <2>4 DEF ImageDone, StageInv, Name
    <3>2. /\ call' \in CallOf /\ call'.at = "get" /\ call'.op = call.op
          /\ call'.image = group["side"].image
      BY <1>3, <3>1 DEF CallOf, Group
    <3>3. "get" \in Requests[todo]
      BY <1>1, <1>2, <3>1, StepOf DEF Requests
    <3>4. StageInv'
      BY <1>1, <1>3, <2>1, <3>2, <3>3 DEF StageInv
    <3>5. KeptInv' /\ PromoteInv' /\ GreenInv'
      BY <2>1, <3>2 DEF DeployInv, KeptInv, PromoteInv, GreenInv, Switchable
    <3> QED
      BY <2>2, <3>4, <3>5 DEF DeployInv
  <2>5. CASE GetGateway
    <3> DEFINE gw == Switched
    <3>1. /\ call.at = "getgw" /\ call' = [call EXCEPT !.at = "putgw", !.gw = gw]
          /\ gateway \in Gateway /\ greenIP \in Addr /\ gateway.has # "nothing"
      BY <1>1, <1>2, <2>5, AtWork DEF GetGateway
    <3>2. /\ gw \in Gateway /\ gw.rest = gateway.rest /\ gw.has = gateway.has
          /\ gateway.has = "named" => gw.pool = greenIP
      BY <3>1 DEF Switched, Gateway
    <3> HIDE DEF gw
    <3>3. call' \in CallOf /\ call'.at = "putgw" /\ call'.gw = gw /\ call'.op = call.op
      BY <1>3, <3>1, <3>2 DEF CallOf
    <3>4. "putgw" \in Requests[todo] /\ todo = "switch"
      BY <1>1, <1>2, <3>1, StepOf DEF Requests
    <3>5. StageInv'
      BY <1>1, <1>3, <2>1, <3>1, <3>2, <3>3, <3>4 DEF StageInv
    <3>6. gateway # None
      BY <3>1, ContainerGroupsAssumption DEF Gateway
    <3>7. KeptInv'
      BY <2>1, <3>2, <3>3, <3>6 DEF DeployInv, KeptInv, OthersKept
    <3>8. PromoteInv' /\ GreenInv'
      BY <1>3, <2>1, <3>1, <3>2, <3>3, <3>4 DEF DeployInv, PromoteInv, GreenInv, Switchable
    <3> QED
      BY <2>2, <3>5, <3>7, <3>8 DEF DeployInv
  <2> QED
    BY <1>7, <2>3, <2>4, <2>5
<1> QED
  BY <1>4, <1>5, <1>6, <1>7

-----------------------------------------------------------------------------
(* Requests that change Azure's objects.                                     *)

(* A PUT writes one group, which keeps its address if it has one.             *)
LEMMA PutMoves ==
    ASSUME DeployInv, call.at = "put", NEW state \in {"Succeeded", "Failed"},
           NEW cg \in Provisioned(Target, call.cg, state),
           group' = [group EXCEPT ![Target] = cg]
    PROVE  /\ cg \in Group /\ cg # Absent
           /\ cg.image = call.cg.image /\ cg.owner = call.cg.owner
           /\ group[Target] # Absent => cg.ip = group[Target].ip
           /\ group' \in [Name -> Group \cup {Absent}]
           /\ Target = IF todo = "create" THEN "side" ELSE "base"
           /\ group'[Target] = cg
           /\ \A n \in Name \ {Target} : group'[n] = group[n]
<1>1. /\ group \in [Name -> Group \cup {Absent}] /\ call.cg \in Group /\ call.op = todo
  BY NoRequest, AtWork DEF DeployInv, StageInv
<1>2. Target \in Name /\ Target = IF todo = "create" THEN "side" ELSE "base"
  BY <1>1 DEF Target, Name
<1>3. PICK a \in (IF Target \in Alive THEN {group[Target].ip}
                  ELSE Addr \ {group[m].ip : m \in Alive}) :
         cg = [call.cg EXCEPT !.ip = a, !.state = state]
  BY DEF Provisioned
<1>4. a \in Addr
  BY <1>1, <1>2 DEF Alive, Group
<1>5. /\ cg \in Group /\ cg.image = call.cg.image /\ cg.owner = call.cg.owner
      /\ cg.ip = a
  BY <1>1, <1>3, <1>4 DEF Group
<1>6. group[Target] # Absent => cg.ip = group[Target].ip
  BY <1>2, <1>3, <1>5 DEF Alive
<1> QED
  BY <1>1, <1>2, <1>5, <1>6, ContainerGroupsAssumption

(* What a PUT does to the properties, whatever its answer.                    *)
LEMMA PutEffects ==
    ASSUME DeployInv, call.at = "put", NEW state \in {"Succeeded", "Failed"},
           NEW cg \in Provisioned(Target, call.cg, state),
           group' = [group EXCEPT ![Target] = cg],
           UNCHANGED <<service, gateway, kept>>, used'.removals = used.removals
    PROVE  /\ OthersKept' /\ Served'
           /\ service = "bluegreen" =>
                group'["side"] = cg /\ (greenIP # None /\ used.removals = 0 => cg.ip = greenIP)
<1>1. /\ cg \in Group /\ cg # Absent /\ cg.owner = call.cg.owner
      /\ group[Target] # Absent => cg.ip = group[Target].ip
      /\ Target = IF todo = "create" THEN "side" ELSE "base"
      /\ group'[Target] = cg
      /\ \A n \in Name \ {Target} : group'[n] = group[n]
  BY PutMoves
<1>2. /\ StageInv /\ call # Idle /\ call.op = todo /\ todo \in {"update", "create", "promote"}
      /\ todo = "update" => service = "rolling"
      /\ todo = "promote" => service = "canary"
  BY NoRequest, AtWork, StepOf DEF DeployInv
<1>3. OthersKept'
  <2>1. CASE todo = "create"
    <3>1. group'["base"] = group["base"]
      BY <1>1, <2>1 DEF Name
    <3> QED
      BY <3>1 DEF DeployInv, OthersKept
  <2>2. CASE todo # "create"
    <3>1. group'["base"] = cg
      BY <1>1, <2>2
    <3> QED
      BY <1>1, <1>2, <2>2, <3>1 DEF DeployInv, OthersKept, KeptInv
  <2> QED
    BY <2>1, <2>2
<1>4. service = "bluegreen" =>
        /\ group'["side"] = cg /\ group'["base"] = group["base"]
        /\ group["side"] # Absent => cg.ip = group["side"].ip
  BY <1>1, <1>2 DEF Name
<1>5. Served'
  <2> SUFFICES ASSUME service = "bluegreen", Switchable, used.removals = 0
               PROVE  \E n \in Name : group'[n] # Absent /\ group'[n].ip = gateway.pool
    BY DEF Served, Alive, Switchable
  <2>1. PICK n \in Name : group[n] # Absent /\ group[n].ip = gateway.pool
    BY DEF DeployInv, Served, Alive, Switchable
  <2>2. group'[n] # Absent /\ group'[n].ip = gateway.pool
    BY <1>1, <1>4, <2>1 DEF Name
  <2> QED
    BY <2>2
<1>6. service = "bluegreen" /\ greenIP # None /\ used.removals = 0 => cg.ip = greenIP
  BY <1>4 DEF DeployInv, GreenInv, Switchable
<1> QED
  BY <1>3, <1>4, <1>5, <1>6

LEMMA PutsKeep ==
    ASSUME DeployInv, PutDone \/ PutFailed
    PROVE  DeployInv'
<1>1. /\ call.at = "put" /\ StageInv /\ used \in Counts
      /\ UNCHANGED <<service, gateway, kept>>
  BY DEF PutDone, PutFailed, DeployInv, StageInv
<1>2. /\ call # Idle /\ call \in CallOf /\ service \in Strategy /\ todo \in Op
      /\ call.op = todo /\ todo \in Stages[service]
      /\ todo \in {"update", "create", "promote"}
      /\ todo = "promote" => service = "canary"
  BY <1>1, NoRequest, AtWork, StepOf
<1>3. CASE PutDone
  <2>1. PICK cg \in Provisioned(Target, call.cg, "Succeeded") :
          /\ group' = [group EXCEPT ![Target] = cg]
          /\ greenIP' = IF service = "bluegreen" /\ call.op = "create"
                        THEN cg.ip ELSE greenIP
    BY <1>3 DEF PutDone
  <2>2. UNCHANGED used
    BY <1>3 DEF PutDone
  <2>3. /\ OthersKept' /\ Served'
        /\ service = "bluegreen" => group'["side"] = cg
    BY <1>1, <2>1, <2>2, PutEffects
  <2>4. /\ cg \in Group /\ cg # Absent /\ cg.image = call.cg.image
        /\ group' \in [Name -> Group \cup {Absent}]
        /\ todo # "create" => group'["base"] = cg /\ group'["side"] = group["side"]
    BY <1>1, <2>1, PutMoves DEF Name
  <2>5. /\ greenIP' \in Addr \cup {None}
        /\ greenIP' # None => service = "bluegreen"
        /\ service = "bluegreen" => greenIP' = cg.ip
    BY <1>1, <1>2, <2>1, <2>4, StepOf DEF Group, StageInv
  <2>6. CASE call.op = "promote"
    <3>1. call' = [call EXCEPT !.at = "delete"] /\ UNCHANGED todo
      BY <1>3, <2>6 DEF PutDone
    <3>2. /\ call' \in CallOf /\ call'.at = "delete" /\ call'.op = call.op
          /\ call'.image = call.image /\ call'.calm = call.calm
      BY <1>2, <3>1 DEF CallOf
    <3>3. "delete" \in Requests[todo]
      BY <1>2, <2>6 DEF Requests
    <3>4. StageInv'
      BY <1>1, <1>2, <2>2, <2>4, <2>5, <3>1, <3>2, <3>3 DEF StageInv
    <3>5. KeptInv' /\ GreenInv'
      BY <1>1, <1>2, <2>6, <3>2 DEF KeptInv, GreenInv, Switchable
    <3>6. PromoteInv'
      BY <1>1, <1>2, <2>4, <2>6, <3>2 DEF DeployInv, PromoteInv
    <3> QED
      BY <2>3, <3>4, <3>5, <3>6 DEF DeployInv
  <2>7. CASE call.op # "promote"
    <3>1. call' = Idle /\ todo' = Plan[service][todo]
      BY <1>3, <2>7 DEF PutDone, Succeed
    <3>2. todo' \in Stages[service] /\ (service = "bluegreen" => todo' # "destroy")
      BY <1>2, <3>1, NextStage
    <3>3. StageInv'
      BY <1>1, <1>2, <2>2, <2>4, <2>5, <3>1, <3>2 DEF StageInv
    <3>4. KeptInv' /\ PromoteInv'
      BY <3>1, NoRequest DEF KeptInv, PromoteInv
    <3>5. GreenInv'
      BY <1>1, <2>2, <2>3, <2>4, <2>5, <3>1, <3>2, NoRequest DEF GreenInv, Switchable
    <3> QED
      BY <2>3, <3>3, <3>4, <3>5 DEF DeployInv
  <2> QED
    BY <2>6, <2>7
<1>4. CASE PutFailed
  <2>1. Fault /\ Fail /\ PutEffect /\ UNCHANGED greenIP
    BY <1>4 DEF PutFailed
  <2>2. used' \in Counts /\ used'.removals = used.removals
    BY <1>1, <2>1, Faulted
  <2>3. todo' \in Stages[service] /\ call' = Idle /\ (todo' = "destroy" => todo = "destroy")
    BY <1>2, <2>1, FailStage
  <2>4. CASE UNCHANGED group
    BY <1>1, <1>2, <2>1, <2>2, <2>3, <2>4, CallEnds
  <2>5. ASSUME NEW state \in {"Succeeded", "Failed"},
               NEW cg \in Provisioned(Target, call.cg, state),
               group' = [group EXCEPT ![Target] = cg]
        PROVE  DeployInv'
    <3>1. /\ OthersKept' /\ Served'
          /\ service = "bluegreen" =>
               group'["side"] = cg /\ (greenIP # None /\ used.removals = 0 => cg.ip = greenIP)
      BY <1>1, <2>2, <2>5, PutEffects
    <3>2. cg # Absent /\ group' \in [Name -> Group \cup {Absent}]
      BY <1>1, <2>5, PutMoves
    <3>3. StageInv'
      BY <1>1, <1>2, <2>1, <2>2, <2>3, <3>2 DEF StageInv
    <3>4. KeptInv' /\ PromoteInv'
      BY <2>3, NoRequest DEF KeptInv, PromoteInv
    <3>5. GreenInv'
      BY <1>1, <1>2, <2>1, <2>2, <2>3, <3>1, <3>2, NoRequest DEF GreenInv, Switchable
    <3> QED
      BY <3>1, <3>3, <3>4, <3>5 DEF DeployInv
  <2> QED
    BY <2>1, <2>4, <2>5 DEF PutEffect
<1> QED
  BY <1>3, <1>4

(* Destroy: blue goes when green has the traffic; the canary takes nothing of   *)
(* the stable group with it.                                                *)
LEMMA DeletesKeep ==
    ASSUME DeployInv, DeleteDone \/ DeleteFailed
    PROVE  DeployInv'
<1>1. /\ call.at = "delete" /\ StageInv /\ used \in Counts
      /\ group \in [Name -> Group \cup {Absent}]
      /\ kept \in [owner : Owner \cup {None}, rest : Nat \cup {None}]
      /\ UNCHANGED <<service, gateway, greenIP>>
  BY DEF DeleteDone, DeleteFailed, DeployInv, StageInv
<1>2. /\ call # Idle /\ service \in Strategy /\ todo \in Op /\ todo \in Stages[service]
      /\ todo \in {"promote", "destroy"}
      /\ service = "bluegreen" => todo = "destroy"
      /\ service \in {"bluegreen", "canary"}
  BY <1>1, NoRequest, AtWork, StepOf
<1>3. /\ call' = Idle /\ todo' \in Stages[service]
      /\ todo' = "destroy" => todo = "destroy" \/ service # "bluegreen"
      /\ used' \in Counts /\ used'.removals = used.removals
  <2>1. CASE DeleteDone
    <3>1. Succeed /\ UNCHANGED used
      BY <2>1 DEF DeleteDone
    <3> QED
      BY <1>1, <1>2, <3>1, NextStage DEF Succeed
  <2>2. CASE DeleteFailed
    <3>1. Fault /\ Fail
      BY <2>2 DEF DeleteFailed
    <3> QED
      BY <1>1, <1>2, <3>1, FailStage, Faulted
  <2> QED
    BY <2>1, <2>2
<1>4. CASE UNCHANGED <<group, kept>>
  BY <1>1, <1>2, <1>3, <1>4, CallEnds
<1>5. CASE WithoutDoomed
  <2>1. /\ group' \in [Name -> Group \cup {Absent}]
        /\ kept' \in [owner : Owner \cup {None}, rest : Nat \cup {None}]
        /\ kept'.rest = kept.rest
    BY <1>1, <1>5 DEF WithoutDoomed
  <2>2. service = "bluegreen" => group'["side"] = group["side"] /\ kept'.owner = None
    BY <1>1, <1>5 DEF WithoutDoomed, Doomed, Name
  <2>3. service # "bluegreen" => group'["base"] = group["base"] /\ kept' = kept
    BY <1>1, <1>5 DEF WithoutDoomed, Doomed, Name
  <2>4. StageInv'
    BY <1>1, <1>2, <1>3, <2>1 DEF StageInv
  <2>5. KeptInv' /\ PromoteInv'
    BY <1>3, NoRequest DEF KeptInv, PromoteInv
  <2>6. GreenInv'
    BY <1>1, <1>3, <2>2, NoRequest DEF DeployInv, GreenInv, Switchable
  <2>7. OthersKept'
    BY <1>1, <2>1, <2>2, <2>3 DEF DeployInv, OthersKept
  <2>8. Served'
    <3> SUFFICES ASSUME service = "bluegreen", Switchable, used.removals = 0
                 PROVE  \E n \in Name : group'[n] # Absent /\ group'[n].ip = gateway.pool
      BY <1>1, <1>3 DEF Served, Alive, Switchable
    <3>1. group["side"] # Absent /\ group["side"].ip = gateway.pool
      BY <1>2 DEF DeployInv, GreenInv, Switchable
    <3> QED
      BY <2>2, <3>1 DEF Name
  <2> QED
    BY <2>4, <2>5, <2>6, <2>7, <2>8 DEF DeployInv
<1> QED
  BY <1>4, <1>5 DEF DeleteDone, DeleteFailed

(* SwitchTraffic's PUT of the gateway: its pool is green's address.            *)
LEMMA SwitchesKeep ==
    ASSUME DeployInv, PutGatewayDone \/ PutGatewayFailed
    PROVE  DeployInv'
<1>1. /\ call.at = "putgw" /\ StageInv /\ used \in Counts
      /\ UNCHANGED <<service, group, kept, greenIP>>
  BY DEF PutGatewayDone, PutGatewayFailed, DeployInv, StageInv
<1>2. /\ call # Idle /\ service \in Strategy /\ todo \in Op /\ todo \in Stages[service]
      /\ todo = "switch" /\ service = "bluegreen"
      /\ greenIP \in Addr /\ gateway \in Gateway /\ call.gw \in Gateway
  BY <1>1, NoRequest, AtWork, StepOf
<1>3. /\ greenIP # None /\ gateway # None /\ call.gw # None
  BY <1>2, ContainerGroupsAssumption DEF Gateway
<1>4. /\ call' = Idle /\ todo' \in Stages[service]
      /\ todo' = "destroy" => gateway' = call.gw
      /\ gateway' \in {gateway, call.gw}
      /\ used' \in Counts /\ used'.removals = used.removals
  <2>1. CASE PutGatewayDone
    <3>1. Succeed /\ UNCHANGED used /\ gateway' = call.gw
      BY <2>1 DEF PutGatewayDone
    <3> QED
      BY <1>1, <1>2, <3>1, NextStage DEF Succeed
  <2>2. CASE PutGatewayFailed
    <3>1. Fault /\ Fail /\ gateway' \in {gateway, call.gw}
      BY <2>2 DEF PutGatewayFailed
    <3> QED
      BY <1>1, <1>2, <3>1, FailStage, Faulted
  <2> QED
    BY <2>1, <2>2
<1>5. StageInv'
  BY <1>1, <1>2, <1>4 DEF StageInv
<1>6. KeptInv' /\ PromoteInv'
  BY <1>4, NoRequest DEF KeptInv, PromoteInv
<1>7. used.removals = 0 =>
        /\ group["side"] # Absent /\ group["side"].ip = greenIP
        /\ call.gw.has # "others" => call.gw.pool = greenIP
  BY <1>1, <1>2, <1>3 DEF Gateway, DeployInv, GreenInv, Switchable
<1>8. GreenInv'
  BY <1>1, <1>4, <1>7, NoRequest DEF GreenInv, Switchable
<1>9. OthersKept'
  BY <1>1, <1>3, <1>4 DEF DeployInv, OthersKept, KeptInv
<1>10. Served'
  <2> SUFFICES ASSUME used.removals = 0, Switchable'
               PROVE  \E n \in Name : group[n] # Absent /\ group[n].ip = gateway'.pool
    BY <1>1, <1>4 DEF Served, Alive, Switchable
  <2>1. CASE gateway' = gateway
    BY <1>2, <1>3, <2>1 DEF DeployInv, Served, Alive, Switchable
  <2>2. CASE gateway' = call.gw
    BY <1>7, <2>2 DEF Name, Switchable
  <2> QED
    BY <1>4, <2>1, <2>2
<1> QED
  BY <1>5, <1>6, <1>8, <1>9, <1>10 DEF DeployInv

(* A new process has no cached address.                                      *)
LEMMA RestartKeeps ==
    ASSUME DeployInv, Restart
    PROVE  DeployInv'
<1>1. /\ UNCHANGED <<service, group, gateway, call, kept, todo>>
      /\ call = Idle /\ greenIP' = None
      /\ used' = [used EXCEPT !.restarts = @ + 1] /\ used \in Counts
  BY DEF Restart, DeployInv, StageInv
<1>2. used' \in Counts /\ used'.removals = used.removals
  BY <1>1 DEF Counts
<1>3. StageInv'
  BY <1>1, <1>2 DEF DeployInv, StageInv
<1>4. KeptInv' /\ PromoteInv' /\ GreenInv'
  BY <1>1, <1>2, NoRequest DEF DeployInv, KeptInv, PromoteInv, GreenInv, Switchable
<1>5. OthersKept' /\ Served'
  BY <1>1, <1>2 DEF DeployInv, OthersKept, Served, Alive, Switchable
<1> QED
  BY <1>3, <1>4, <1>5 DEF DeployInv

(* Somebody else: what a deployment read before is then not relied upon.      *)
LEMMA OwnerSet ==
    ASSUME DeployInv, SetOwner, UNCHANGED <<todo, greenIP>>
    PROVE  DeployInv'
<1>1. /\ StageInv /\ used \in Counts /\ group \in [Name -> Group \cup {Absent}]
      /\ kept \in [owner : Owner \cup {None}, rest : Nat \cup {None}]
  BY DEF DeployInv, StageInv
<1>2. UNCHANGED <<service, gateway, call>>
  BY DEF SetOwner
<1>3. used' \in Counts /\ used'.removals = used.removals
  <2>1. Act("tags")
    BY DEF SetOwner
  <2> QED
    BY <1>1, <2>1, Acted
<1>4. PICK n \in Alive, o \in Owner :
          /\ group' = [group EXCEPT ![n].owner = o]
          /\ kept' \in IF n # "base" THEN {kept}
                       ELSE {[kept EXCEPT !.owner = p] :
                                p \in {None} \cup (IF WritingBack(n) THEN {} ELSE {o})}
  BY DEF SetOwner
<1>5. /\ n \in Name /\ group[n] \in Group
      /\ [group[n] EXCEPT !.owner = o] \in Group
      /\ group' = [group EXCEPT ![n] = [group[n] EXCEPT !.owner = o]]
  BY <1>1, <1>4 DEF Alive, Group
<1>6. /\ group' \in [Name -> Group \cup {Absent}]
      /\ \A m \in Name \ {n} : group'[m] = group[m]
      /\ \A m \in Name : group'[m] # Absent <=> group[m] # Absent
      /\ \A m \in Name : group[m] # Absent =>
            group'[m].image = group[m].image /\ group'[m].ip = group[m].ip
      /\ group'[n].owner = o /\ group'[n] # Absent
  BY <1>1, <1>5, ContainerGroupsAssumption DEF Group
<1>7. /\ kept' \in [owner : Owner \cup {None}, rest : Nat \cup {None}]
      /\ kept'.rest = kept.rest
      /\ n # "base" => kept' = kept
      /\ n = "base" => kept'.owner = None \/ (kept'.owner = o /\ ~WritingBack("base"))
  BY <1>1, <1>4
<1>8. StageInv'
  BY <1>1, <1>2, <1>3, <1>6, <1>7 DEF StageInv
<1>9. OthersKept'
  BY <1>2, <1>6, <1>7 DEF DeployInv, OthersKept, Name
<1>10. call.at = "put" /\ call.op # "create" => WritingBack("base")
  BY <1>1, NoRequest, StepOf, AtWork DEF WritingBack
<1>11. KeptInv'
  BY <1>2, <1>7, <1>10 DEF DeployInv, KeptInv
<1>12. PromoteInv' /\ GreenInv'
  BY <1>2, <1>3, <1>6 DEF DeployInv, PromoteInv, GreenInv, Name, Switchable
<1>13. Served'
  BY <1>2, <1>3, <1>6 DEF DeployInv, Served, Alive, Switchable
<1> QED
  BY <1>8, <1>9, <1>11, <1>12, <1>13 DEF DeployInv

(* A call that another's write disturbs goes on.                              *)
LEMMA Disturbed ==
    ASSUME StageInv, Disturb
    PROVE  \/ call = Idle /\ call' = Idle
           \/ /\ call # Idle /\ call \in CallOf /\ call' \in CallOf
              /\ call'.calm = FALSE
              /\ call'.op = call.op /\ call'.at = call.at
              /\ call'.cg = call.cg /\ call'.gw = call.gw
<1>1. CASE call = Idle
  BY <1>1 DEF Disturb
<1>2. CASE call # Idle
  BY <1>2, AtWork DEF Disturb, CallOf
<1> QED
  BY <1>1, <1>2

LEMMA GroupWritten ==
    ASSUME DeployInv, ApplyGroup \/ RemoveGroup, UNCHANGED <<todo, greenIP>>
    PROVE  DeployInv'
<1>1. /\ StageInv /\ used \in Counts /\ group \in [Name -> Group \cup {Absent}]
      /\ kept \in [owner : Owner \cup {None}, rest : Nat \cup {None}]
  BY DEF DeployInv, StageInv
<1>2. UNCHANGED <<service, gateway>> /\ Disturb
  BY DEF ApplyGroup, RemoveGroup
<1>3. \/ call = Idle /\ call' = Idle
      \/ /\ call # Idle /\ call \in CallOf /\ call' \in CallOf
         /\ call'.calm = FALSE
         /\ call'.op = call.op /\ call'.at = call.at
         /\ call'.cg = call.cg /\ call'.gw = call.gw
  BY <1>1, <1>2, Disturbed
<1>4. /\ used' \in Counts
      /\ ApplyGroup => used'.removals = used.removals
      /\ RemoveGroup => used'.removals # 0
  <2>1. ApplyGroup => Act("applies")
    BY DEF ApplyGroup
  <2>2. RemoveGroup => Act("removals")
    BY DEF RemoveGroup
  <2> QED
    BY <1>1, <2>1, <2>2, Acted
<1>5. PromoteInv'
  BY <1>3, NoRequest DEF PromoteInv
<1>6. ASSUME group' \in [Name -> Group \cup {Absent}],
             kept' \in [owner : Owner \cup {None}, rest : Nat \cup {None}]
      PROVE  StageInv'
  BY <1>1, <1>2, <1>3, <1>4, <1>6, NoRequest DEF StageInv
<1>7. CASE ApplyGroup
  <2> DEFINE body(i, a) == [image |-> i, owner |-> None, ip |-> a, state |-> "Succeeded"]
  <2>1. PICK i \in Image, a \in Addr :
             \E cg \in Provisioned("base", body(i, a), "Succeeded") :
                group' = [group EXCEPT !["base"] = cg]
    BY <1>7 DEF ApplyGroup
  <2>2. PICK b \in (IF "base" \in Alive THEN {group["base"].ip}
                    ELSE Addr \ {group[m].ip : m \in Alive}) :
           group' = [group EXCEPT !["base"] = body(i, b)]
    <3>1. PICK cg \in Provisioned("base", body(i, a), "Succeeded") :
             group' = [group EXCEPT !["base"] = cg]
      BY <2>1
    <3>2. PICK b \in (IF "base" \in Alive THEN {group["base"].ip}
                      ELSE Addr \ {group[m].ip : m \in Alive}) :
             cg = [body(i, a) EXCEPT !.ip = b, !.state = "Succeeded"]
      BY DEF Provisioned
    <3>3. cg = body(i, b)
      BY <3>2
    <3> QED
      BY <3>1, <3>2, <3>3
  <2>3. b \in Addr /\ (group["base"] # Absent => b = group["base"].ip)
    BY <1>1, <2>2 DEF Alive, Group, Name
  <2>4. body(i, b) \in Group /\ body(i, b).ip = b
    BY <2>3 DEF Group
  <2>5. /\ group' \in [Name -> Group \cup {Absent}]
        /\ group'["side"] = group["side"]
        /\ group'["base"] # Absent /\ group'["base"].ip = b
    BY <1>1, <2>2, <2>4, ContainerGroupsAssumption DEF Name
  <2>6. kept' = [kept EXCEPT !.owner = None]
    BY <1>7 DEF ApplyGroup
  <2>7. /\ kept' \in [owner : Owner \cup {None}, rest : Nat \cup {None}]
        /\ kept'.owner = None /\ kept'.rest = kept.rest
    BY <1>1, <2>6
  <2>8. OthersKept'
    BY <1>2, <2>7 DEF DeployInv, OthersKept
  <2>9. KeptInv'
    BY <1>3, <2>7, NoRequest DEF DeployInv, KeptInv
  <2>10. GreenInv'
    BY <1>2, <1>3, <1>4, <1>7, <2>5, NoRequest DEF DeployInv, GreenInv, Switchable
  <2>11. Served'
    <3> SUFFICES ASSUME service = "bluegreen", Switchable, used.removals = 0
                 PROVE  \E n \in Name : group'[n] # Absent /\ group'[n].ip = gateway.pool
      BY <1>2, <1>4, <1>7 DEF Served, Alive, Switchable
    <3>1. PICK n \in Name : group[n] # Absent /\ group[n].ip = gateway.pool
      BY DEF DeployInv, Served, Alive, Switchable
    <3>2. group'[n] # Absent /\ group'[n].ip = gateway.pool
      BY <2>3, <2>5, <3>1 DEF Name
    <3> QED
      BY <3>2
  <2> QED
    BY <1>5, <1>6, <2>5, <2>7, <2>8, <2>9, <2>10, <2>11 DEF DeployInv
<1>8. CASE RemoveGroup
  <2>1. PICK n \in Alive :
          /\ group' = [group EXCEPT ![n] = Absent]
          /\ kept' = IF n = "base" THEN [kept EXCEPT !.owner = None] ELSE kept
    BY <1>8 DEF RemoveGroup
  <2>2. /\ group' \in [Name -> Group \cup {Absent}]
        /\ n # "base" => group'["base"] = group["base"]
    BY <1>1, <2>1 DEF Name
  <2>3. /\ kept' \in [owner : Owner \cup {None}, rest : Nat \cup {None}]
        /\ kept'.rest = kept.rest
        /\ IF n = "base" THEN kept'.owner = None ELSE kept'.owner = kept.owner
    BY <1>1, <2>1
  <2>4. OthersKept'
    BY <1>2, <2>2, <2>3 DEF DeployInv, OthersKept
  <2>5. KeptInv'
    BY <1>3, <2>3, NoRequest DEF DeployInv, KeptInv
  <2>6. GreenInv' /\ Served'
    BY <1>4, <1>8 DEF GreenInv, Served, Switchable
  <2> QED
    BY <1>5, <1>6, <2>2, <2>3, <2>4, <2>5, <2>6 DEF DeployInv
<1> QED
  BY <1>7, <1>8

LEMMA GatewayEdited ==
    ASSUME DeployInv, EditGateway, UNCHANGED <<todo, greenIP>>
    PROVE  DeployInv'
<1>1. /\ StageInv /\ used \in Counts /\ gateway \in Gateway /\ gateway # None
      /\ kept \in [owner : Owner \cup {None}, rest : Nat \cup {None}]
      /\ UNCHANGED <<service, group, call>>
  BY DEF EditGateway, DeployInv, StageInv
<1>2. used' \in Counts /\ used'.removals = used.removals
  <2>1. Act("edits")
    BY DEF EditGateway
  <2> QED
    BY <1>1, <2>1, Acted
<1>3. used.edits + 1 \in Nat
  BY <1>1 DEF Counts
<1>4. /\ gateway' \in Gateway /\ gateway'.pool = gateway.pool /\ gateway'.has = gateway.has
      /\ gateway'.rest = used.edits + 1
  BY <1>1, <1>3 DEF EditGateway, Gateway
<1>5. /\ kept' \in [owner : Owner \cup {None}, rest : Nat \cup {None}]
      /\ kept'.owner = kept.owner
      /\ kept'.rest = IF call.at = "putgw" THEN None ELSE used.edits + 1
  BY <1>1, <1>3 DEF EditGateway
<1>6. StageInv'
  BY <1>1, <1>2, <1>4, <1>5 DEF StageInv
<1>7. OthersKept' /\ KeptInv'
  BY <1>1, <1>4, <1>5 DEF DeployInv, OthersKept, KeptInv
<1>8. PromoteInv' /\ GreenInv' /\ Served'
  BY <1>1, <1>2, <1>4 DEF DeployInv, PromoteInv, GreenInv, Served, Alive, Switchable
<1> QED
  BY <1>6, <1>7, <1>8 DEF DeployInv

LEMMA OthersKeep ==
    ASSUME DeployInv, Others, UNCHANGED <<todo, greenIP>>
    PROVE  DeployInv'
  BY OwnerSet, GroupWritten, GatewayEdited DEF Others

-----------------------------------------------------------------------------
LEMMA DeployStep ==
    ASSUME DeployInv, [Next]_vars
    PROVE  DeployInv'
<1>1. ASSUME UNCHANGED <<service, group, gateway, call, kept, todo, greenIP>>,
             used' \in Counts, used'.removals = used.removals
      PROVE  DeployInv'
  BY <1>1 DEF DeployInv, StageInv, KeptInv, PromoteInv, GreenInv, OthersKept, Served,
              Alive, Switchable
<1>2. used \in Counts
  BY DEF DeployInv, StageInv
<1>3. CASE Deploying
  <2>1. service \in Strategy /\ (RolloutNext \/ (Others /\ UNCHANGED rolloutVars))
    BY <1>3 DEF Deploying
  <2>2. CASE Host
    BY <2>1, <2>2, HostKeeps
  <2>3. CASE Azure
    BY <2>3, ReadsKeep, PutsKeep, DeletesKeep, SwitchesKeep DEF Azure
  <2>4. CASE Restart
    BY <2>4, RestartKeeps
  <2>5. CASE Others /\ UNCHANGED rolloutVars
    BY <2>5, OthersKeep DEF rolloutVars
  <2> QED
    BY <2>1, <2>2, <2>3, <2>4, <2>5 DEF RolloutNext
<1>4. CASE Listing
  <2>1. OwnershipNext /\ UNCHANGED <<todo, greenIP>>
    BY <1>4 DEF Listing, rolloutVars
  <2>2. CASE ListOwners \/ NextPage \/ LastPage
    BY <1>1, <1>2, <2>1, <2>2 DEF ListOwners, NextPage, LastPage, groupVars
  <2>3. CASE PageFailed
    <3>1. Fault /\ UNCHANGED <<service, group, gateway, call, kept>>
      BY <2>3 DEF PageFailed
    <3> QED
      BY <1>1, <1>2, <2>1, <3>1, Faulted
  <2>4. CASE Observed
    BY <2>1, <2>4, OthersKeep DEF Observed
  <2> QED
    BY <2>1, <2>2, <2>3, <2>4 DEF OwnershipNext
<1>5. CASE Running \/ UNCHANGED vars
  BY <1>1, <1>2, <1>5 DEF Running, vars, groupVars, rolloutVars
<1> QED
  BY <1>3, <1>4, <1>5 DEF Next

(* The inductive invariant of the deployments.                               *)
THEOREM DeployInvariant == Spec => []DeployInv
<1>1. DeployInv /\ [Next]_vars => DeployInv'
  BY DeployStep
<1> QED
  BY <1>1, DeployInit, PTL DEF Spec

(* In a blue-green deployment the pool of the gateway has the address of a     *)
(* group that exists, through failures, repeated steps, a fresh start and new *)
(* processes, as long as nobody else removes a group.                        *)
THEOREM TrafficServed == Spec => []Served
<1>1. DeployInv => Served
  BY DEF DeployInv
<1> QED
  BY <1>1, DeployInvariant, PTL

(* The write-backs of Update, PromoteCanary and SwitchTraffic lose no owner    *)
(* tag and no change of the gateway that they could have read.               *)
THEOREM OwnersAndGatewayKept == Spec => []OthersKept
<1>1. DeployInv => OthersKept
  BY DEF DeployInv
<1> QED
  BY <1>1, DeployInvariant, PTL

(* The image of a canary that goes while its promotion deletes it.           *)
LEMMA SideGone ==
    ASSUME DeployInv, [Next]_vars, group["side"] # Absent, group'["side"] = Absent,
           used'.removals = used.removals, call.at = "delete", call.op = "promote",
           call.calm
    PROVE  group["base"] # Absent /\ group["base"].image = group["side"].image
  BY NoRequest DEF DeployInv, PromoteInv

(* PromoteCanary deletes the canary only when the stable group runs its image, *)
(* as far as nobody else wrote a group during the call.                      *)
THEOREM PromotionKeepsImage == Spec => PromoteKeeps
<1> DEFINE Keeps == call.at = "delete" /\ call.op = "promote" /\ call.calm
                      /\ used'.removals = used.removals
                      /\ group["side"] # Absent /\ group'["side"] = Absent
                    => /\ group["base"] # Absent
                       /\ group["base"].image = group["side"].image
<1>1. DeployInv /\ [Next]_vars => [Keeps]_groupVars
  BY SideGone
<1> QED
  BY <1>1, DeployInvariant, PTL DEF Spec, PromoteKeeps

(* Every variable of deployments, listings and jobs has its type.             *)
THEOREM ContainersTypeCorrect == Spec => []TypeOK
<1>1. Init => ListInv
  BY ListInit
<1>2. ListInv /\ [Next]_vars => ListInv'
  BY ListingStep
<1>3. DeployInv => service \in Services /\ RolloutTypeOK
  <2> SUFFICES ASSUME DeployInv PROVE service \in Services /\ RolloutTypeOK
    OBVIOUS
  <2>1. StageInv
    BY DEF DeployInv
  <2>2. todo \in Step
    BY <2>1 DEF StageInv, Stages, Strategy, Step
  <2>3. Op \subseteq Step
    BY DEF Op, Step
  <2> QED
    BY <2>1, <2>2, <2>3 DEF StageInv, RolloutTypeOK, CallOf, Gateway
<1>4. ListInv => OwnersTypeOK
  BY NoCall DEF ListInv, Listed, Sound, Call, OwnersTypeOK, NotListing
<1>5. JobInv => RunnerTypeOK
  BY DEF JobInv
<1>6. DeployInv /\ ListInv /\ JobInv => TypeOK
  BY <1>3, <1>4, <1>5 DEF TypeOK
<1> QED
  BY <1>1, <1>2, <1>6, DeployInvariant, JobsInv, PTL DEF Spec

-----------------------------------------------------------------------------
(* What is deployed when a deployment is done.                               *)

Quiet == used.applies = 0 /\ used.removals = 0

(* In a deployment only a driver's create writes the side; every call is for   *)
(* New.                                                                     *)
ImageInv ==
    /\ service \in Strategy /\ group["side"] # Absent => group["side"].image = New
    /\ call # Idle => call.image = New /\ (call.at = "put" => call.cg.image = New)

RollingInv ==
    service = "rolling" /\ Quiet =>
        /\ todo \in {"check", "done"} => group["base"] # Absent /\ group["base"].image = New
        /\ todo = "done" => group["base"].state = "Succeeded"

(* Green passed its HealthCheck, then has the traffic, then is alone.         *)
BlueGreenInv ==
    service = "bluegreen" /\ Quiet =>
        /\ todo \in {"switch", "destroy", "done"} =>
              group["side"] # Absent /\ group["side"].state = "Succeeded"
        /\ todo \in {"destroy", "done"} /\ Switchable =>
              gateway.pool = group["side"].ip
        /\ todo = "done" => group["base"] = Absent

(* The stable group is there, and runs New before the canary goes.            *)
CanaryInv ==
    service = "canary" /\ Quiet =>
        /\ group["base"] # Absent
        /\ (call.at = "delete" /\ call.op = "promote") \/ todo = "done" =>
              group["base"].image = New /\ group["base"].state = "Succeeded"
        /\ todo \in {"done", "aborted"} => group["side"] = Absent

DoneInv == ImageInv /\ RollingInv /\ BlueGreenInv /\ CanaryInv

(* A step that leaves the groups, but for their owners, and the pool as they   *)
(* are, and after which there is no less to do.                              *)
LEMMA DoneFrame ==
    ASSUME DoneInv, UNCHANGED service, Quiet' => Quiet,
           \A n \in Name :
               /\ group'[n] = Absent <=> group[n] = Absent
               /\ group[n] # Absent => /\ group'[n].image = group[n].image
                                       /\ group'[n].state = group[n].state
                                       /\ group'[n].ip = group[n].ip,
           gateway' = None <=> gateway = None,
           gateway # None => gateway'.pool = gateway.pool /\ gateway'.has = gateway.has,
           \/ todo' = todo \/ todo' \in {"update", "create", "promote"}
           \/ service = "canary" /\ todo' = "destroy",
           call' # Idle => call'.image = New /\ (call'.at = "put" => call'.cg.image = New),
           call'.at = "delete" /\ call'.op = "promote" =>
               call.at = "delete" /\ call.op = "promote"
    PROVE  DoneInv'
<1>1. "base" \in Name /\ "side" \in Name
  BY DEF Name
<1>2. ImageInv'
  BY <1>1 DEF DoneInv, ImageInv
<1>3. RollingInv'
  BY <1>1 DEF DoneInv, RollingInv
<1>4. BlueGreenInv'
  BY <1>1 DEF DoneInv, BlueGreenInv, Switchable
<1>5. CanaryInv'
  BY <1>1 DEF DoneInv, CanaryInv
<1> QED
  BY <1>2, <1>3, <1>4, <1>5 DEF DoneInv

(* A step that changes no object of Azure.                                   *)
LEMMA DoneUntouched ==
    ASSUME DoneInv, UNCHANGED <<service, group, gateway>>, Quiet' => Quiet,
           \/ todo' = todo \/ todo' \in {"update", "create", "promote"}
           \/ service = "canary" /\ todo' = "destroy",
           call' # Idle => call'.image = New /\ (call'.at = "put" => call'.cg.image = New),
           call'.at = "delete" /\ call'.op = "promote" =>
               call.at = "delete" /\ call.op = "promote"
    PROVE  DoneInv'
  BY DoneFrame

LEMMA FaultQuiet ==
    ASSUME used \in Counts, Fault
    PROVE  Quiet' <=> Quiet
  BY DEF Fault, Counts, Quiet

LEMMA FailGoesBack ==
    ASSUME service \in Strategy, todo \in Stages[service], Fail
    PROVE  /\ call' = Idle
           /\ todo' = todo \/ todo' \in {"update", "create"}
           /\ todo = "check" => todo' # "check"
  BY DEF Fail, FirstStep, Strategy, Stages

LEMMA DoneInit == Init => DoneInv
<1> SUFFICES ASSUME Init PROVE DoneInv
  OBVIOUS
<1>1. /\ call = Idle /\ (service \in Strategy => group["side"] = Absent)
      /\ group["base"] # Absent
  <2>1. PICK o \in FirstOwner, side \in Beside :
            group = [n \in Name |-> IF n = "base" THEN At(o, Home) ELSE side]
    BY DEF Init, GroupsInit
  <2>2. At(o, Home) \in Group /\ (service \in Strategy => side = Absent)
    BY ContainerGroupsAssumption DEF Beside, At, Group, Strategy
  <2> QED
    BY <2>1, <2>2, ContainerGroupsAssumption DEF Init, GroupsInit, Name
<1>2. service \in Strategy => todo \in {"update", "create"}
  BY DEF Init, RolloutInit, FirstStep
<1>3. call.at # "delete"
  BY <1>1, NoRequest
<1> QED
  BY <1>1, <1>2, <1>3 DEF DoneInv, ImageInv, RollingInv, BlueGreenInv, CanaryInv,
     Strategy, Switchable

LEMMA HostIsDone ==
    ASSUME DeployInv, DoneInv, Host, service \in Strategy
    PROVE  DoneInv'
<1>1. StageInv /\ todo \in Stages[service]
  BY DEF DeployInv, StageInv
<1>2. ASSUME NEW op, NEW at \in {"look", "image", "get", "delete", "getgw"},
             Begin(op, at), op = "promote" => at = "image"
      PROVE  DoneInv'
  <2>1. /\ call' = [op |-> op, at |-> at, image |-> New, cg |-> None, gw |-> None,
                    calm |-> TRUE]
        /\ UNCHANGED <<service, group, gateway, used, todo>>
    BY <1>2 DEF Begin
  <2>2. call'.image = New /\ call'.at = at /\ call'.op = op
    BY <2>1
  <2>3. Quiet' => Quiet
    BY <2>1 DEF Quiet
  <2> QED
    BY <1>2, <2>1, <2>2, <2>3, DoneUntouched
<1>3. CASE Update \/ CreateGreen \/ CreateCanary \/ HealthCheck
  BY <1>2, <1>3 DEF Update, CreateGreen, CreateCanary, HealthCheck
<1>4. CASE PromoteCanary \/ DestroyBlue \/ DestroyCanary \/ SwitchTraffic
  BY <1>2, <1>4 DEF PromoteCanary, DestroyBlue, DestroyCanary, SwitchTraffic
<1>5. CASE SwitchWithoutGateway
  <2>1. /\ todo = "switch" /\ todo' = "destroy" /\ gateway = None /\ call' = Idle
        /\ UNCHANGED <<service, group, gateway, used>>
    BY <1>5 DEF SwitchWithoutGateway, Stay
  <2>2. service = "bluegreen"
    BY <1>1, <2>1 DEF Stages, Strategy
  <2> QED
    BY <2>1, <2>2, NoRequest
       DEF DoneInv, ImageInv, RollingInv, BlueGreenInv, CanaryInv, Quiet, Switchable
<1>6. CASE EndpointMissing
  <2>1. /\ todo' = "create" /\ call' = Idle
        /\ UNCHANGED <<service, group, gateway, used>>
    BY <1>6 DEF EndpointMissing, Stay
  <2> QED
    BY <2>1, NoRequest, DoneUntouched DEF Quiet
<1>7. CASE RoutePercent
  <2>1. /\ todo = "gate" /\ todo' \in {"promote", "destroy"} /\ call' = Idle
        /\ UNCHANGED <<service, group, gateway, used>>
    BY <1>7 DEF RoutePercent, Stay
  <2>2. service = "canary"
    BY <1>1, <2>1 DEF Stages, Strategy
  <2> QED
    BY <2>1, <2>2, NoRequest, DoneUntouched DEF Quiet
<1> QED
  BY <1>3, <1>4, <1>5, <1>6, <1>7 DEF Host

(* HealthCheck is what lets a rolling update be done and the traffic go.       *)
LEMMA ReadIsDone ==
    ASSUME DeployInv, DoneInv,
           GetMissing \/ GetFailed \/ LookDone \/ GetDone \/ ImageDone \/ GetGateway
             \/ GatewayBare
    PROVE  DoneInv'
<1>1. StageInv /\ used \in Counts
  BY DEF DeployInv, StageInv
<1>2. call # Idle
  BY NoRequest
     DEF GetMissing, GetFailed, LookDone, GetDone, ImageDone, GetGateway, GatewayBare, Read
<1>3. /\ call \in CallOf /\ service \in Strategy /\ todo \in Stages[service]
      /\ call.op = todo /\ call.image = New
  BY <1>1, <1>2, AtWork DEF DoneInv, ImageInv
<1>4. UNCHANGED <<service, group, gateway>> /\ (Quiet' => Quiet)
  <2>1. GetFailed => Fault /\ UNCHANGED <<service, group, gateway>>
    BY DEF GetFailed
  <2>2. GetMissing \/ LookDone \/ GetDone \/ ImageDone \/ GetGateway \/ GatewayBare =>
           UNCHANGED <<service, group, gateway, used>>
    BY DEF GetMissing, LookDone, GetDone, ImageDone, GetGateway, GatewayBare
  <2> QED
    BY <1>1, <2>1, <2>2, FaultQuiet DEF Quiet
<1>5. CASE Fail
  <2>1. call' = Idle /\ (todo' = todo \/ todo' \in {"update", "create"})
    BY <1>3, <1>5, FailGoesBack
  <2> QED
    BY <1>4, <2>1, NoRequest, DoneUntouched
<1>6. CASE LookDone /\ Succeed
  <2>1. /\ call' = Idle /\ todo' = Plan[service][todo] /\ call.at = "look"
        /\ UNCHANGED used /\ (group[Looked].state = "Succeeded" \/ Fail)
    BY <1>6 DEF LookDone, Succeed
  <2>2. group[Looked] # Absent /\ todo = "check"
    BY <1>1, <1>2, <1>6, StepOf DEF LookDone
  <2>3. CASE Fail
    BY <1>5, <2>3
  <2>4. CASE group[Looked].state = "Succeeded"
    <3>1. /\ service = "rolling" => todo' = "done" /\ Looked = "base"
          /\ service = "bluegreen" => todo' = "switch" /\ Looked = "side"
          /\ service = "canary" => todo' = "gate"
      BY <2>1, <2>2 DEF Plan, Looked
    <3>2. ImageInv'
      BY <1>4, <2>1 DEF DoneInv, ImageInv
    <3>3. RollingInv'
      BY <1>4, <2>2, <2>4, <3>1 DEF DoneInv, RollingInv
    <3>4. BlueGreenInv'
      BY <1>4, <2>2, <2>4, <3>1 DEF DoneInv, BlueGreenInv, Switchable
    <3>5. CanaryInv'
      BY <1>4, <2>1, <3>1, NoRequest DEF DoneInv, CanaryInv
    <3> QED
      BY <3>2, <3>3, <3>4, <3>5 DEF DoneInv
  <2> QED
    BY <2>1, <2>3, <2>4
<1>7. CASE GetDone \/ ImageDone \/ GetGateway
  <2>1. UNCHANGED todo
    BY <1>7 DEF GetDone, ImageDone, GetGateway
  <2>2. call'.image = New /\ call'.at # "delete" /\ (call'.at = "put" => call'.cg.image = New)
    <3>1. CASE GetDone
      <4>1. /\ call' = [call EXCEPT !.at = "put", !.cg = Body(group["base"])]
            /\ group["base"] \in Group
        BY <1>1, <3>1 DEF GetDone, StageInv, Name
      <4>2. Body(group["base"]).image = New
        BY <1>3, <4>1 DEF Body, Group
      <4> QED
        BY <1>3, <4>1, <4>2 DEF CallOf
    <3>2. CASE ImageDone
      <4>1. /\ call' = [call EXCEPT !.at = "get", !.image = group["side"].image]
            /\ group["side"].image = New
        BY <1>3, <3>2 DEF ImageDone, DoneInv, ImageInv
      <4> QED
        BY <1>3, <4>1 DEF CallOf
    <3>3. CASE GetGateway
      BY <1>3, <3>3 DEF GetGateway, CallOf
    <3> QED
      BY <1>7, <3>1, <3>2, <3>3
  <2> QED
    BY <1>4, <2>1, <2>2, DoneUntouched
<1>8. LookDone => Succeed \/ Fail
  BY DEF LookDone
<1> QED
  BY <1>5, <1>6, <1>7, <1>8 DEF GetMissing, GetFailed, GatewayBare

(* A PUT that is answered wrote New, in state Succeeded, to its group only.     *)
LEMMA PutIsDone ==
    ASSUME DeployInv, DoneInv, PutDone \/ PutFailed
    PROVE  DoneInv'
<1>1. /\ call.at = "put" /\ StageInv /\ used \in Counts
      /\ group \in [Name -> Group \cup {Absent}]
      /\ UNCHANGED <<service, gateway>>
  BY DEF PutDone, PutFailed, DeployInv, StageInv
<1>2. /\ call # Idle /\ call \in CallOf /\ service \in Strategy /\ call.op = todo
      /\ todo \in Stages[service] /\ todo \in {"update", "create", "promote"}
      /\ todo = "update" => service = "rolling"
      /\ todo = "promote" => service = "canary"
      /\ call.cg.image = New /\ call.image = New
  BY <1>1, NoRequest, AtWork, StepOf DEF DoneInv, ImageInv
<1>3. Quiet' => Quiet
  <2>1. PutFailed => Fault
    BY DEF PutFailed
  <2>2. PutDone => UNCHANGED used
    BY DEF PutDone
  <2> QED
    BY <1>1, <2>1, <2>2, FaultQuiet DEF Quiet
<1>4. ASSUME NEW state \in {"Succeeded", "Failed"},
             NEW cg \in Provisioned(Target, call.cg, state),
             group' = [group EXCEPT ![Target] = cg]
      PROVE  /\ cg # Absent /\ cg.image = New /\ cg.state = state
             /\ todo = "create" => group'["side"] = cg /\ group'["base"] = group["base"]
             /\ todo # "create" => group'["base"] = cg /\ group'["side"] = group["side"]
  <2>1. /\ cg # Absent /\ cg.image = call.cg.image
        /\ Target = IF todo = "create" THEN "side" ELSE "base"
        /\ group'[Target] = cg
        /\ \A n \in Name \ {Target} : group'[n] = group[n]
    BY <1>1, <1>4, PutMoves
  <2>2. call.cg \in Group
    BY <1>1, <1>2, AtWork
  <2>3. cg.state = state
    BY <1>4, <2>2 DEF Provisioned, Group
  <2> QED
    BY <1>2, <2>1, <2>3 DEF Name
<1>5. CASE PutDone
  <2>1. PICK cg \in Provisioned(Target, call.cg, "Succeeded") :
          group' = [group EXCEPT ![Target] = cg]
    BY <1>5 DEF PutDone
  <2>2. /\ cg # Absent /\ cg.image = New /\ cg.state = "Succeeded"
        /\ todo = "create" => group'["side"] = cg /\ group'["base"] = group["base"]
        /\ todo # "create" => group'["base"] = cg /\ group'["side"] = group["side"]
    BY <1>4, <2>1
  <2>3. IF todo = "promote"
        THEN call' = [call EXCEPT !.at = "delete"] /\ todo' = todo
        ELSE call' = Idle /\ todo' = "check"
    <3>1. todo # "promote" => Plan[service][todo] = "check"
      BY <1>2 DEF Plan, Strategy, Stages
    <3> QED
      BY <1>2, <1>5, <3>1 DEF PutDone, Succeed
  <2>4. call' # Idle => call'.image = New /\ call'.at = "delete"
    BY <1>2, <2>3 DEF CallOf
  <2>5. ImageInv'
    BY <1>1, <1>2, <2>2, <2>4 DEF DoneInv, ImageInv
  <2>6. RollingInv'
    BY <1>1, <1>2, <2>2, <2>3 DEF RollingInv, Strategy, Stages
  <2>7. BlueGreenInv'
    BY <1>1, <1>2, <2>3 DEF BlueGreenInv, Switchable
  <2>8. CanaryInv'
    BY <1>1, <1>2, <1>3, <2>2, <2>3, NoRequest DEF DoneInv, CanaryInv
  <2> QED
    BY <2>5, <2>6, <2>7, <2>8 DEF DoneInv
<1>6. CASE PutFailed
  <2>1. /\ call' = Idle /\ todo' \in {"update", "create", "promote"}
        /\ UNCHANGED gateway /\ PutEffect
    BY <1>2, <1>6, FailGoesBack DEF PutFailed
  <2>2. CASE UNCHANGED group
    BY <1>1, <1>3, <2>1, <2>2, NoRequest, DoneUntouched
  <2>3. ASSUME NEW state \in {"Succeeded", "Failed"},
               NEW cg \in Provisioned(Target, call.cg, state),
               group' = [group EXCEPT ![Target] = cg]
        PROVE  DoneInv'
    <3>1. /\ cg # Absent /\ cg.image = New
          /\ todo = "create" => group'["side"] = cg /\ group'["base"] = group["base"]
          /\ todo # "create" => group'["base"] = cg /\ group'["side"] = group["side"]
      BY <1>4, <2>3
    <3>2. ImageInv'
      BY <1>1, <1>2, <2>1, <3>1 DEF DoneInv, ImageInv
    <3>3. RollingInv' /\ BlueGreenInv'
      BY <2>1 DEF RollingInv, BlueGreenInv, Switchable
    <3>4. CanaryInv'
      BY <1>1, <1>3, <2>1, <3>1, NoRequest DEF DoneInv, CanaryInv
    <3> QED
      BY <3>2, <3>3, <3>4 DEF DoneInv
  <2> QED
    BY <2>1, <2>2, <2>3 DEF PutEffect
<1> QED
  BY <1>5, <1>6

(* An answered delete ends the deployment.                                   *)
LEMMA DeleteIsDone ==
    ASSUME DeployInv, DoneInv, DeleteDone \/ DeleteFailed
    PROVE  DoneInv'
<1>1. /\ call.at = "delete" /\ StageInv /\ used \in Counts
      /\ group \in [Name -> Group \cup {Absent}]
      /\ UNCHANGED <<service, gateway>>
  BY DEF DeleteDone, DeleteFailed, DeployInv, StageInv
<1>2. /\ call # Idle /\ call \in CallOf /\ service \in {"bluegreen", "canary"}
      /\ call.op = todo /\ todo \in Stages[service] /\ todo \in {"promote", "destroy"}
      /\ todo = "promote" => service = "canary"
  BY <1>1, NoRequest, AtWork, StepOf
<1>3. WithoutDoomed =>
        /\ service = "bluegreen" => group'["base"] = Absent /\ group'["side"] = group["side"]
        /\ service = "canary" => group'["side"] = Absent /\ group'["base"] = group["base"]
  BY <1>1, <1>2 DEF WithoutDoomed, Doomed, Name
<1>4. CASE DeleteDone
  <2>1. WithoutDoomed /\ UNCHANGED used /\ call' = Idle /\ todo' = Plan[service][todo]
    BY <1>4 DEF DeleteDone, Succeed
  <2>2. /\ service = "bluegreen" => todo' = "done" /\ todo = "destroy"
        /\ service = "canary" => todo' = IF todo = "promote" THEN "done" ELSE "aborted"
    BY <1>2, <2>1 DEF Plan
  <2>3. ImageInv'
    BY <1>1, <1>2, <1>3, <2>1 DEF DoneInv, ImageInv
  <2>4. RollingInv'
    BY <1>1, <1>2 DEF RollingInv
  <2>5. BlueGreenInv'
    BY <1>1, <1>3, <2>1, <2>2 DEF DoneInv, BlueGreenInv, Quiet, Switchable
  <2>6. CanaryInv'
    BY <1>1, <1>2, <1>3, <2>1, <2>2, NoRequest DEF DoneInv, CanaryInv, Quiet
  <2> QED
    BY <2>3, <2>4, <2>5, <2>6 DEF DoneInv
<1>5. CASE DeleteFailed
  <2>1. /\ WithoutDoomed \/ UNCHANGED group
        /\ Fault /\ Fail
    BY <1>5 DEF DeleteFailed
  <2>2. Quiet' => Quiet
    BY <1>1, <2>1, FaultQuiet
  <2>3. /\ call' = Idle /\ todo' \in {"update", "create", "promote", "destroy"}
        /\ todo' = "destroy" => todo = "destroy"
    BY <1>2, <2>1, FailGoesBack DEF Strategy
  <2>4. CASE UNCHANGED group
    BY <1>1, <2>1, <2>2, <2>3, <2>4, <1>2, NoRequest, FailGoesBack, DoneUntouched
       DEF Strategy
  <2>5. CASE WithoutDoomed
    <3>1. ImageInv'
      BY <1>1, <1>2, <1>3, <2>3, <2>5 DEF DoneInv, ImageInv
    <3>2. RollingInv'
      BY <1>1, <1>2 DEF RollingInv
    <3>3. BlueGreenInv'
      BY <1>1, <1>3, <2>2, <2>3, <2>5 DEF DoneInv, BlueGreenInv, Switchable
    <3>4. CanaryInv'
      BY <1>1, <1>3, <2>2, <2>3, <2>5, NoRequest DEF DoneInv, CanaryInv
    <3> QED
      BY <3>1, <3>2, <3>3, <3>4 DEF DoneInv
  <2> QED
    BY <2>1, <2>4, <2>5
<1> QED
  BY <1>4, <1>5

LEMMA SwitchIsDone ==
    ASSUME DeployInv, DoneInv, PutGatewayDone \/ PutGatewayFailed
    PROVE  DoneInv'
<1>1. /\ call.at = "putgw" /\ StageInv /\ used \in Counts
      /\ UNCHANGED <<service, group>>
  BY DEF PutGatewayDone, PutGatewayFailed, DeployInv, StageInv
<1>2. /\ call # Idle /\ todo = "switch" /\ service = "bluegreen" /\ service \in Strategy
      /\ todo \in Stages[service] /\ greenIP \in Addr /\ gateway \in Gateway
  BY <1>1, NoRequest, AtWork, StepOf
<1>3. Quiet => /\ group["side"].ip = greenIP
               /\ call.gw.has # "others" => call.gw.pool = greenIP
  BY <1>1, <1>2, ContainerGroupsAssumption DEF DeployInv, GreenInv, Quiet, Gateway, Switchable
<1>4. /\ Quiet' => Quiet
      /\ call' = Idle /\ todo' \in {"destroy", "update", "create", "switch"}
      /\ todo' = "destroy" => gateway' = call.gw
  <2>1. CASE PutGatewayDone
    <3>1. Succeed /\ UNCHANGED used /\ gateway' = call.gw
      BY <2>1 DEF PutGatewayDone
    <3> QED
      BY <1>2, <3>1 DEF Succeed, Plan, Quiet
  <2>2. CASE PutGatewayFailed
    <3>1. Fault /\ Fail
      BY <2>2 DEF PutGatewayFailed
    <3> QED
      BY <1>1, <1>2, <3>1, FaultQuiet, FailGoesBack
  <2> QED
    BY <2>1, <2>2
<1>5. ImageInv'
  BY <1>1, <1>4 DEF DoneInv, ImageInv
<1>6. RollingInv' /\ CanaryInv'
  BY <1>1, <1>2 DEF RollingInv, CanaryInv
<1>7. BlueGreenInv'
  BY <1>1, <1>2, <1>3, <1>4 DEF DoneInv, BlueGreenInv, Switchable
<1> QED
  BY <1>5, <1>6, <1>7 DEF DoneInv

(* What another writes is no longer the deployment's; owners and the rest of   *)
(* the gateway are no matter.                                               *)
LEMMA OtherIsDone ==
    ASSUME DeployInv, DoneInv, Others, UNCHANGED <<todo, greenIP>>
    PROVE  DoneInv'
<1>1. /\ StageInv /\ used \in Counts /\ group \in [Name -> Group \cup {Absent}]
      /\ UNCHANGED service
  BY DEF Others, SetOwner, ApplyGroup, RemoveGroup, EditGateway, DeployInv, StageInv
<1>2. ASSUME NEW a \in {"tags", "edits"}, Act(a)
      PROVE  Quiet' => Quiet
  BY <1>1, <1>2 DEF Act, Counts, Quiet
<1>3. CASE SetOwner
  <2>1. PICK n \in Alive, o \in Owner : group' = [group EXCEPT ![n].owner = o]
    BY <1>3 DEF SetOwner
  <2>2. n \in Name /\ group[n] \in Group /\ [group[n] EXCEPT !.owner = o] \in Group
    BY <1>1, <2>1 DEF Alive, Group
  <2>3. \A m \in Name :
           /\ group'[m] = Absent <=> group[m] = Absent
           /\ group[m] # Absent => /\ group'[m].image = group[m].image
                                   /\ group'[m].state = group[m].state
                                   /\ group'[m].ip = group[m].ip
    BY <1>1, <2>1, <2>2, ContainerGroupsAssumption DEF Group
  <2>4. (Quiet' => Quiet) /\ UNCHANGED <<gateway, call>>
    BY <1>2, <1>3 DEF SetOwner
  <2>5. call # Idle => call.image = New /\ (call.at = "put" => call.cg.image = New)
    BY DEF DoneInv, ImageInv
  <2> QED
    BY <1>1, <2>3, <2>4, <2>5, DoneFrame
<1>4. CASE EditGateway
  <2>1. /\ gateway # None /\ gateway' = [gateway EXCEPT !.rest = used.edits + 1]
        /\ UNCHANGED <<group, call>> /\ (Quiet' => Quiet)
    BY <1>2, <1>4 DEF EditGateway
  <2>2. gateway \in Gateway /\ used.edits + 1 \in Nat
    BY <1>1, <2>1 DEF StageInv, Counts
  <2>3. /\ gateway' \in Gateway /\ gateway'.pool = gateway.pool
        /\ gateway'.has = gateway.has
    BY <2>1, <2>2 DEF Gateway
  <2>4. gateway' # None
    BY <2>3, ContainerGroupsAssumption DEF Gateway
  <2>5. call # Idle => call.image = New /\ (call.at = "put" => call.cg.image = New)
    BY DEF DoneInv, ImageInv
  <2> QED
    BY <1>1, <2>1, <2>3, <2>4, <2>5, DoneFrame
<1>5. CASE ApplyGroup \/ RemoveGroup
  <2>1. ~Quiet'
    <3>1. Act("applies") \/ Act("removals")
      BY <1>5 DEF ApplyGroup, RemoveGroup
    <3> QED
      BY <1>1, <3>1 DEF Act, Counts, Quiet
  <2>2. group'["side"] = group["side"] \/ group'["side"] = Absent
    BY <1>1, <1>5 DEF ApplyGroup, RemoveGroup, Name, Alive
  <2>3. call' # Idle => call'.image = New /\ (call'.at = "put" => call'.cg.image = New)
    <3>1. CASE call = Idle
      BY <1>5, <3>1 DEF ApplyGroup, RemoveGroup, Disturb
    <3>2. CASE call # Idle
      <4>1. call \in CallOf /\ call' = [call EXCEPT !.calm = FALSE]
        BY <1>1, <1>5, <3>2, AtWork DEF ApplyGroup, RemoveGroup, Disturb
      <4> QED
        BY <3>2, <4>1 DEF CallOf, DoneInv, ImageInv
    <3> QED
      BY <3>1, <3>2
  <2>4. ImageInv'
    BY <1>1, <2>2, <2>3 DEF DoneInv, ImageInv
  <2> QED
    BY <2>1, <2>4 DEF DoneInv, RollingInv, BlueGreenInv, CanaryInv, Switchable
<1> QED
  BY <1>3, <1>4, <1>5 DEF Others

LEMMA DoneStep ==
    ASSUME DeployInv, DoneInv, [Next]_vars
    PROVE  DoneInv'
<1>1. used \in Counts
  BY DEF DeployInv, StageInv
<1>2. ASSUME UNCHANGED <<service, group, gateway, call, todo>>, Quiet' => Quiet
      PROVE  DoneInv'
  BY <1>2, DoneUntouched DEF DoneInv, ImageInv
<1>3. CASE Deploying
  <2>1. service \in Strategy /\ (RolloutNext \/ (Others /\ UNCHANGED <<todo, greenIP>>))
    BY <1>3 DEF Deploying, rolloutVars
  <2>2. CASE Host
    BY <2>1, <2>2, HostIsDone
  <2>3. CASE Azure
    BY <2>3, ReadIsDone, PutIsDone, DeleteIsDone, SwitchIsDone DEF Azure
  <2>4. CASE Restart
    <3>1. /\ UNCHANGED <<service, group, gateway, call, todo>>
          /\ used' = [used EXCEPT !.restarts = @ + 1]
      BY <2>4 DEF Restart
    <3>2. Quiet' => Quiet
      BY <1>1, <3>1 DEF Quiet, Counts
    <3> QED
      BY <1>2, <3>1, <3>2
  <2>5. CASE Others /\ UNCHANGED <<todo, greenIP>>
    BY <2>5, OtherIsDone
  <2> QED
    BY <2>1, <2>2, <2>3, <2>4, <2>5 DEF RolloutNext
<1>4. CASE Listing
  <2>1. OwnershipNext /\ UNCHANGED <<todo, greenIP>>
    BY <1>4 DEF Listing, rolloutVars
  <2>2. CASE ListOwners \/ NextPage \/ LastPage
    BY <1>2, <2>1, <2>2 DEF ListOwners, NextPage, LastPage, groupVars, Quiet
  <2>3. CASE PageFailed
    <3>1. Fault /\ UNCHANGED <<service, group, gateway, call>>
      BY <2>3 DEF PageFailed
    <3> QED
      BY <1>1, <1>2, <2>1, <3>1, FaultQuiet
  <2>4. CASE Observed
    BY <2>1, <2>4, OtherIsDone DEF Observed
  <2> QED
    BY <2>1, <2>2, <2>3, <2>4 DEF OwnershipNext
<1>5. CASE Running \/ UNCHANGED vars
  BY <1>2, <1>5 DEF Running, vars, groupVars, rolloutVars, Quiet
<1> QED
  BY <1>3, <1>4, <1>5 DEF Next

(* A deployment whose steps are done is what was asked for, whichever strategy, *)
(* after any failures, repetitions and restarts.                             *)
THEOREM DoneDeployments == Spec => []DoneIsDeployed
<1>1. DeployInv /\ DoneInv /\ [Next]_vars => DoneInv'
  BY DoneStep
<1>2. DeployInv /\ DoneInv => DoneIsDeployed
  <2> SUFFICES ASSUME DeployInv, DoneInv, service \in Strategy, Quiet,
                      todo \in {"done", "aborted"}
               PROVE  Deployed /\ (todo = "done" => group[Serving].state = "Succeeded")
    BY DEF DoneIsDeployed, Quiet
  <2>1. todo \in Stages[service]
    BY DEF DeployInv, StageInv
  <2>2. CASE service = "rolling"
    BY <2>1, <2>2 DEF DoneInv, RollingInv, Deployed, Serving, Stages, Switchable
  <2>3. CASE service = "bluegreen"
    BY <2>1, <2>3 DEF DoneInv, ImageInv, BlueGreenInv, Deployed, Serving, Stages, Switchable
  <2>4. CASE service = "canary"
    BY <2>4 DEF DoneInv, CanaryInv, Deployed, Serving, Switchable
  <2> QED
    BY <2>2, <2>3, <2>4 DEF Strategy
<1> QED
  BY <1>1, <1>2, DoneInit, DeployInvariant, PTL DEF Spec

-----------------------------------------------------------------------------
(* What becomes of a gateway without the configured pool.                     *)

Unnamed == service = "bluegreen" /\ gateway # None /\ gateway.has = "others"

(* It keeps the address of blue, which green never gets while blue has it.    *)
StrandInv ==
    Unnamed /\ Quiet =>
        /\ gateway.pool = Home
        /\ group["base"] # Absent => group["base"].ip = Home
        /\ group["side"] # Absent => group["side"].ip # Home
        /\ call.at = "put" => group["base"] # Absent
        /\ call.at = "putgw" => call.gw.pool = Home

(* A step that leaves addresses as they are and writes what was read.          *)
LEMMA StrandFrame ==
    ASSUME StrandInv, UNCHANGED service, Quiet' => Quiet,
           \A n \in Name :
               /\ group'[n] = Absent <=> group[n] = Absent
               /\ group[n] # Absent => group'[n].ip = group[n].ip,
           gateway' = None <=> gateway = None,
           gateway # None => gateway'.pool = gateway.pool /\ gateway'.has = gateway.has,
           call'.at = "put" => call.at = "put" \/ group["base"] # Absent,
           call'.at = "putgw" =>
               \/ call.at = "putgw" /\ call'.gw.pool = call.gw.pool
               \/ gateway.has = "others" => call'.gw.pool = gateway.pool
    PROVE  StrandInv'
<1>1. "base" \in Name /\ "side" \in Name
  BY DEF Name
<1> QED
  BY <1>1 DEF StrandInv, Unnamed

LEMMA StrandInit == Init => StrandInv
<1> SUFFICES ASSUME Init, Unnamed PROVE StrandInv
  BY DEF StrandInv
<1>1. call = Idle /\ gateway \in Gateways
  BY DEF Init, GroupsInit, Unnamed
<1>2. PICK o \in FirstOwner, side \in Beside :
          group = [n \in Name |-> IF n = "base" THEN At(o, Home) ELSE side]
  BY DEF Init, GroupsInit
<1>3. group["base"].ip = Home /\ group["side"] = Absent
  BY <1>2 DEF Beside, At, Name, Unnamed
<1> QED
  BY <1>1, <1>3, NoRequest DEF StrandInv, Gateways

LEMMA StrandStep ==
    ASSUME DeployInv, StrandInv, [Next]_vars
    PROVE  StrandInv'
<1>1. /\ StageInv /\ used \in Counts /\ group \in [Name -> Group \cup {Absent}]
      /\ service' = service
  BY ServiceStays DEF DeployInv, StageInv
<1> SUFFICES ASSUME service = "bluegreen"
             PROVE  StrandInv'
  BY <1>1 DEF StrandInv, Unnamed
<1>2. ASSUME UNCHANGED <<group, gateway>>, Quiet' => Quiet,
             call' = call \/ call'.at \notin {"put", "putgw"}
      PROVE  StrandInv'
  BY <1>1, <1>2, StrandFrame
<1>3. CASE Host
  <2>1. ASSUME NEW op, NEW at \in {"look", "image", "get", "delete", "getgw"},
               Begin(op, at)
        PROVE  StrandInv'
    <3>1. UNCHANGED <<group, gateway, used>> /\ call'.at = at
      BY <2>1 DEF Begin
    <3> QED
      BY <1>2, <3>1 DEF Quiet
  <2>2. ASSUME Stay PROVE StrandInv'
    BY <1>2, <2>2 DEF Stay, Quiet
  <2> QED
    BY <1>3, <2>1, <2>2
       DEF Host, Update, CreateGreen, CreateCanary, HealthCheck, PromoteCanary,
           DestroyBlue, DestroyCanary, SwitchTraffic, SwitchWithoutGateway,
           EndpointMissing, RoutePercent
<1>4. CASE GetMissing \/ GetFailed \/ LookDone \/ ImageDone \/ GatewayBare
  <2>1. UNCHANGED <<group, gateway>> /\ (UNCHANGED used \/ Fault)
    BY <1>4 DEF GetMissing, GetFailed, LookDone, ImageDone, GatewayBare
  <2>2. Quiet' => Quiet
    BY <1>1, <2>1, FaultQuiet DEF Quiet
  <2>3. call'.at \notin {"put", "putgw"}
    <3>1. CASE ImageDone
      <4>1. call \in CallOf /\ call' = [call EXCEPT !.at = "get",
                                                    !.image = group["side"].image]
        BY <1>1, <3>1, NoRequest, AtWork DEF ImageDone
      <4> QED
        BY <4>1 DEF CallOf
    <3>2. CASE ~ImageDone
      BY <1>4, <3>2, NoRequest
         DEF GetMissing, GetFailed, LookDone, GatewayBare, Fail, Succeed
    <3> QED
      BY <3>1, <3>2
  <2> QED
    BY <1>2, <2>1, <2>2, <2>3
<1>5. CASE GetDone \/ GetGateway
  <2>1. /\ call \in CallOf /\ UNCHANGED <<group, gateway, used>>
    BY <1>1, <1>5, NoRequest, AtWork DEF GetDone, GetGateway
  <2>2. \/ call'.at = "put" /\ group["base"] # Absent
        \/ /\ call'.at = "putgw"
           /\ gateway.has = "others" => call'.gw.pool = gateway.pool
    BY <1>5, <2>1 DEF GetDone, GetGateway, Switched, CallOf
  <2> QED
    BY <1>1, <2>1, <2>2, StrandFrame DEF Quiet
<1>6. CASE PutDone \/ PutFailed
  <2>1. call.at = "put" /\ UNCHANGED gateway /\ (UNCHANGED used \/ Fault)
    BY <1>6 DEF PutDone, PutFailed
  <2>2. Quiet' => Quiet
    BY <1>1, <2>1, FaultQuiet DEF Quiet
  <2>3. call # Idle /\ todo = "create" /\ Target = "side" /\ call.cg \in Group
    BY <1>1, <2>1, NoRequest, AtWork, StepOf DEF Target
  <2>4. call' = Idle
    BY <1>1, <1>6, <2>3, AtWork DEF PutDone, PutFailed, Succeed, Fail
  <2>5. CASE UNCHANGED group
    BY <1>2, <2>1, <2>2, <2>4, <2>5, NoRequest
  <2>6. ASSUME NEW state \in {"Succeeded", "Failed"},
               NEW cg \in Provisioned(Target, call.cg, state),
               group' = [group EXCEPT ![Target] = cg]
        PROVE  StrandInv'
    <3> SUFFICES ASSUME Unnamed, Quiet PROVE StrandInv'
      BY <1>1, <2>1, <2>2 DEF StrandInv, Unnamed
    <3>1. /\ group'["side"] = cg /\ group'["base"] = group["base"]
          /\ group["side"] # Absent => cg.ip = group["side"].ip
      BY <2>1, <2>3, <2>6, PutMoves DEF Name
    <3>2. "base" \in Alive /\ group["base"].ip = Home
      BY <2>1 DEF StrandInv, Alive, Name
    <3>3. group["side"] = Absent => cg.ip # Home
      <4> SUFFICES ASSUME group["side"] = Absent PROVE cg.ip # Home
        OBVIOUS
      <4>1. PICK a \in Addr \ {group[m].ip : m \in Alive} :
                cg = [call.cg EXCEPT !.ip = a, !.state = state]
        BY <2>3, <2>6 DEF Provisioned, Alive
      <4> QED
        BY <2>3, <3>2, <4>1 DEF Group
    <3> QED
      BY <2>1, <2>4, <3>1, <3>2, <3>3, NoRequest DEF StrandInv, Unnamed
  <2> QED
    BY <1>6, <2>5, <2>6 DEF PutDone, PutFailed, PutEffect
<1>7. CASE DeleteDone \/ DeleteFailed
  <2>1. /\ UNCHANGED gateway /\ (UNCHANGED used \/ Fault) /\ call' = Idle
        /\ WithoutDoomed \/ UNCHANGED group
    BY <1>7 DEF DeleteDone, DeleteFailed, Succeed, Fail
  <2>2. Quiet' => Quiet
    BY <1>1, <2>1, FaultQuiet DEF Quiet
  <2>3. CASE UNCHANGED group
    BY <1>2, <2>1, <2>2, <2>3, NoRequest
  <2>4. CASE WithoutDoomed
    <3>1. group'["base"] = Absent /\ group'["side"] = group["side"]
      BY <1>1, <2>4 DEF WithoutDoomed, Doomed, Name
    <3> QED
      BY <1>1, <2>1, <2>2, <3>1, NoRequest DEF StrandInv, Unnamed
  <2> QED
    BY <2>1, <2>3, <2>4
<1>8. CASE PutGatewayDone \/ PutGatewayFailed
  <2>1. /\ call.at = "putgw" /\ UNCHANGED group /\ (UNCHANGED used \/ Fault)
        /\ gateway' \in {gateway, call.gw} /\ call' = Idle
    BY <1>8 DEF PutGatewayDone, PutGatewayFailed, Succeed, Fail
  <2>2. Quiet' => Quiet
    BY <1>1, <2>1, FaultQuiet DEF Quiet
  <2>3. Quiet => call.gw.has = gateway.has
    BY <2>1 DEF DeployInv, GreenInv, Quiet
  <2>4. gateway # None
    BY <1>1, <2>1, NoRequest, AtWork, ContainerGroupsAssumption
  <2> QED
    BY <1>1, <2>1, <2>2, <2>3, <2>4, NoRequest DEF StrandInv, Unnamed
<1>9. CASE Restart
  <2>1. /\ UNCHANGED <<group, gateway, call>>
        /\ used' = [used EXCEPT !.restarts = @ + 1]
    BY <1>9 DEF Restart
  <2> QED
    BY <1>1, <1>2, <2>1 DEF Quiet, Counts
<1>10. CASE Others
  <2>1. ASSUME NEW a \in {"tags", "edits"}, Act(a)
        PROVE  Quiet' => Quiet
    BY <1>1, <2>1 DEF Act, Counts, Quiet
  <2>2. CASE SetOwner
    <3>1. PICK n \in Alive, o \in Owner : group' = [group EXCEPT ![n].owner = o]
      BY <2>2 DEF SetOwner
    <3>2. n \in Name /\ group[n] \in Group /\ [group[n] EXCEPT !.owner = o] \in Group
      BY <1>1, <3>1 DEF Alive, Group
    <3>3. \A m \in Name :
             /\ group'[m] = Absent <=> group[m] = Absent
             /\ group[m] # Absent => group'[m].ip = group[m].ip
      BY <1>1, <3>1, <3>2, ContainerGroupsAssumption DEF Group
    <3> QED
      BY <1>1, <2>1, <2>2, <3>3, StrandFrame DEF SetOwner
  <2>3. CASE EditGateway
    <3>1. /\ gateway # None /\ gateway' = [gateway EXCEPT !.rest = used.edits + 1]
          /\ UNCHANGED <<group, call>> /\ (Quiet' => Quiet)
      BY <2>1, <2>3 DEF EditGateway
    <3>2. gateway \in Gateway /\ used.edits + 1 \in Nat
      BY <1>1, <3>1 DEF StageInv, Counts
    <3>3. /\ gateway' \in Gateway /\ gateway'.pool = gateway.pool
          /\ gateway'.has = gateway.has
      BY <3>1, <3>2 DEF Gateway
    <3>4. gateway' # None
      BY <3>3, ContainerGroupsAssumption
    <3> QED
      BY <1>1, <3>1, <3>3, <3>4, StrandFrame
  <2>4. CASE ApplyGroup \/ RemoveGroup
    <3>1. Act("applies") \/ Act("removals")
      BY <2>4 DEF ApplyGroup, RemoveGroup
    <3>2. ~Quiet'
      BY <1>1, <3>1 DEF Act, Counts, Quiet
    <3> QED
      BY <3>2 DEF StrandInv
  <2> QED
    BY <1>10, <2>2, <2>3, <2>4 DEF Others
<1>11. CASE UNCHANGED vars
  BY <1>2, <1>11 DEF vars, groupVars, Quiet
<1>12. Host \/ Azure \/ Restart \/ Others \/ UNCHANGED vars
  BY DEF Next, Deploying, Listing, Running, RolloutNext, Strategy
<1> QED
  BY <1>3, <1>4, <1>5, <1>6, <1>7, <1>8, <1>9, <1>10, <1>11, <1>12 DEF Azure

(* SwitchTraffic reports success for a gateway none of whose pools has the     *)
(* configured name and leaves its addresses alone: they are still blue's, and  *)
(* when the deployment is done no group has them any more.                   *)
Stranded ==
    Unnamed /\ Quiet =>
        /\ gateway.pool = Home
        /\ todo = "done" => \A n \in Alive : group[n].ip # gateway.pool

THEOREM UnswitchedTraffic == Spec => []Stranded
<1>1. DeployInv /\ DoneInv /\ StrandInv /\ [Next]_vars => DoneInv' /\ StrandInv'
  BY DoneStep, StrandStep
<1>2. DoneInv /\ StrandInv => Stranded
  BY DEF DoneInv, BlueGreenInv, StrandInv, Stranded, Unnamed, Alive, Name
<1> QED
  BY <1>1, <1>2, DoneInit, StrandInit, DeployInvariant, PTL DEF Spec

=============================================================================
