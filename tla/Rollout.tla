-------------------------------- MODULE Rollout --------------------------------
(***************************************************************************)
(* The deployment drivers of internal/driver/deploy.go: the rolling update,  *)
(* the blue-green switch and the canary, request by request, driven by a     *)
(* host that takes the steps of its strategy in order, asks GreenEndpoint    *)
(* before it switches, and after an error repeats the step or starts over.   *)
(***************************************************************************)
EXTENDS ContainerGroups

CONSTANTS New,          \* the image to deploy
          MaxRestarts

VARIABLES todo,         \* the host's next step
          greenIP       \* the address the blue-green driver has cached, or None

rolloutVars == <<todo, greenIP>>

ASSUME RolloutAssumption == New \in Image

Strategy == {"rolling", "bluegreen", "canary"}

(* The step that follows a step. *)
Plan == [rolling   |-> [update |-> "check", check |-> "done"],
         bluegreen |-> [create |-> "check", check |-> "switch",
                        switch |-> "destroy", destroy |-> "done"],
         canary    |-> [create |-> "check", check |-> "gate",
                        promote |-> "done", destroy |-> "aborted"]]

FirstStep == IF service = "rolling" THEN "update" ELSE "create"

RolloutInit == /\ todo = IF service \in Strategy THEN FirstStep ELSE "done"
               /\ greenIP = None

-----------------------------------------------------------------------------
(* The host calls the driver. *)
Begin(op, at) ==
    /\ call = Idle /\ todo = op
    /\ call' = [op |-> op, at |-> at, image |-> New, cg |-> None, gw |-> None,
                calm |-> TRUE]
    /\ UNCHANGED <<service, group, gateway, kept, used, todo, greenIP>>

Update        == service = "rolling" /\ Begin("update", "get")
CreateGreen   == service = "bluegreen" /\ Begin("create", "get")
CreateCanary  == service = "canary" /\ Begin("create", "get")
HealthCheck   == Begin("check", "look")
PromoteCanary == Begin("promote", "image")
DestroyBlue   == service = "bluegreen" /\ Begin("destroy", "delete")
DestroyCanary == service = "canary" /\ Begin("destroy", "delete")

Stay == UNCHANGED <<service, group, gateway, call, kept, used, greenIP>>

(* Mutant: an empty address is an answer. *)
NoEndpointNever == FALSE

(* GreenEndpoint's error. *)
NoEndpoint == greenIP = None

SwitchTraffic == /\ ~NoEndpoint /\ gateway # None
                 /\ Begin("switch", "getgw")

SwitchWithoutGateway ==
    /\ call = Idle /\ todo = "switch" /\ ~NoEndpoint /\ gateway = None
    /\ todo' = "destroy"
    /\ Stay

(* The host has no endpoint to switch to and creates green again. *)
EndpointMissing ==
    /\ call = Idle /\ todo = "switch" /\ NoEndpoint
    /\ todo' = "create"
    /\ Stay

(* RoutePercent is always an error: the host gives up, or goes on without    *)
(* routing, and CheckMetricGate lets it pass.                               *)
RoutePercent ==
    /\ call = Idle /\ todo = "gate"
    /\ todo' \in {"promote", "destroy"}
    /\ Stay

-----------------------------------------------------------------------------
Succeed == call' = Idle /\ todo' = Plan[service][todo]

Fail == /\ call' = Idle
        /\ todo' \in {FirstStep} \cup (IF todo = "check" THEN {} ELSE {todo})

(* Which group a HealthCheck or CurrentImage looks at, which one a PUT        *)
(* writes, and which one Destroy deletes.                                   *)
Looked == IF service = "rolling" THEN "base" ELSE "side"
Target == IF call.op = "create" THEN "side" ELSE "base"
Doomed == IF service = "bluegreen" THEN "base" ELSE "side"

(* Mutant: every PUT is of location and properties only. *)
BodyWithoutTags(cg) == [cg EXCEPT !.image = call.image, !.owner = None]

(* The group to PUT, made of what was read: all of it, or, for a new group,   *)
(* location and properties without the tags.                                *)
Body(cg) == IF call.op = "create"
            THEN [cg EXCEPT !.image = call.image, !.owner = None]
            ELSE [cg EXCEPT !.image = call.image]

Read == call.at \in {"look", "image", "get"}

Source == IF call.at = "get" THEN "base" ELSE Looked

GetDone ==
    /\ call.at = "get" /\ group["base"] # Absent
    /\ call' = [call EXCEPT !.at = "put", !.cg = Body(group["base"])]
    /\ UNCHANGED <<service, group, gateway, kept, used, todo, greenIP>>

LookDone ==
    /\ call.at = "look" /\ group[Looked] # Absent
    /\ IF group[Looked].state = "Succeeded" THEN Succeed ELSE Fail
    /\ UNCHANGED <<service, group, gateway, kept, used, greenIP>>

ImageDone ==
    /\ call.at = "image" /\ group["side"] # Absent
    /\ call' = [call EXCEPT !.at = "get", !.image = group["side"].image]
    /\ UNCHANGED <<service, group, gateway, kept, used, todo, greenIP>>

GetMissing ==
    /\ Read /\ group[Source] = Absent
    /\ Fail
    /\ UNCHANGED <<service, group, gateway, kept, used, greenIP>>

GetFailed ==
    /\ Read \/ call.at = "getgw"
    /\ Fault /\ Fail
    /\ UNCHANGED <<service, group, gateway, kept, greenIP>>

(* The answer to the PUT of a green group has its address. *)
PutDone ==
    /\ call.at = "put"
    /\ \E cg \in Provisioned(Target, call.cg, "Succeeded") :
          /\ group' = [group EXCEPT ![Target] = cg]
          /\ greenIP' = IF service = "bluegreen" /\ call.op = "create"
                        THEN cg.ip ELSE greenIP
    /\ IF call.op = "promote"
       THEN call' = [call EXCEPT !.at = "delete"] /\ UNCHANGED todo
       ELSE Succeed
    /\ UNCHANGED <<service, gateway, kept, used>>

PutEffect ==
    \/ UNCHANGED group
    \/ \E state \in {"Succeeded", "Failed"} :
       \E cg \in Provisioned(Target, call.cg, state) :
          group' = [group EXCEPT ![Target] = cg]

(* Mutant: a promotion goes on to delete the canary after a failed update. *)
PutFailedOnwards ==
    /\ call.at = "put"
    /\ Fault
    /\ IF call.op = "promote"
       THEN call' = [call EXCEPT !.at = "delete"] /\ UNCHANGED todo
       ELSE Fail
    /\ PutEffect
    /\ UNCHANGED <<service, gateway, kept, greenIP>>

PutFailed ==
    /\ call.at = "put"
    /\ Fault /\ Fail
    /\ PutEffect
    /\ UNCHANGED <<service, gateway, kept, greenIP>>

(* Deleting what is not there succeeds. *)
WithoutDoomed ==
    /\ group' = [group EXCEPT ![Doomed] = Absent]
    /\ kept' = IF Doomed = "base" THEN [kept EXCEPT !.owner = None] ELSE kept

DeleteDone ==
    /\ call.at = "delete"
    /\ WithoutDoomed
    /\ Succeed
    /\ UNCHANGED <<service, gateway, used, greenIP>>

(* Mutant: the error of the delete is not looked at. *)
DeleteFailedQuietly ==
    /\ call.at = "delete"
    /\ Fault /\ Succeed
    /\ WithoutDoomed \/ UNCHANGED <<group, kept>>
    /\ UNCHANGED <<service, gateway, greenIP>>

DeleteFailed ==
    /\ call.at = "delete"
    /\ Fault /\ Fail
    /\ WithoutDoomed \/ UNCHANGED <<group, kept>>
    /\ UNCHANGED <<service, gateway, greenIP>>

(* Only a pool of the configured name, with properties, gets green's address; *)
(* without one the gateway is written back as it was read.                   *)
Switched == IF gateway.has = "named" THEN [gateway EXCEPT !.pool = greenIP]
            ELSE gateway

GetGateway ==
    /\ call.at = "getgw" /\ gateway.has # "nothing"
    /\ call' = [call EXCEPT !.at = "putgw", !.gw = Switched]
    /\ UNCHANGED <<service, group, gateway, kept, used, todo, greenIP>>

GatewayBare ==
    /\ call.at = "getgw" /\ gateway.has = "nothing"
    /\ Fail
    /\ UNCHANGED <<service, group, gateway, kept, used, greenIP>>

PutGatewayDone ==
    /\ call.at = "putgw"
    /\ gateway' = call.gw
    /\ Succeed
    /\ UNCHANGED <<service, group, kept, used, greenIP>>

PutGatewayFailed ==
    /\ call.at = "putgw"
    /\ Fault /\ Fail
    /\ gateway' \in {gateway, call.gw}
    /\ UNCHANGED <<service, group, kept, greenIP>>

(* The process ends between two calls and the driver is built anew; the end   *)
(* of a process during a call is a failed request before it.                *)
Restart ==
    /\ greenIP # None
    /\ used.restarts < MaxRestarts
    /\ used' = [used EXCEPT !.restarts = @ + 1]
    /\ call = Idle
    /\ greenIP' = None
    /\ UNCHANGED <<service, group, gateway, call, kept, todo>>

Host == \/ Update \/ CreateGreen \/ CreateCanary \/ HealthCheck
        \/ PromoteCanary \/ DestroyBlue \/ DestroyCanary
        \/ SwitchTraffic \/ SwitchWithoutGateway \/ EndpointMissing
        \/ RoutePercent

Azure == \/ GetDone \/ LookDone \/ ImageDone \/ GetMissing \/ GetFailed
         \/ PutDone \/ PutFailed \/ DeleteDone \/ DeleteFailed
         \/ GetGateway \/ GatewayBare \/ PutGatewayDone \/ PutGatewayFailed

RolloutNext == Host \/ Azure \/ Restart

-----------------------------------------------------------------------------
Step == {"update", "create", "check", "switch", "gate", "promote", "destroy",
         "done", "aborted"}

(* Every variable of a deployment has its type. *)
RolloutTypeOK ==
    /\ group \in [Name -> Group \cup {Absent}]
    /\ gateway = None \/ gateway \in Gateway
    /\ kept \in [owner : Owner \cup {None}, rest : Nat \cup {None}]
    /\ todo \in Step
    /\ greenIP \in Addr \cup {None}
    /\ \/ call = Idle
       \/ /\ call.op \in Step /\ call.image \in Image /\ call.calm \in BOOLEAN
          /\ call.at \in {"look", "image", "get", "put", "delete", "getgw", "putgw"}
          /\ call.at = "put" => call.cg \in Group
          /\ call.at = "putgw" => call.gw \in Gateway

(* A gateway that SwitchTraffic changes or reports an error for; of one that  *)
(* has other pools only it reports a switch that did not take place.         *)
Switchable == gateway # None /\ gateway.has # "others"

(* In a blue-green deployment whose gateway has the configured pool, the pool *)
(* always has the address of a group that exists: blue goes only after the   *)
(* traffic went, and the traffic goes only where the driver knows green to    *)
(* be, whatever failed, was repeated or started over, and though a new        *)
(* process has no cached address.  Unless somebody else removes a group.     *)
Served ==
    service = "bluegreen" /\ Switchable /\ used.removals = 0 =>
        \E n \in Alive : group[n].ip = gateway.pool

(* PromoteCanary deletes the canary only when the stable group runs its      *)
(* image: a failed read or update of the stable group must end the promotion. *)
(* Unless somebody else wrote one of the groups during the call.             *)
PromoteKeeps ==
    [][call.at = "delete" /\ call.op = "promote" /\ call.calm
         /\ used'.removals = used.removals
         /\ group["side"] # Absent /\ group'["side"] = Absent
       => /\ group["base"] # Absent
          /\ group["base"].image = group["side"].image]_groupVars

(* Update, PromoteCanary and SwitchTraffic write back all of what they read: *)
(* an owner that SetOwner reported as set and a changed gateway are still    *)
(* there, unless the change came between the read and the write.            *)
OthersKept ==
    /\ kept.owner # None =>
          group["base"] # Absent /\ group["base"].owner = kept.owner
    /\ gateway # None /\ kept.rest # None => gateway.rest = kept.rest

Deployed ==
    CASE service = "rolling" ->
            group["base"] # Absent /\ group["base"].image = New
      [] service = "bluegreen" ->
            /\ group["base"] = Absent
            /\ group["side"] # Absent /\ group["side"].image = New
            /\ Switchable => gateway.pool = group["side"].ip
      [] service = "canary" ->
            /\ group["side"] = Absent
            /\ todo = "aborted" \/ group["base"].image = New
      [] OTHER -> TRUE

Serving == IF service = "bluegreen" THEN "side" ELSE "base"

(* A host whose last step was reported as done has its image deployed, in a   *)
(* group that is provisioned and has the traffic of the configured pool, if   *)
(* the gateway has that, and nothing left over; one that gave up its     *)
(* canary has removed it.  Whatever was lost, half-done, repeated or started  *)
(* over before, as long as nobody else writes the groups.                   *)
DoneIsDeployed ==
    service \in Strategy /\ todo \in {"done", "aborted"}
            /\ used.applies = 0 /\ used.removals = 0 =>
        /\ Deployed
        /\ todo = "done" => group[Serving].state = "Succeeded"

(* A deployment ends: the image is rolled out, green has the traffic (of the  *)
(* configured pool, if the gateway has it) and blue is gone, the canary is    *)
(* promoted or destroyed, also when the answer to a step was lost or the      *)
(* process restarted between two.  As long as nobody else writes the groups   *)
(* and the gateway has properties, without which no switch succeeds.         *)
RolledOut ==
    <>[](used.applies = 0 /\ used.removals = 0
            /\ (gateway # None => gateway.has # "nothing") => Deployed)

=============================================================================
